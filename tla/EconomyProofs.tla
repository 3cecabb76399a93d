----------------------------- MODULE EconomyProofs ----------------------------
(***************************************************************************)
(* People, factories and the market.                                       *)
(*                                                                         *)
(* People and money are for any number of provinces, POPs and slots, any   *)
(* sizes, balances and requests, any cap, any scale of the ratios and any  *)
(* word that MigrationAssumption allows: first the arithmetic of one       *)
(* transfer and one delivery, then what they do to a sum over the world,   *)
(* then the invariants and the action properties of the run.               *)
(*                                                                         *)
(* A state's factories are well built for any types, categories and number *)
(* of places, and the market answers to what they deliver, for any         *)
(* outputs, prices and demands.  Newton's iteration is known by where it   *)
(* stops, so the root of the curve rises with what it is taken of; no      *)
(* earlier factor of the curve is larger than a later one, and the root    *)
(* takes over above the last.                                              *)
(***************************************************************************)
EXTENDS PopMigration, Economy, CollectionLemmas

-------------------------------------------------------------------------------
(* Products and quotients. *)

LEMMA ProductIsMonotone ==
    ASSUME NEW a \in Nat, NEW b \in Nat, NEW c \in Nat, a <= b
    PROVE  a * c \in Nat /\ a * c <= b * c
  <1>1. PICK d \in Nat : b = a + d
    BY b - a \in Nat
  <1>2. b * c = a * c + d * c /\ a * c \in Nat /\ d * c \in Nat
    BY <1>1
  <1> QED
    BY <1>2

LEMMA QuotientIsBounded ==
    ASSUME NEW a \in Nat, NEW b \in Nat \ {0}, NEW c \in Nat, a <= c * b
    PROVE  a \div b \in 0 .. c
  <1> DEFINE q == a \div b
  <1>1. q \in Nat /\ q * b <= a
    BY SMT
  <1>2. SUFFICES ASSUME q >= c + 1 PROVE FALSE
    BY <1>1
  <1> HIDE DEF q
  <1>3. (c + 1) * b <= q * b
    BY <1>1, <1>2, ProductIsMonotone
  <1>4. (c + 1) * b = c * b + b
    OBVIOUS
  <1> QED
    BY <1>1, <1>3, <1>4

\* A value of the word is read as it is.
LEMMA SignedFits ==
    ASSUME NEW x \in Int, 0 - Half <= x, x < Half, Half \in Nat
    PROVE  Signed(x) = x
  BY DEF Signed

-------------------------------------------------------------------------------
(* The share of the money. *)

\* As Transfer computes it, of a balance no larger than all the money.
Amount(size, request) == IF request < size THEN request ELSE size
Share(size, balance, request) ==
    Signed(((Amount(size, request) * Fixed) \div size) * balance) \div Fixed

\* No ratio exceeds one and no product leaves the word, so that the share is never
\* more than there is.
LEMMA ShareIsAPart ==
    ASSUME NEW size \in Nat \ {0}, NEW balance \in Nat, balance <= Wealth, NEW request \in Nat
    PROVE  Share(size, balance, request) \in 0 .. balance
  <1> DEFINE amount  == Amount(size, request)
             ratio   == (amount * Fixed) \div size
             product == ratio * balance
  <1>1. Fixed \in Nat \ {0} /\ Half \in Nat /\ Wealth \in Nat /\ Wealth * Fixed < Half
    BY MigrationAssumption
  <1>2. amount \in Nat /\ amount <= size
    BY DEF Amount
  <1>3. ratio \in 0 .. Fixed
    <2>1. amount * Fixed \in Nat /\ amount * Fixed <= size * Fixed /\ size * Fixed = Fixed * size
      BY <1>1, <1>2, ProductIsMonotone
    <2> QED
      BY <1>1, <2>1, QuotientIsBounded
  <1>4. product \in Nat /\ product <= Fixed * balance /\ Fixed * balance = balance * Fixed
    BY <1>1, <1>3, ProductIsMonotone
  <1>5. balance * Fixed <= Wealth * Fixed
    BY <1>1, ProductIsMonotone
  <1>6. Signed(product) = product
    <2> HIDE DEF product
    <2> QED
      BY <1>1, <1>4, <1>5, SignedFits
  <1>7. product \div Fixed \in 0 .. balance
    BY <1>1, <1>4, QuotientIsBounded
  <1> QED
    BY <1>6, <1>7 DEF Share

-------------------------------------------------------------------------------
(* The results. *)

\* 0x005345A0, on any two ends that hold no more than all the money: what the
\* balance of the POP loses the slot gains, in spite of the rounded ratio and of
\* the word the product goes through, and neither end is left in debt.
THEOREM TransferKeepsMoney ==
    ASSUME NEW source \in Pop, NEW slot \in Slot, NEW request \in Nat,
           source.balance + slot.balance <= Wealth
    PROVE  LET done == Transfer(source, slot, request)
           IN  /\ done.from.balance \in 0 .. source.balance
               /\ done.to.balance \in slot.balance .. Wealth
               /\ done.from.balance + done.to.balance = source.balance + slot.balance
  <1> DEFINE done  == Transfer(source, slot, request)
             delta == Share(source.size, source.balance, request)
  <1>1. /\ source.size \in Nat /\ source.balance \in Nat /\ slot.balance \in Nat
        /\ Half \in Nat /\ Fixed \in Nat \ {0} /\ Wealth \in Nat /\ Wealth < Half
    <2>1. /\ Half \in Nat /\ Fixed \in Nat \ {0} /\ MaxSize \in Nat
          /\ Wealth \in Nat /\ Wealth * Fixed < Half
      BY MigrationAssumption
    <2>2. 1 * Wealth <= Fixed * Wealth /\ Fixed * Wealth = Wealth * Fixed
      BY <2>1, ProductIsMonotone
    <2> QED
      BY <2>1, <2>2 DEF Pop, Slot, Size
  <1>2. Initialized(slot, source).balance = slot.balance
    BY DEF Initialized, Slot
  <1>3. CASE source.size = 0
    <2>1. done.from = source /\ done.to.balance = Initialized(slot, source).balance
      BY <1>3 DEF Transfer, Initialized, Slot
    <2> QED
      BY <1>1, <1>2, <2>1
  <1>4. CASE source.size # 0
    <2>1. delta \in 0 .. source.balance
      <3>1. source.size \in Nat \ {0} /\ source.balance <= Wealth
        BY <1>1, <1>4
      <3> QED
        BY <1>1, <3>1, ShareIsAPart
    <2>2. /\ done.from.balance = NotBelow0(Signed(source.balance - delta))
          /\ done.to.balance = NotBelow0(Signed(slot.balance + delta))
      BY <1>4, <1>2 DEF Transfer, Initialized, Share, Amount, Pop, Slot
    <2> HIDE DEF delta
    <2>3. /\ Signed(source.balance - delta) = source.balance - delta
          /\ Signed(slot.balance + delta) = slot.balance + delta
      BY <1>1, <2>1, SignedFits
    <2> QED
      BY <1>1, <2>1, <2>2, <2>3 DEF NotBelow0
  <1> QED
    BY <1>3, <1>4

\* The same call moves as many people as it counts: they leave the POP, and arrive
\* in the slot unless that is full.
THEOREM TransferMovesWhatItCounts ==
    ASSUME NEW source \in Pop, NEW slot \in Slot, NEW request \in Nat
    PROVE  LET done == Transfer(source, slot, request)
           IN  /\ done.amount \in 0 .. source.size
               /\ done.from.size \in Size /\ done.to.size \in Size
               /\ done.from.size + done.amount = source.size
               /\ \/ done.to.size = slot.size + done.amount
                  \/ done.to.size = MaxSize /\ slot.size + done.amount > MaxSize
  <1> DEFINE done == Transfer(source, slot, request)
  <1>1. MaxSize \in Nat /\ source.size \in 0 .. MaxSize /\ slot.size \in 0 .. MaxSize
    BY MigrationAssumption DEF Pop, Slot, Size
  <1>2. Initialized(slot, source).size = slot.size
    BY DEF Initialized, Slot
  <1>3. CASE source.size = 0
    <2>1. /\ done.from = source /\ done.amount = 0
          /\ done.to.size = SetSize(slot.size + 0)
      BY <1>1, <1>2, <1>3 DEF Transfer, Initialized, Slot
    <2> QED
      BY <1>1, <1>3, <2>1 DEF SetSize, Size
  <1>4. CASE source.size # 0
    <2> DEFINE amount == Amount(source.size, request)
    <2>1. amount \in 0 .. source.size
      BY <1>1 DEF Amount
    <2>2. /\ done.amount = amount
          /\ done.from.size = SetSize(source.size - amount)
          /\ done.to.size = SetSize(slot.size + amount)
      BY <1>2, <1>4 DEF Transfer, Initialized, Amount, Pop, Slot
    <2> HIDE DEF amount
    <2> QED
      BY <1>1, <2>1, <2>2 DEF SetSize, Size
  <1> QED
    BY <1>3, <1>4

\* 0x00964370 and the factory: the POP that takes the people of a slot in takes all
\* their money, and a new POP is founded with it.
THEOREM DeliveryKeepsMoney ==
    ASSUME NEW c \in Pop, NEW slot \in Slot, c.balance + slot.balance <= Wealth
    PROVE  /\ Merge(c, slot).balance = c.balance + slot.balance
           /\ Factory(slot).balance = slot.balance
  <1>1. /\ c.balance \in Nat /\ slot.balance \in Nat
        /\ Half \in Nat /\ Fixed \in Nat \ {0} /\ Wealth \in Nat /\ Wealth * Fixed < Half
    BY MigrationAssumption DEF Pop, Slot
  <1>2. 1 * Wealth <= Fixed * Wealth /\ Fixed * Wealth = Wealth * Fixed
    BY <1>1, ProductIsMonotone
  <1>3. Signed(c.balance + slot.balance) = c.balance + slot.balance
    BY <1>1, <1>2, SignedFits
  <1>4. Merge(c, slot).balance = AddBalance(c.balance, slot.balance)
    BY DEF Merge, Pop
  <1>5. Factory(slot).balance = NotBelow0(slot.balance)
    BY DEF Factory
  <1> QED
    BY <1>1, <1>3, <1>4, <1>5 DEF AddBalance, NotBelow0

\* A promotion, the rest that falls below the floor of its type included, makes the
\* two POPs together no larger, and smaller only if it fills the second.
THEOREM PromotionKeepsPeople ==
    ASSUME pops \in [Province -> Seq(Pop)], NEW p \in Province,
           NEW j \in DOMAIN pops[p], NEW k \in DOMAIN pops[p], NEW request \in Requests,
           Promote(p, j, k, request)
    PROVE  LET before == pops[p][j].size + pops[p][k].size
               after  == pops'[p][j].size + pops'[p][k].size
           IN  after <= before /\ (after < before => pops'[p][k].size = MaxSize)
  <1> DEFINE a    == pops[p][j].size
             b    == pops[p][k].size
             rest == a - request
             delta == IF rest < TypeOf[pops[p][j].type].floor THEN a ELSE request
  <1>1. /\ pops[p] \in Seq(Pop) /\ pops[p][j] \in Pop /\ pops[p][k] \in Pop
    OBVIOUS
  <1>2. a \in 0 .. MaxSize /\ b \in 0 .. MaxSize /\ MaxSize \in Nat /\ request \in Nat
    BY <1>1, MigrationAssumption DEF Pop, Size
  <1>3. TypeOf[pops[p][j].type].floor \in Nat
    BY <1>1, MigrationAssumption DEF Pop
  <1>4. delta \in 0 .. a
    BY <1>2, <1>3
  <1>5. /\ pops'[p][j].size = SetSize(a - delta)
        /\ pops'[p][k].size = SetSize(b + delta)
    BY <1>1 DEF Promote, Pop
  <1> HIDE DEF a, b, delta
  <1> QED
    BY <1>2, <1>4, <1>5 DEF SetSize, a, b

-------------------------------------------------------------------------------
(* Sums over the world. *)

\* A measure says what a POP or a slot counts for in a province; the world's is
\* the sum over the provinces of the sums over their records.
Rec      == Pop \cup Slot
Bags     == [Province -> Seq(Rec)]
Measures == [Province -> [Rec -> Int]]
Column(w, p, bag) == [i \in DOMAIN bag |-> w[p][bag[i]]]
Rows(w, bags)     == [p \in Province |-> SumFunction(Column(w, p, bags[p]))]
World(w, bags)    == SumFunction(Rows(w, bags))

LEMMA ProvincesAreFinite == IsFiniteSet(Province)
  <1>1. Provinces \in Seq(Province)
    BY MigrationAssumption
  <1>2. DOMAIN Provinces = 1 .. Len(Provinces) /\ IsFiniteSet(1 .. Len(Provinces))
    BY <1>1, FS_Interval
  <1>3. Provinces \in Surjection(1 .. Len(Provinces), Province)
    BY <1>1, <1>2 DEF Surjection, Province, Range
  <1> QED
    BY <1>2, <1>3, FS_Surjection

LEMMA ColumnFacts ==
    ASSUME NEW w \in Measures, NEW p \in Province, NEW bag \in Seq(Rec)
    PROVE  /\ Column(w, p, bag) \in Seq(Int) /\ Len(Column(w, p, bag)) = Len(bag)
           /\ \A i \in 1 .. Len(bag) : /\ Column(w, p, bag)[i] = w[p][bag[i]]
                                       /\ bag[i] \in Rec /\ w[p][bag[i]] \in Int
           /\ SumFunction(Column(w, p, bag)) \in Int
           /\ bag = <<>> => SumFunction(Column(w, p, bag)) = 0
  <1>1. DOMAIN bag = 1 .. Len(bag) /\ Len(bag) \in Nat /\ \A i \in 1 .. Len(bag) : bag[i] \in Rec
    OBVIOUS
  <1>2. \A x \in Rec : w[p][x] \in Int
    BY DEF Measures
  <1>3. Column(w, p, bag) \in Seq(Int) /\ Len(Column(w, p, bag)) = Len(bag)
    BY <1>1, <1>2 DEF Column
  <1>4. \A i \in 1 .. Len(bag) : Column(w, p, bag)[i] = w[p][bag[i]]
    BY <1>1 DEF Column
  <1>5. bag = <<>> => Column(w, p, bag) = <<>>
    BY <1>3
  <1> QED
    BY <1>1, <1>2, <1>3, <1>4, <1>5, SequenceSum

\* One bag of one province changes.
LEMMA WorldChanges ==
    ASSUME NEW w \in Measures, NEW old \in Bags, NEW new \in Bags, NEW p \in Province,
           \A q \in Province : q # p => new[q] = old[q]
    PROVE  /\ World(w, old) \in Int
           /\ World(w, new) = World(w, old) - SumFunction(Column(w, p, old[p]))
                                            + SumFunction(Column(w, p, new[p]))
  <1> DEFINE f == Rows(w, old)
             e == Rows(w, new)
  <1>1. /\ World(w, old) = SumFunctionOnSet(f, Province)
        /\ World(w, new) = SumFunctionOnSet(e, Province)
    BY DEF World, Rows, SumFunction
  <1>2. \A q \in Province : f[q] \in Int /\ e[q] \in Int
    BY ColumnFacts DEF Rows, Bags
  <1>3. \A q \in Province \ {p} : e[q] = f[q]
    BY DEF Rows
  <1>4. /\ f[p] = SumFunction(Column(w, p, old[p]))
        /\ e[p] = SumFunction(Column(w, p, new[p]))
    BY DEF Rows
  <1> HIDE DEF f, e
  <1>5. SumFunctionOnSet(e, Province) = SumFunctionOnSet(f, Province) - f[p] + e[p]
    BY <1>2, <1>3, ProvincesAreFinite, SumChanges
  <1>6. SumFunctionOnSet(f, Province) \in Int
    BY <1>2, ProvincesAreFinite, SumType
  <1> QED
    BY <1>1, <1>4, <1>5, <1>6

\* The bag of a province with one of its records replaced, or one appended.
LEMMA BagPut ==
    ASSUME NEW w \in Measures, NEW p \in Province, NEW a \in Seq(Rec), NEW b \in Seq(Rec),
           Len(b) = Len(a), NEW k \in 1 .. Len(a),
           \A i \in 1 .. Len(a) : i # k => b[i] = a[i]
    PROVE  SumFunction(Column(w, p, b)) = SumFunction(Column(w, p, a)) - w[p][a[k]] + w[p][b[k]]
  <1> DEFINE s == Column(w, p, a)
             t == Column(w, p, b)
  <1>1. /\ s \in Seq(Int) /\ Len(s) = Len(a)
        /\ \A i \in 1 .. Len(a) : s[i] = w[p][a[i]]
    BY ColumnFacts
  <1>2. /\ t \in Seq(Int) /\ Len(t) = Len(b)
        /\ \A i \in 1 .. Len(b) : t[i] = w[p][b[i]]
    BY ColumnFacts
  <1> HIDE DEF s, t
  <1>3. Len(t) = Len(s) /\ k \in 1 .. Len(s) /\ \A i \in 1 .. Len(s) : i # k => t[i] = s[i]
    BY <1>1, <1>2
  <1>4. SumFunction(t) = SumFunction(s) - s[k] + t[k]
    BY <1>1, <1>2, <1>3, EntryChanges
  <1> QED
    BY <1>1, <1>2, <1>4 DEF s, t

LEMMA BagAppend ==
    ASSUME NEW w \in Measures, NEW p \in Province, NEW a \in Seq(Rec), NEW b \in Seq(Rec),
           Len(b) = Len(a) + 1, \A i \in 1 .. Len(a) : b[i] = a[i]
    PROVE  SumFunction(Column(w, p, b)) = SumFunction(Column(w, p, a)) + w[p][b[Len(b)]]
  <1> DEFINE s == Column(w, p, a)
             t == Column(w, p, b)
  <1>1. /\ s \in Seq(Int) /\ Len(s) = Len(a)
        /\ \A i \in 1 .. Len(a) : s[i] = w[p][a[i]]
    BY ColumnFacts
  <1>2. /\ t \in Seq(Int) /\ Len(t) = Len(b)
        /\ \A i \in 1 .. Len(b) : t[i] = w[p][b[i]]
    BY ColumnFacts
  <1> HIDE DEF s, t
  <1>3. Len(t) = Len(s) + 1 /\ \A i \in 1 .. Len(s) : t[i] = s[i]
    <2>1. Len(a) \in Nat
      OBVIOUS
    <2>2. \A i \in 1 .. Len(a) : i \in 1 .. Len(b)
      BY <2>1
    <2>3. ASSUME NEW i \in 1 .. Len(a) PROVE t[i] = s[i]
      <3>1. t[i] = w[p][b[i]]
        BY <1>2, <2>2
      <3>2. s[i] = w[p][a[i]] /\ b[i] = a[i]
        BY <1>1
      <3> QED
        BY <3>1, <3>2
    <2>4. Len(t) = Len(s) + 1
      BY <1>1, <1>2
    <2> QED
      BY <1>1, <2>3, <2>4
  <1>4. SumFunction(t) = SumFunction(s) + t[Len(t)]
    BY <1>1, <1>2, <1>3, EntryAppended
  <1>5. Len(b) \in 1 .. Len(b)
    OBVIOUS
  <1> QED
    BY <1>1, <1>2, <1>4, <1>5 DEF s, t

\* A record of the world is replaced.
LEMMA WorldPut ==
    ASSUME NEW w \in Measures, NEW old \in Bags, NEW p \in Province,
           NEW k \in 1 .. Len(old[p]), NEW x \in Rec
    PROVE  LET new == [old EXCEPT ![p] = [@ EXCEPT ![k] = x]]
           IN  /\ new \in Bags
               /\ World(w, old) \in Int /\ w[p][old[p][k]] \in Int /\ w[p][x] \in Int
               /\ World(w, new) = World(w, old) - w[p][old[p][k]] + w[p][x]
  <1> DEFINE new == [old EXCEPT ![p] = [@ EXCEPT ![k] = x]]
  <1>1. /\ old[p] \in Seq(Rec) /\ new[p] \in Seq(Rec) /\ Len(new[p]) = Len(old[p])
        /\ new[p][k] = x /\ \A i \in 1 .. Len(old[p]) : i # k => new[p][i] = old[p][i]
    BY DEF Bags
  <1>2. new \in Bags /\ \A q \in Province : q # p => new[q] = old[q]
    BY <1>1 DEF Bags
  <1> HIDE DEF new
  <1>3. w[p][old[p][k]] \in Int /\ w[p][x] \in Int
    BY <1>1 DEF Measures
  <1>4. SumFunction(Column(w, p, old[p])) \in Int
    BY <1>1, ColumnFacts
  <1>5. /\ World(w, old) \in Int
        /\ World(w, new) = World(w, old) - SumFunction(Column(w, p, old[p]))
                                         + SumFunction(Column(w, p, new[p]))
    BY <1>2, WorldChanges
  <1>6. SumFunction(Column(w, p, new[p])) =
          SumFunction(Column(w, p, old[p])) - w[p][old[p][k]] + w[p][new[p][k]]
    BY <1>1, BagPut
  <1>7. World(w, new) = World(w, old) - w[p][old[p][k]] + w[p][x]
    BY <1>1, <1>3, <1>4, <1>5, <1>6
  <1> QED
    BY <1>2, <1>3, <1>5, <1>7 DEF new

\* A record is appended.
LEMMA WorldAppend ==
    ASSUME NEW w \in Measures, NEW old \in Bags, NEW p \in Province, NEW x \in Rec
    PROVE  LET new == [old EXCEPT ![p] = Append(@, x)]
           IN  /\ new \in Bags
               /\ World(w, old) \in Int /\ w[p][x] \in Int
               /\ World(w, new) = World(w, old) + w[p][x]
  <1> DEFINE new == [old EXCEPT ![p] = Append(@, x)]
  <1>1. /\ old[p] \in Seq(Rec) /\ new[p] \in Seq(Rec) /\ Len(new[p]) = Len(old[p]) + 1
        /\ new[p][Len(new[p])] = x
        /\ \A i \in 1 .. Len(old[p]) : new[p][i] = old[p][i]
    BY DEF Bags
  <1>2. new \in Bags /\ \A q \in Province : q # p => new[q] = old[q]
    BY <1>1 DEF Bags
  <1> HIDE DEF new
  <1>3. w[p][x] \in Int
    BY DEF Measures
  <1>4. SumFunction(Column(w, p, old[p])) \in Int
    BY <1>1, ColumnFacts
  <1>5. /\ World(w, old) \in Int
        /\ World(w, new) = World(w, old) - SumFunction(Column(w, p, old[p]))
                                         + SumFunction(Column(w, p, new[p]))
    BY <1>2, WorldChanges
  <1>6. SumFunction(Column(w, p, new[p])) =
          SumFunction(Column(w, p, old[p])) + w[p][new[p][Len(new[p])]]
    BY <1>1, BagAppend
  <1>7. World(w, new) = World(w, old) + w[p][x]
    BY <1>1, <1>3, <1>4, <1>5, <1>6
  <1> QED
    BY <1>2, <1>3, <1>5, <1>7 DEF new

\* No record counts for more than the world when none counts for less than nothing.
LEMMA WorldBounds ==
    ASSUME NEW w \in Measures, NEW bags \in Bags,
           \A p \in Province, x \in Rec : w[p][x] \in Nat
    PROVE  /\ World(w, bags) \in Nat
           /\ \A p \in Province : \A k \in 1 .. Len(bags[p]) : w[p][bags[p][k]] <= World(w, bags)
  <1> DEFINE f == Rows(w, bags)
  <1>1. ASSUME NEW p \in Province
        PROVE  f[p] \in Nat /\ \A k \in 1 .. Len(bags[p]) : w[p][bags[p][k]] <= f[p]
    <2> DEFINE s == Column(w, p, bags[p])
    <2>1. bags[p] \in Seq(Rec)
      BY DEF Bags
    <2>2. /\ s \in Seq(Int) /\ Len(s) = Len(bags[p])
          /\ \A k \in 1 .. Len(s) : s[k] = w[p][bags[p][k]] /\ s[k] \in Nat
      BY <2>1, ColumnFacts
    <2>3. f[p] = SumFunction(s)
      BY DEF Rows
    <2> HIDE DEF s, f
    <2> DEFINE I == 1 .. Len(s)
    <2>4. SumFunction(s) = SumFunctionOnSet(s, I) /\ IsFiniteSet(I)
      BY <2>2, SequenceSum
    <2>5. \A k \in I : s[k] \in Nat
      BY <2>2
    <2>6. SumFunctionOnSet(s, I) \in Nat /\ \A k \in I : s[k] <= SumFunctionOnSet(s, I)
      <3> HIDE DEF I
      <3> QED
        BY <2>4, <2>5, SumOfNaturals
    <2> QED
      BY <2>2, <2>3, <2>4, <2>6
  <1>2. World(w, bags) = SumFunctionOnSet(f, Province)
    BY DEF World, Rows, SumFunction
  <1> HIDE DEF f
  <1>3. SumFunctionOnSet(f, Province) \in Nat
           /\ \A p \in Province : f[p] <= SumFunctionOnSet(f, Province)
    BY <1>1, ProvincesAreFinite, SumOfNaturals
  <1>4. ASSUME NEW p \in Province, NEW k \in 1 .. Len(bags[p])
        PROVE  w[p][bags[p][k]] <= World(w, bags)
    <2>1. bags[p][k] \in Rec
      BY DEF Bags
    <2>2. w[p][bags[p][k]] \in Nat
      BY <2>1
    <2> QED
      BY <1>1, <1>2, <1>3, <2>2
  <1> QED
    BY <1>2, <1>3, <1>4

-------------------------------------------------------------------------------
(* What the properties sum up, as measures. *)

Money        == [p \in Province |-> [x \in Rec |-> x.balance]]
Heads        == [p \in Province |-> [x \in Rec |-> x.size]]
Raised(g, l) == [p \in Province |-> [x \in Rec |->
                    IF GroupOf[x.culture] = g /\ Level(x) >= l THEN x.size ELSE 0]]
Way(b)       == [p \in Province |-> [x \in Rec |->
                    IF Abroad(x.region, p) = b THEN x.size ELSE 0]]

LEMMA RecFields ==
    ASSUME NEW x \in Rec
    PROVE  x.size \in 0 .. MaxSize /\ x.size \in Nat /\ x.balance \in Nat /\ MaxSize \in Nat
  BY MigrationAssumption DEF Rec, Pop, Slot, Size

LEMMA MeasuresAre ==
    /\ Money \in Measures /\ Heads \in Measures
    /\ \A g, l : Raised(g, l) \in Measures
    /\ \A b : Way(b) \in Measures
  BY RecFields DEF Money, Heads, Raised, Way, Measures

\* Two bags of a province, summed together and apart.
LEMMA WorldOfBoth ==
    ASSUME NEW w \in Measures, NEW P \in Bags, NEW Q \in Bags
    PROVE  SumFunction([p \in Province |-> SumFunction(Column(w, p, P[p]))
                                         + SumFunction(Column(w, p, Q[p]))])
             = World(w, P) + World(w, Q)
  <1> DEFINE h == [p \in Province |-> SumFunction(Column(w, p, P[p]))
                                    + SumFunction(Column(w, p, Q[p]))]
             f == Rows(w, P)
             e == Rows(w, Q)
  <1>1. \A p \in Province : f[p] \in Int /\ e[p] \in Int /\ h[p] = f[p] + e[p]
    BY ColumnFacts DEF Bags, Rows
  <1>2. /\ World(w, P) = SumFunctionOnSet(f, Province)
        /\ World(w, Q) = SumFunctionOnSet(e, Province)
        /\ SumFunction(h) = SumFunctionOnSet(h, Province)
    BY DEF World, Rows, SumFunction
  <1> HIDE DEF f, e, h
  <1>3. SumFunctionOnSet(h, Province) = SumFunctionOnSet(f, Province) + SumFunctionOnSet(e, Province)
    BY <1>1, ProvincesAreFinite, SumAdds
  <1> QED
    BY <1>2, <1>3 DEF h

LEMMA MoneySum ==
    ASSUME NEW P \in Bags, NEW Q \in Bags
    PROVE  OverProvinces(LAMBDA p : Balances(P[p]) + Balances(Q[p]))
             = World(Money, P) + World(Money, Q)
  <1>1. \A p \in Province : /\ Column(Money, p, P[p]) = [i \in DOMAIN P[p] |-> P[p][i].balance]
                            /\ Column(Money, p, Q[p]) = [i \in DOMAIN Q[p] |-> Q[p][i].balance]
    BY DEF Bags, Column, Money
  <1>2. [p \in Province |-> SumFunction([i \in DOMAIN P[p] |-> P[p][i].balance])
                          + SumFunction([i \in DOMAIN Q[p] |-> Q[p][i].balance])]
          = [p \in Province |-> SumFunction(Column(Money, p, P[p]))
                              + SumFunction(Column(Money, p, Q[p]))]
    BY <1>1
  <1> QED
    BY <1>2, WorldOfBoth, MeasuresAre DEF OverProvinces, Balances

LEMMA HeadsSum ==
    ASSUME NEW P \in Bags, NEW Q \in Bags
    PROVE  OverProvinces(LAMBDA p : SizesOf(P[p], LAMBDA x : TRUE)
                                    + SizesOf(Q[p], LAMBDA x : TRUE))
             = World(Heads, P) + World(Heads, Q)
  <1>1. \A p \in Province :
          /\ Column(Heads, p, P[p]) = [i \in DOMAIN P[p] |-> IF TRUE THEN P[p][i].size ELSE 0]
          /\ Column(Heads, p, Q[p]) = [i \in DOMAIN Q[p] |-> IF TRUE THEN Q[p][i].size ELSE 0]
    BY DEF Bags, Column, Heads
  <1>2. [p \in Province |-> SumFunction([i \in DOMAIN P[p] |-> IF TRUE THEN P[p][i].size ELSE 0])
                          + SumFunction([i \in DOMAIN Q[p] |-> IF TRUE THEN Q[p][i].size ELSE 0])]
          = [p \in Province |-> SumFunction(Column(Heads, p, P[p]))
                              + SumFunction(Column(Heads, p, Q[p]))]
    BY <1>1
  <1> QED
    BY <1>2, WorldOfBoth, MeasuresAre DEF OverProvinces, SizesOf

\* As People reads them, written out.
Above(g, l, bag) ==
    SumFunction([i \in DOMAIN bag |->
        IF GroupOf[bag[i].culture] = g /\ Level(bag[i]) >= l THEN bag[i].size ELSE 0])

LEMMA RaisedSum ==
    ASSUME NEW P \in Bags, NEW Q \in Bags, NEW g, NEW l
    PROVE  SumFunction([p \in Province |-> Above(g, l, P[p]) + Above(g, l, Q[p])])
             = World(Raised(g, l), P) + World(Raised(g, l), Q)
  <1> DEFINE w == Raised(g, l)
  <1>1. \A p \in Province : /\ Above(g, l, P[p]) = SumFunction(Column(w, p, P[p]))
                            /\ Above(g, l, Q[p]) = SumFunction(Column(w, p, Q[p]))
    <2>1. ASSUME NEW p \in Province, NEW bag \in Seq(Rec)
          PROVE  Above(g, l, bag) = SumFunction(Column(w, p, bag))
      <3>1. \A i \in DOMAIN bag : bag[i] \in Rec
        OBVIOUS
      <3>2. Column(w, p, bag) =
              [i \in DOMAIN bag |->
                  IF GroupOf[bag[i].culture] = g /\ Level(bag[i]) >= l THEN bag[i].size ELSE 0]
        BY <3>1 DEF Column, Raised
      <3> QED
        BY <3>2 DEF Above
    <2> QED
      BY <2>1 DEF Bags
  <1>2. [p \in Province |-> Above(g, l, P[p]) + Above(g, l, Q[p])]
          = [p \in Province |-> SumFunction(Column(w, p, P[p]))
                              + SumFunction(Column(w, p, Q[p]))]
    BY <1>1
  <1> QED
    BY <1>2, WorldOfBoth, MeasuresAre

LEMMA WaySum ==
    ASSUME NEW Q \in Bags, NEW b
    PROVE  OverProvinces(LAMBDA q : SizesOf(Q[q], LAMBDA s : Abroad(s.region, q) = b))
             = World(Way(b), Q)
  <1>1. \A q \in Province :
          Column(Way(b), q, Q[q]) =
            [i \in DOMAIN Q[q] |-> IF Abroad(Q[q][i].region, q) = b THEN Q[q][i].size ELSE 0]
    BY DEF Bags, Column, Way
  <1> QED
    BY <1>1 DEF OverProvinces, SizesOf, World, Rows

-------------------------------------------------------------------------------
(* The searches. *)

\* The slot that is used again is one of the vector, and is empty.
LEMMA FreeSlotIsEmpty ==
    ASSUME NEW v \in Seq(Slot)
    PROVE  FreeSlot(v) = 0 \/ (FreeSlot(v) \in 1 .. Len(v) /\ v[FreeSlot(v)].size = 0)
  <1> DEFINE I == {i \in 1 .. Len(v) : v[i].size = 0}
  <1>1. FreeSlot(v) = IF I # {} THEN Min(I) ELSE 0
    BY DEF FreeSlot, SelectInSeq
  <1>2. I # {} => Min(I) \in I
    BY MinIsFirst, Len(v) \in Nat
  <1> QED
    BY <1>1, <1>2

\* The POP that takes people in is one of the province, of their culture group, and
\* of no higher level.
LEMMA DestinationSuits ==
    ASSUME NEW p \in Province, pops[p] \in Seq(Pop), NEW slot \in Slot
    PROVE  LET d == SelectDestination(p, slot)
           IN  \/ d = 0
               \/ /\ d \in 1 .. Len(pops[p])
                  /\ GroupOf[pops[p][d].culture] = GroupOf[slot.culture]
                  /\ Level(pops[p][d]) <= Level(slot)
  <1> DEFINE Searched(c) == TypeOf[c.type].index = TypeOf[slot.type].index /\ Fits(c)
             E == {i \in 1 .. Len(pops[p]) : Searched(pops[p][i]) /\ Exact(pops[p][i], slot)}
             S == {i \in 1 .. Len(pops[p]) : Searched(pops[p][i]) /\ SameLevel(pops[p][i], slot)}
             G == {i \in 1 .. Len(pops[p]) : Searched(pops[p][i]) /\ SameGroup(pops[p][i], slot)}
             L == {i \in 1 .. Len(pops[p]) : Searched(pops[p][i]) /\ Lower(pops[p][i], slot)}
  <1>1. /\ First(p, slot, Exact)     = IF E # {} THEN Min(E) ELSE 0
        /\ First(p, slot, SameLevel) = IF S # {} THEN Min(S) ELSE 0
        /\ First(p, slot, SameGroup) = IF G # {} THEN Min(G) ELSE 0
        /\ First(p, slot, Lower)     = IF L # {} THEN Min(L) ELSE 0
    BY DEF First, SelectInSeq
  <1>2. /\ E # {} => Min(E) \in E
        /\ S # {} => Min(S) \in S
        /\ G # {} => Min(G) \in G
        /\ L # {} => Min(L) \in L
    <2>1. Len(pops[p]) \in Nat
      OBVIOUS
    <2>2. /\ E \subseteq 1 .. Len(pops[p]) /\ S \subseteq 1 .. Len(pops[p])
          /\ G \subseteq 1 .. Len(pops[p]) /\ L \subseteq 1 .. Len(pops[p])
      OBVIOUS
    <2> HIDE DEF E, S, G, L
    <2> QED
      BY <2>1, <2>2, MinIsFirst
  <1>3. \A i \in 1 .. Len(pops[p]) : Level(pops[p][i]) \in Int
    <2>0. \A i \in 1 .. Len(pops[p]) : pops[p][i] \in Pop
      OBVIOUS
    <2>1. \A i \in 1 .. Len(pops[p]) : pops[p][i].type \in Type
      BY <2>0 DEF Pop
    <2>2. \A t \in Type : TypeOf[t].level \in Int
      BY MigrationAssumption
    <2> QED
      BY <2>1, <2>2 DEF Level
  <1>4. Level(slot) \in Int
    BY MigrationAssumption DEF Level, Slot
  <1>5. \A i \in E \cup S \cup G \cup L :
          /\ i \in 1 .. Len(pops[p])
          /\ GroupOf[pops[p][i].culture] = GroupOf[slot.culture]
          /\ Level(pops[p][i]) <= Level(slot)
    BY <1>3, <1>4 DEF Exact, SameLevel, SameGroup, Lower, Level
  <1>6. \/ SelectDestination(p, slot) = 0
        \/ SelectDestination(p, slot) \in E \cup S \cup G \cup L
    <2> HIDE DEF E, S, G, L
    <2> QED
      BY <1>1, <1>2 DEF SelectDestination
  <1> HIDE DEF E, S, G, L
  <1> QED
    BY <1>5, <1>6

\* A POP that is founded is of no higher level than its people were.
LEMMA FoundedNoHigher ==
    ASSUME NEW slot \in Slot
    PROVE  /\ SelectFactoryType(slot) \in Type
           /\ TypeOf[SelectFactoryType(slot)].level <= Level(slot)
  <1> DEFINE below == {i \in DOMAIN Catalogue :
                          LET t == TypeOf[Catalogue[i]]
                          IN  t.real /\ ~t.barred /\ t.level < Level(slot)}
  <1>1. Catalogue \in Seq(Type) /\ TypeOf[slot.type].level \in Int /\ slot.type \in Type
    BY MigrationAssumption DEF Slot
  <1>2. below \subseteq 1 .. Len(Catalogue) /\ Len(Catalogue) \in Nat
    BY <1>1
  <1>3. below # {} => Max(below) \in below
    <2> HIDE DEF below
    <2> QED
      BY <1>2, MaxIsLast
  <1>4. \A i \in below : Catalogue[i] \in Type /\ TypeOf[Catalogue[i]].level < Level(slot)
                         /\ TypeOf[Catalogue[i]].level \in Int
    BY <1>1, <1>2, MigrationAssumption
  <1>5. \/ SelectFactoryType(slot) = slot.type
        \/ below # {} /\ SelectFactoryType(slot) = Catalogue[Max(below)]
    BY DEF SelectFactoryType
  <1> HIDE DEF below
  <1> QED
    BY <1>1, <1>3, <1>4, <1>5 DEF Level

-------------------------------------------------------------------------------
(* What an action does to the records. *)

\* Money that is conserved is enough for no two balances to exceed it.
LEMMA BalancesAreBounded ==
    ASSUME TypeOK, MoneyConserved
    PROVE  /\ pops \in Bags /\ pending \in Bags
           /\ World(Money, pops) + World(Money, pending) = Wealth
           /\ World(Money, pops) \in Nat /\ World(Money, pending) \in Nat
           /\ \A p \in Province : \A k \in 1 .. Len(pops[p]) :
                 pops[p][k].balance <= World(Money, pops)
           /\ \A p \in Province : \A k \in 1 .. Len(pending[p]) :
                 pending[p][k].balance <= World(Money, pending)
  <1>1. pops \in Bags /\ pending \in Bags
    BY DEF TypeOK, Bags, Rec
  <1>2. World(Money, pops) + World(Money, pending) = Wealth
    <2>1. OverProvinces(LAMBDA p : Balances(pops[p]) + Balances(pending[p]))
            = World(Money, pops) + World(Money, pending)
      BY <1>1, MoneySum
    <2> QED
      BY <2>1 DEF MoneyConserved
  <1>3. \A p \in Province, x \in Rec : Money[p][x] = x.balance /\ Money[p][x] \in Nat
    BY RecFields DEF Money
  <1>4. /\ World(Money, pops) \in Nat /\ World(Money, pending) \in Nat
        /\ \A p \in Province : \A k \in 1 .. Len(pops[p]) :
              Money[p][pops[p][k]] <= World(Money, pops)
        /\ \A p \in Province : \A k \in 1 .. Len(pending[p]) :
              Money[p][pending[p][k]] <= World(Money, pending)
    BY <1>1, <1>3, MeasuresAre, WorldBounds
  <1>5. /\ \A p \in Province : \A k \in 1 .. Len(pops[p]) : pops[p][k] \in Rec
        /\ \A p \in Province : \A k \in 1 .. Len(pending[p]) : pending[p][k] \in Rec
    BY <1>1 DEF Bags
  <1> QED
    BY <1>1, <1>2, <1>3, <1>4, <1>5

LEMMA WealthFits == Wealth \in Nat /\ Half \in Nat /\ Wealth < Half
  <1>1. /\ Half \in Nat /\ Fixed \in Nat \ {0} /\ Wealth \in Nat /\ Wealth * Fixed < Half
    BY MigrationAssumption
  <1>2. 1 * Wealth <= Fixed * Wealth /\ Fixed * Wealth = Wealth * Fixed
    BY <1>1, ProductIsMonotone
  <1> QED
    BY <1>1, <1>2

\* A transfer into an empty slot.
LEMMA TransferEnds ==
    ASSUME NEW source \in Pop, NEW slot \in Slot, slot.size = 0, NEW request \in Nat,
           source.balance + slot.balance <= Wealth
    PROVE  LET done == Transfer(source, slot, request)
           IN  /\ done.from \in Pop /\ done.to \in Slot /\ done.amount \in Nat
               /\ done.from.size + done.amount = source.size
               /\ done.to.size = done.amount
               /\ done.from.balance + done.to.balance = source.balance + slot.balance
               /\ done.from.type = source.type /\ done.from.culture = source.culture
               /\ done.to.type = slot.type /\ done.to.culture = source.culture
  <1> DEFINE done == Transfer(source, slot, request)
  <1>1. /\ done.from.balance \in 0 .. source.balance
        /\ done.to.balance \in slot.balance .. Wealth
        /\ done.from.balance + done.to.balance = source.balance + slot.balance
    BY TransferKeepsMoney
  <1>2. /\ done.amount \in 0 .. source.size /\ done.from.size + done.amount = source.size
        /\ done.from.size \in Size /\ done.to.size \in Size
        /\ \/ done.to.size = slot.size + done.amount
           \/ done.to.size = MaxSize /\ slot.size + done.amount > MaxSize
    BY TransferMovesWhatItCounts
  <1>3. /\ source.size \in 0 .. MaxSize /\ MaxSize \in Nat
        /\ source.balance \in Nat /\ source.balance < Half /\ slot.balance \in Nat
    BY MigrationAssumption DEF Pop, Slot, Size
  <1>4. /\ done.from = [source EXCEPT !.size = done.from.size, !.balance = done.from.balance]
        /\ done.to = [slot EXCEPT !.culture = source.culture, !.religion = source.religion,
                                  !.size = done.to.size, !.balance = done.to.balance]
    BY DEF Transfer, Initialized, Pop, Slot
  <1> HIDE DEF done
  <1>5. done.to.size = done.amount /\ done.to.size \in Size /\ done.from.size \in Size
        /\ done.amount \in Nat
    BY <1>2, <1>3 DEF Size
  <1>6. /\ done.to.balance \in 0 .. Half - 1 /\ done.from.balance \in 0 .. Half - 1
    BY <1>1, <1>3, WealthFits
  <1>7. done.from \in Pop /\ done.from.type = source.type /\ done.from.culture = source.culture
    BY <1>4, <1>5, <1>6 DEF Pop
  <1>8. done.to \in Slot /\ done.to.type = slot.type /\ done.to.culture = source.culture
    BY <1>4, <1>5, <1>6 DEF Pop, Slot
  <1> QED
    BY <1>1, <1>2, <1>5, <1>7, <1>8 DEF done

\* A record of a bag replaced, and one added to it.
Put(bags, p, k, x) == [bags EXCEPT ![p] = [@ EXCEPT ![k] = x]]
Push(bags, p, x)   == [bags EXCEPT ![p] = Append(@, x)]

\* People set out: what the POP loses the slot gets, which was empty or is new.
Departure(p, k, q, from, to, amount) ==
    /\ pops' = Put(pops, p, k, from)
    /\ from.size + amount = pops[p][k].size /\ to.size = amount
    /\ from.type = pops[p][k].type /\ from.culture = pops[p][k].culture
    /\ to.type = from.type /\ to.culture = from.culture /\ to.region = p
    /\ events' = [events EXCEPT ![Left(p, q)] = @ + amount]
    /\ \/ \E f \in 1 .. Len(pending[q]) :
             /\ pending[q][f].size = 0
             /\ pending' = Put(pending, q, f, to)
             /\ from.balance + to.balance = pops[p][k].balance + pending[q][f].balance
       \/ /\ pending' = Push(pending, q, to)
          /\ from.balance + to.balance = pops[p][k].balance

LEMMA DistributeDeparts ==
    ASSUME TypeOK, MoneyConserved, NEW p \in Province, NEW q \in Province,
           NEW k \in DOMAIN pops[p], NEW n \in Requests, Distribute(p, k, q, n)
    PROVE  \E from \in Pop, to \in Slot, amount \in Nat : Departure(p, k, q, from, to, amount)
  <1> DEFINE source == pops[p][k]
             free   == FreeSlot(pending[q])
             slot   == IF free = 0 THEN NewSlot(source, p)
                       ELSE [pending[q][free] EXCEPT !.type = source.type]
             done   == Transfer(source, slot, n)
             to     == [done.to EXCEPT !.region = p]
  <1>1. /\ pops' = [pops EXCEPT ![p][k] = done.from]
        /\ pending' = [pending EXCEPT ![q] =
                          IF free = 0 THEN Append(@, to) ELSE [@ EXCEPT ![free] = to]]
        /\ events' = [events EXCEPT ![Left(p, q)] = @ + done.amount]
    BY DEF Distribute
  <1>2. /\ pops[p] \in Seq(Pop) /\ pending[q] \in Seq(Slot) /\ source \in Pop
        /\ k \in 1 .. Len(pops[p]) /\ n \in Nat
    <2>1. pops[p] \in Seq(Pop) /\ pending[q] \in Seq(Slot)
      BY DEF TypeOK
    <2>2. k \in 1 .. Len(pops[p]) /\ source \in Pop
      BY <2>1
    <2>3. n \in Nat
      BY MigrationAssumption
    <2> QED
      BY <2>1, <2>2, <2>3
  <1>3. free = 0 \/ (free \in 1 .. Len(pending[q]) /\ pending[q][free].size = 0)
    BY <1>2, FreeSlotIsEmpty
  <1> HIDE DEF source, free
  <1>4. free # 0 => pending[q][free] \in Slot
    BY <1>2, <1>3
  <1>5. /\ slot \in Slot /\ slot.size = 0 /\ slot.type = source.type
        /\ slot.balance = IF free = 0 THEN 0 ELSE pending[q][free].balance
    <2>1. CASE free = 0
      <3>1. 0 \in Size /\ 0 \in 0 .. Half - 1
        BY MigrationAssumption, WealthFits DEF Size
      <3> QED
        BY <1>2, <2>1, <3>1 DEF NewSlot, Slot, Pop
    <2>2. CASE free # 0
      <3>1. slot = [pending[q][free] EXCEPT !.type = source.type]
        BY <2>2
      <3> QED
        BY <1>2, <1>3, <1>4, <2>2, <3>1 DEF Slot, Pop
    <2> QED
      BY <2>1, <2>2
  <1>6. source.balance + slot.balance <= Wealth
    <2>1. /\ World(Money, pops) + World(Money, pending) = Wealth
          /\ World(Money, pops) \in Nat /\ World(Money, pending) \in Nat
          /\ source.balance <= World(Money, pops)
          /\ free # 0 => pending[q][free].balance <= World(Money, pending)
      BY <1>2, <1>3, BalancesAreBounded DEF source
    <2>2. /\ source.balance \in Nat /\ Wealth \in Nat
          /\ free # 0 => pending[q][free].balance \in Nat
      BY <1>2, <1>4, WealthFits DEF Pop, Slot
    <2> QED
      BY <1>5, <2>1, <2>2
  <1> HIDE DEF slot
  <1>7. /\ done.from \in Pop /\ done.to \in Slot /\ done.amount \in Nat
        /\ done.from.size + done.amount = source.size
        /\ done.to.size = done.amount
        /\ done.from.balance + done.to.balance = source.balance + slot.balance
        /\ done.from.type = source.type /\ done.from.culture = source.culture
        /\ done.to.type = slot.type /\ done.to.culture = source.culture
    BY <1>2, <1>5, <1>6, TransferEnds
  <1> HIDE DEF done
  <1>8. /\ to \in Slot /\ to.size = done.to.size /\ to.balance = done.to.balance
        /\ to.type = done.to.type /\ to.culture = done.to.culture /\ to.region = p
    BY <1>7 DEF Slot
  <1> HIDE DEF to
  <1>9. pops' = Put(pops, p, k, done.from)
    BY <1>1 DEF Put
  <1>10. CASE free = 0
    <2>1. pending' = Push(pending, q, to)
      BY <1>1, <1>10 DEF Push
    <2>2. done.from.balance + to.balance = source.balance
      <3>1. source.balance \in Nat
        BY <1>2 DEF Pop
      <3> QED
        BY <1>5, <1>7, <1>8, <1>10, <3>1
    <2>3. Departure(p, k, q, done.from, to, done.amount)
      BY <1>1, <1>5, <1>7, <1>8, <1>9, <2>1, <2>2 DEF Departure, source
    <2> QED
      BY <1>7, <1>8, <2>3
  <1>11. CASE free # 0
    <2>1. pending' = Put(pending, q, free, to)
      BY <1>1, <1>11 DEF Put
    <2>2. done.from.balance + to.balance = source.balance + pending[q][free].balance
      BY <1>5, <1>7, <1>8, <1>11
    <2>3. Departure(p, k, q, done.from, to, done.amount)
      BY <1>1, <1>3, <1>5, <1>7, <1>8, <1>9, <1>11, <2>1, <2>2 DEF Departure, source
    <2> QED
      BY <1>7, <1>8, <2>3
  <1> QED
    BY <1>10, <1>11

\* People arrive: the slot is emptied, and what it held is in one POP of the province,
\* of their culture group and no higher, or in a new one.
Arrival(p, k, x) ==
    /\ pending[p][k].size # 0
    /\ pending' = Put(pending, p, k, [pending[p][k] EXCEPT !.size = 0, !.balance = 0])
    /\ events' = [events EXCEPT ![Arrived(pending[p][k].region, p)] = @ + pending[p][k].size]
    /\ GroupOf[x.culture] = GroupOf[pending[p][k].culture]
    /\ Level(x) <= Level(pending[p][k])
    /\ \/ \E d \in 1 .. Len(pops[p]) :
             /\ pops' = Put(pops, p, d, x)
             /\ x.type = pops[p][d].type /\ x.culture = pops[p][d].culture
             /\ x.balance = pops[p][d].balance + pending[p][k].balance
             /\ x.size = SetSize(pops[p][d].size + pending[p][k].size)
       \/ /\ pops' = Push(pops, p, x)
          /\ x.balance = pending[p][k].balance
          /\ x.size = pending[p][k].size

LEMMA ConsumeArrives ==
    ASSUME TypeOK, MoneyConserved, ConsumeSlot, NEW p, p = Provinces[turn]
    PROVE  /\ p \in Province
           /\ \/ UNCHANGED <<pops, pending, events>>
              \/ /\ next \in 1 .. Len(pending[p])
                 /\ \E x \in Pop : Arrival(p, next, x)
  <1>1. p \in Province
    <2>1. turn \in 1 .. Len(Provinces)
      BY DEF ConsumeSlot, TypeOK
    <2>2. Provinces \in Seq(Province)
      BY MigrationAssumption
    <2> QED
      BY <2>1, <2>2
  <1> DEFINE slot == pending[p][next]
             d    == SelectDestination(p, slot)
  <1>2. /\ next <= Len(pending[p])
        /\ \/ UNCHANGED <<pops, pending, events>>
           \/ /\ ~(slot.size <= 0)
              /\ pops' = IF d = 0 THEN [pops EXCEPT ![p] = Append(@, Factory(slot))]
                          ELSE [pops EXCEPT ![p][d] = Merge(@, slot)]
              /\ pending' = [pending EXCEPT ![p][next].size = 0, ![p][next].balance = 0]
              /\ events' = [events EXCEPT ![Arrived(slot.region, p)] = @ + slot.size]
    BY DEF ConsumeSlot
  <1>3. SUFFICES ASSUME ~(slot.size <= 0),
              pops' = IF d = 0 THEN [pops EXCEPT ![p] = Append(@, Factory(slot))]
                       ELSE [pops EXCEPT ![p][d] = Merge(@, slot)],
              pending' = [pending EXCEPT ![p][next].size = 0, ![p][next].balance = 0],
              events' = [events EXCEPT ![Arrived(slot.region, p)] = @ + slot.size]
        PROVE next \in 1 .. Len(pending[p]) /\ \E x \in Pop : Arrival(p, next, x)
    BY <1>1, <1>2
  <1>4. /\ pops[p] \in Seq(Pop) /\ pending[p] \in Seq(Slot)
        /\ next \in 1 .. Len(pending[p]) /\ slot \in Slot
    <2>1. pops[p] \in Seq(Pop) /\ pending[p] \in Seq(Slot) /\ next \in Nat \ {0}
      BY <1>1 DEF TypeOK
    <2>2. Len(pending[p]) \in Nat
      BY <2>1
    <2>3. next \in 1 .. Len(pending[p])
      BY <1>2, <2>1, <2>2
    <2> QED
      BY <2>1, <2>3
  <1>5. /\ slot.size \in 1 .. MaxSize /\ MaxSize \in Nat /\ slot.balance \in Nat
        /\ slot.balance < Half /\ slot.type \in Type
    <2>1. slot.size \in 0 .. MaxSize /\ slot.balance \in 0 .. Half - 1 /\ slot.type \in Type
      BY <1>4 DEF Slot, Size
    <2>2. MaxSize \in Nat /\ Half \in Nat
      BY MigrationAssumption
    <2> HIDE DEF slot
    <2> QED
      BY <1>3, <2>1, <2>2
  <1>6. pending' = Put(pending, p, next, [slot EXCEPT !.size = 0, !.balance = 0])
    <2> DEFINE bag == pending[p]
    <2>1. pending' = [pending EXCEPT ![p] = [[bag EXCEPT ![next].size = 0] EXCEPT ![next].balance = 0]]
      BY <1>1, <1>3 DEF TypeOK
    <2>2. [[bag EXCEPT ![next].size = 0] EXCEPT ![next].balance = 0]
            = [bag EXCEPT ![next] = [bag[next] EXCEPT !.size = 0, !.balance = 0]]
      BY <1>4
    <2> QED
      BY <2>1, <2>2 DEF Put
  <1>7. /\ pending[p][next].size # 0
        /\ events' = [events EXCEPT ![Arrived(pending[p][next].region, p)] = @ + pending[p][next].size]
    BY <1>3, <1>5
  <1>8. CASE d = 0
    <2> DEFINE x == Factory(slot)
    <2>1. /\ SelectFactoryType(slot) \in Type
          /\ TypeOf[SelectFactoryType(slot)].level <= Level(slot)
      BY <1>4, FoundedNoHigher
    <2>2. /\ x.type = SelectFactoryType(slot) /\ x.culture = slot.culture
          /\ x.size = slot.size /\ x.balance = slot.balance
      BY <1>5 DEF Factory, SetSize, NotBelow0
    <2>3. x \in Pop
      BY <1>4, <1>5, <2>1, <2>2 DEF Factory, SetSize, NotBelow0, Pop, Slot
    <2>4. pops' = Push(pops, p, x)
      BY <1>3, <1>8 DEF Push
    <2>5. GroupOf[x.culture] = GroupOf[slot.culture] /\ Level(x) <= Level(slot)
      BY <2>1, <2>2 DEF Level
    <2> HIDE DEF x
    <2>6. Arrival(p, next, x)
      BY <1>6, <1>7, <2>2, <2>4, <2>5 DEF Arrival
    <2> QED
      BY <1>4, <2>3, <2>6
  <1>9. CASE d # 0
    <2> DEFINE c == pops[p][d]
               x == Merge(c, slot)
    <2>1. /\ d \in 1 .. Len(pops[p]) /\ GroupOf[c.culture] = GroupOf[slot.culture]
          /\ Level(c) <= Level(slot)
      BY <1>1, <1>4, <1>9, DestinationSuits
    <2>2. c \in Pop
      BY <1>4, <2>1
    <2>3. c.balance + slot.balance <= Wealth /\ c.balance \in Nat /\ c.size \in 0 .. MaxSize
      <3>1. /\ World(Money, pops) + World(Money, pending) = Wealth
            /\ World(Money, pops) \in Nat /\ World(Money, pending) \in Nat
            /\ c.balance <= World(Money, pops)
            /\ slot.balance <= World(Money, pending)
        BY <1>1, <1>4, <2>1, BalancesAreBounded
      <3>2. c.balance \in Nat /\ slot.balance \in Nat /\ c.size \in 0 .. MaxSize
        BY <2>2, <1>5 DEF Pop, Size
      <3> HIDE DEF c, slot
      <3> QED
        BY <3>1, <3>2
    <2> HIDE DEF d
    <2>4. /\ x.type = c.type /\ x.culture = c.culture
          /\ x.size = SetSize(c.size + slot.size)
          /\ x.balance = c.balance + slot.balance
      BY <1>4, <2>2, <2>3, DeliveryKeepsMoney DEF Merge, Pop
    <2>5. x \in Pop
      <3>1. SetSize(c.size + slot.size) \in Size
        BY <1>5, <2>3 DEF SetSize, Size
      <3>2. c.balance + slot.balance \in 0 .. Half - 1
        BY <1>5, <2>3, WealthFits
      <3>3. x = [c EXCEPT !.size = x.size, !.balance = x.balance]
        BY <2>2 DEF Merge, Pop
      <3> HIDE DEF x, c
      <3> QED
        BY <2>2, <2>4, <3>1, <3>2, <3>3 DEF Pop
    <2>6. pops' = Put(pops, p, d, x)
      <3>1. pops' = [pops EXCEPT ![p][d] = Merge(@, slot)]
        BY <1>3, <1>9
      <3> QED
        BY <3>1 DEF Put
    <2>7. GroupOf[x.culture] = GroupOf[slot.culture] /\ Level(x) <= Level(slot)
      BY <2>1, <2>4 DEF Level
    <2> HIDE DEF x
    <2>8. Arrival(p, next, x)
      BY <1>6, <1>7, <2>1, <2>4, <2>6, <2>7 DEF Arrival
    <2> QED
      BY <1>4, <2>5, <2>8
  <1> QED
    BY <1>8, <1>9

\* People promoted: two POPs of a province change, of size only, and together hold
\* no more, and less only if the second is full.
Promoted(p, j, k, x, y) ==
    LET mid == Put(pops, p, j, x)
    IN  /\ pops' = Put(mid, p, k, y) /\ j # k
        /\ x = [pops[p][j] EXCEPT !.size = x.size]
        /\ y = [pops[p][k] EXCEPT !.size = y.size]
        /\ x.size + y.size <= pops[p][j].size + pops[p][k].size
        /\ x.size + y.size < pops[p][j].size + pops[p][k].size => y.size = MaxSize

LEMMA PromoteChangesTwo ==
    ASSUME TypeOK, NEW p \in Province, NEW j \in DOMAIN pops[p], NEW k \in DOMAIN pops[p],
           NEW n \in Requests, Promote(p, j, k, n)
    PROVE  \E x, y \in Pop : Promoted(p, j, k, x, y)
  <1> DEFINE a == pops[p][j]
             b == pops[p][k]
             rest == a.size - n
             delta == IF rest < TypeOf[a.type].floor THEN a.size ELSE n
             x == [a EXCEPT !.size = SetSize(@ - delta)]
             y == [b EXCEPT !.size = SetSize(@ + delta)]
  <1>1. pops[p] \in Seq(Pop) /\ j \in 1 .. Len(pops[p]) /\ k \in 1 .. Len(pops[p])
    <2>1. pops[p] \in Seq(Pop)
      BY DEF TypeOK
    <2> QED
      BY <2>1
  <1>2. j # k /\ a \in Pop /\ b \in Pop
    BY <1>1 DEF Promote
  <1>3. pops' = [pops EXCEPT ![p][j].size = SetSize(@ - delta), ![p][k].size = SetSize(@ + delta)]
    BY DEF Promote
  <1>4. a.size \in 0 .. MaxSize /\ b.size \in 0 .. MaxSize /\ MaxSize \in Nat /\ n \in Nat
    BY <1>2, MigrationAssumption DEF Pop, Size
  <1>5. TypeOf[a.type].floor \in Nat
    BY <1>2, MigrationAssumption DEF Pop
  <1>6. delta \in 0 .. a.size
    BY <1>4, <1>5
  <1> HIDE DEF delta
  <1>7. SetSize(a.size - delta) \in Size /\ SetSize(b.size + delta) \in Size
    BY <1>4, <1>6 DEF SetSize, Size
  <1>8. x \in Pop /\ y \in Pop /\ x.size = SetSize(a.size - delta) /\ y.size = SetSize(b.size + delta)
    BY <1>2, <1>7 DEF Pop
  <1>9. /\ x.size + y.size <= a.size + b.size
        /\ x.size + y.size < a.size + b.size => y.size = MaxSize
    <2> HIDE DEF x, y
    <2> QED
      BY <1>4, <1>6, <1>8 DEF SetSize
  <1>10. pops' = Put(Put(pops, p, j, x), p, k, y)
    <2> DEFINE bag == pops[p]
    <2>1. pops' = [pops EXCEPT ![p] = [[bag EXCEPT ![j].size = SetSize(a.size - delta)]
                                          EXCEPT ![k].size = SetSize(b.size + delta)]]
      BY <1>3 DEF TypeOK
    <2>2. [[bag EXCEPT ![j].size = SetSize(a.size - delta)] EXCEPT ![k].size = SetSize(b.size + delta)]
            = [[bag EXCEPT ![j] = x] EXCEPT ![k] = y]
      BY <1>1, <1>2
    <2> HIDE DEF x, y
    <2>3. Put(Put(pops, p, j, x), p, k, y)
            = [pops EXCEPT ![p] = [[bag EXCEPT ![j] = x] EXCEPT ![k] = y]]
      BY DEF Put, TypeOK
    <2> QED
      BY <2>1, <2>2, <2>3
  <1>11. x = [a EXCEPT !.size = x.size] /\ y = [b EXCEPT !.size = y.size]
    BY <1>2, <1>8 DEF Pop
  <1>12. Promoted(p, j, k, x, y)
    <2> HIDE DEF x, y
    <2> QED
      BY <1>2, <1>9, <1>10, <1>11 DEF Promoted
  <1> QED
    BY <1>8, <1>12

-------------------------------------------------------------------------------
(* What an action does to the sums. *)

\* A measure of people: a record without any counts for nothing.
Counts(w) == w \in Measures /\ \A p \in Province, x \in Rec : x.size = 0 => w[p][x] = 0

LEMMA CountsAre ==
    /\ Counts(Heads)
    /\ \A g, l : Counts(Raised(g, l))
    /\ \A b : Counts(Way(b))
  <1>1. /\ \A p \in Province, x \in Rec : x.size = 0 => Heads[p][x] = 0
        /\ \A g, l : \A p \in Province, x \in Rec : x.size = 0 => Raised(g, l)[p][x] = 0
        /\ \A b : \A p \in Province, x \in Rec : x.size = 0 => Way(b)[p][x] = 0
    BY DEF Heads, Raised, Way
  <1> QED
    BY <1>1, MeasuresAre DEF Counts

LEMMA PutSum ==
    ASSUME NEW w \in Measures, NEW old \in Bags, NEW p \in Province,
           NEW k \in 1 .. Len(old[p]), NEW x \in Rec
    PROVE  /\ Put(old, p, k, x) \in Bags
           /\ World(w, old) \in Int /\ w[p][old[p][k]] \in Int /\ w[p][x] \in Int
           /\ World(w, Put(old, p, k, x)) = World(w, old) - w[p][old[p][k]] + w[p][x]
  BY WorldPut DEF Put

LEMMA PushSum ==
    ASSUME NEW w \in Measures, NEW old \in Bags, NEW p \in Province, NEW x \in Rec
    PROVE  /\ Push(old, p, x) \in Bags
           /\ World(w, old) \in Int /\ w[p][x] \in Int
           /\ World(w, Push(old, p, x)) = World(w, old) + w[p][x]
  BY WorldAppend DEF Push

\* The records stay of their types.
LEMMA PutTypes ==
    ASSUME NEW S, NEW old \in [Province -> Seq(S)], NEW p \in Province,
           NEW k \in 1 .. Len(old[p]), NEW x \in S
    PROVE  Put(old, p, k, x) \in [Province -> Seq(S)]
  <1>1. [old[p] EXCEPT ![k] = x] \in Seq(S)
    OBVIOUS
  <1> QED
    BY <1>1 DEF Put

LEMMA PushTypes ==
    ASSUME NEW S, NEW old \in [Province -> Seq(S)], NEW p \in Province, NEW x \in S
    PROVE  Push(old, p, x) \in [Province -> Seq(S)]
  <1>1. Append(old[p], x) \in Seq(S)
    OBVIOUS
  <1> QED
    BY <1>1 DEF Push

LEMMA DepartureSums ==
    ASSUME pops \in Bags, pending \in Bags, NEW p \in Province, NEW q \in Province,
           NEW k \in 1 .. Len(pops[p]), NEW from \in Rec, NEW to \in Rec, NEW amount,
           Departure(p, k, q, from, to, amount)
    PROVE  /\ pops' \in Bags /\ pending' \in Bags
           /\ World(Money, pops') + World(Money, pending')
                = World(Money, pops) + World(Money, pending)
           /\ \A w : Counts(w) =>
                /\ World(w, pops) \in Int /\ World(w, pending) \in Int
                /\ w[p][from] \in Int /\ w[p][pops[p][k]] \in Int /\ w[q][to] \in Int
                /\ World(w, pops') = World(w, pops) - w[p][pops[p][k]] + w[p][from]
                /\ World(w, pending') = World(w, pending) + w[q][to]
  <1>1. pops' = Put(pops, p, k, from)
    BY DEF Departure
  <1>2. /\ pops' \in Bags
        /\ \A w \in Measures :
              /\ World(w, pops) \in Int /\ w[p][pops[p][k]] \in Int /\ w[p][from] \in Int
              /\ World(w, pops') = World(w, pops) - w[p][pops[p][k]] + w[p][from]
    BY <1>1, MeasuresAre, PutSum
  <1>3. /\ Money \in Measures
        /\ \A r \in Province, x \in Rec : Money[r][x] = x.balance
    BY MeasuresAre DEF Money
  <1>4. pops[p][k] \in Rec
    BY DEF Bags
  <1>5. CASE /\ pending' = Push(pending, q, to)
             /\ from.balance + to.balance = pops[p][k].balance
    <2>1. /\ pending' \in Bags
          /\ \A w \in Measures : /\ World(w, pending) \in Int /\ w[q][to] \in Int
                                 /\ World(w, pending') = World(w, pending) + w[q][to]
      BY <1>5, MeasuresAre, PushSum
    <2>2. World(Money, pops') + World(Money, pending') = World(Money, pops) + World(Money, pending)
      <3>1. /\ World(Money, pops) \in Int /\ World(Money, pending) \in Int
            /\ World(Money, pops') = World(Money, pops) - pops[p][k].balance + from.balance
            /\ World(Money, pending') = World(Money, pending) + to.balance
        BY <1>2, <1>3, <1>4, <2>1
      <3>2. pops[p][k].balance \in Int /\ from.balance \in Int /\ to.balance \in Int
        BY <1>4, RecFields
      <3> QED
        BY <1>5, <3>1, <3>2
    <2> QED
      BY <1>2, <2>1, <2>2 DEF Counts
  <1>6. ASSUME NEW f \in 1 .. Len(pending[q]), pending[q][f].size = 0,
               pending' = Put(pending, q, f, to),
               from.balance + to.balance = pops[p][k].balance + pending[q][f].balance
        PROVE  /\ pending' \in Bags
               /\ World(Money, pops') + World(Money, pending')
                    = World(Money, pops) + World(Money, pending)
               /\ \A w : Counts(w) =>
                    /\ World(w, pending) \in Int /\ w[q][to] \in Int
                    /\ World(w, pending') = World(w, pending) + w[q][to]
    <2>1. /\ pending' \in Bags
          /\ \A w \in Measures :
               /\ World(w, pending) \in Int /\ w[q][pending[q][f]] \in Int /\ w[q][to] \in Int
               /\ World(w, pending') = World(w, pending) - w[q][pending[q][f]] + w[q][to]
      BY <1>6, MeasuresAre, PutSum
    <2>2. pending[q][f] \in Rec
      BY DEF Bags
    <2>3. World(Money, pops') + World(Money, pending') = World(Money, pops) + World(Money, pending)
      <3>1. /\ World(Money, pops) \in Int /\ World(Money, pending) \in Int
            /\ World(Money, pops') = World(Money, pops) - pops[p][k].balance + from.balance
            /\ World(Money, pending') = World(Money, pending) - pending[q][f].balance + to.balance
        BY <1>2, <1>3, <1>4, <2>1, <2>2
      <3>2. /\ pops[p][k].balance \in Int /\ from.balance \in Int /\ to.balance \in Int
            /\ pending[q][f].balance \in Int
        BY <1>4, <2>2, RecFields
      <3>3. from.balance + to.balance = pops[p][k].balance + pending[q][f].balance
        BY <1>6
      <3> DEFINE a == from.balance
                 b == to.balance
                 c == pops[p][k].balance
                 d == pending[q][f].balance
      <3>4. a \in Int /\ b \in Int /\ c \in Int /\ d \in Int /\ a + b = c + d
        BY <3>2, <3>3
      <3>5. /\ World(Money, pops') = World(Money, pops) - c + a
            /\ World(Money, pending') = World(Money, pending) - d + b
        BY <3>1
      <3> DEFINE W == World(Money, pops)
                 V == World(Money, pending)
                 X == World(Money, pops')
                 Y == World(Money, pending')
      <3>6. W \in Int /\ V \in Int
        BY <3>1
      <3>7. X = W - c + a /\ Y = V - d + b
        BY <3>5
      <3>8. X + Y = W + V
        <4> HIDE DEF a, b, c, d, W, V, X, Y
        <4> QED
          BY <3>4, <3>6, <3>7
      <3> QED
        BY <3>8
    <2>4. ASSUME NEW w, Counts(w)
          PROVE  /\ World(w, pending) \in Int /\ w[q][to] \in Int
                 /\ World(w, pending') = World(w, pending) + w[q][to]
      <3>1. w[q][pending[q][f]] = 0
        BY <1>6, <2>2, <2>4 DEF Counts
      <3>2. /\ World(w, pending) \in Int /\ w[q][to] \in Int
            /\ World(w, pending') = World(w, pending) - w[q][pending[q][f]] + w[q][to]
        BY <2>1, <2>4 DEF Counts
      <3> QED
        BY <3>1, <3>2
    <2> QED
      BY <2>1, <2>3, <2>4
  <1> QED
    BY <1>2, <1>5, <1>6 DEF Departure, Counts

LEMMA ArrivalSums ==
    ASSUME pops \in Bags, pending \in Bags, NEW p \in Province,
           NEW k \in 1 .. Len(pending[p]), NEW x \in Rec, Arrival(p, k, x),
           [pending[p][k] EXCEPT !.size = 0, !.balance = 0] \in Rec
    PROVE  /\ pops' \in Bags /\ pending' \in Bags
           /\ World(Money, pops') + World(Money, pending')
                = World(Money, pops) + World(Money, pending)
           /\ \A w : Counts(w) =>
                /\ World(w, pops) \in Int /\ World(w, pending) \in Int
                /\ w[p][x] \in Int /\ w[p][pending[p][k]] \in Int
                /\ World(w, pending') = World(w, pending) - w[p][pending[p][k]]
                /\ \/ \E d \in 1 .. Len(pops[p]) :
                         /\ w[p][pops[p][d]] \in Int /\ pops' = Put(pops, p, d, x)
                         /\ x.type = pops[p][d].type /\ x.culture = pops[p][d].culture
                         /\ x.size = SetSize(pops[p][d].size + pending[p][k].size)
                         /\ World(w, pops') = World(w, pops) - w[p][pops[p][d]] + w[p][x]
                   \/ /\ x.size = pending[p][k].size
                      /\ World(w, pops') = World(w, pops) + w[p][x]
  <1> DEFINE slot  == pending[p][k]
             empty == [slot EXCEPT !.size = 0, !.balance = 0]
  <1>1. /\ slot \in Rec /\ empty \in Rec /\ empty.size = 0 /\ empty.balance = 0
    <2>1. slot \in Rec
      BY DEF Bags
    <2> QED
      BY <2>1 DEF Rec, Pop, Slot
  <1>2. pending' = Put(pending, p, k, empty)
    BY DEF Arrival
  <1> HIDE DEF empty
  <1>3. /\ pending' \in Bags
        /\ \A w \in Measures :
             /\ World(w, pending) \in Int /\ w[p][slot] \in Int /\ w[p][empty] \in Int
             /\ World(w, pending') = World(w, pending) - w[p][slot] + w[p][empty]
    BY <1>1, <1>2, MeasuresAre, PutSum
  <1>4. ASSUME NEW w, Counts(w)
        PROVE  /\ World(w, pending) \in Int /\ w[p][slot] \in Int
               /\ World(w, pending') = World(w, pending) - w[p][slot]
    <2>1. w[p][empty] = 0
      BY <1>1, <1>4 DEF Counts
    <2>2. /\ World(w, pending) \in Int /\ w[p][slot] \in Int
          /\ World(w, pending') = World(w, pending) - w[p][slot] + w[p][empty]
      BY <1>3, <1>4 DEF Counts
    <2> QED
      BY <2>1, <2>2
  <1>5. /\ World(Money, pending) \in Int /\ slot.balance \in Int
        /\ World(Money, pending') = World(Money, pending) - slot.balance
    <2>1. Money[p][empty] = 0 /\ Money[p][slot] = slot.balance
      BY <1>1 DEF Money
    <2> QED
      BY <1>1, <1>3, <2>1, MeasuresAre, RecFields
  <1>6. ASSUME NEW d \in 1 .. Len(pops[p]), pops' = Put(pops, p, d, x),
               x.balance = pops[p][d].balance + slot.balance
        PROVE  /\ pops' \in Bags
               /\ World(Money, pops) \in Int
               /\ World(Money, pops') = World(Money, pops) + slot.balance
               /\ \A w \in Measures :
                    /\ World(w, pops) \in Int /\ w[p][pops[p][d]] \in Int /\ w[p][x] \in Int
                    /\ World(w, pops') = World(w, pops) - w[p][pops[p][d]] + w[p][x]
    <2>1. /\ pops' \in Bags
          /\ \A w \in Measures :
                /\ World(w, pops) \in Int /\ w[p][pops[p][d]] \in Int /\ w[p][x] \in Int
                /\ World(w, pops') = World(w, pops) - w[p][pops[p][d]] + w[p][x]
      BY <1>6, MeasuresAre, PutSum
    <2>2. pops[p][d] \in Rec
      BY DEF Bags
    <2>3. Money[p][x] = x.balance /\ Money[p][pops[p][d]] = pops[p][d].balance
          /\ pops[p][d].balance \in Int
      BY <2>2, RecFields DEF Money
    <2>4. /\ World(Money, pops) \in Int
          /\ World(Money, pops') = World(Money, pops) - Money[p][pops[p][d]] + Money[p][x]
      BY <2>1, MeasuresAre
    <2> QED
      BY <1>5, <1>6, <2>1, <2>3, <2>4
  <1>7. ASSUME pops' = Push(pops, p, x), x.balance = slot.balance
        PROVE  /\ pops' \in Bags
               /\ World(Money, pops) \in Int
               /\ World(Money, pops') = World(Money, pops) + slot.balance
               /\ \A w \in Measures :
                    /\ World(w, pops) \in Int /\ w[p][x] \in Int
                    /\ World(w, pops') = World(w, pops) + w[p][x]
    <2>1. /\ pops' \in Bags
          /\ \A w \in Measures :
                /\ World(w, pops) \in Int /\ w[p][x] \in Int
                /\ World(w, pops') = World(w, pops) + w[p][x]
      BY <1>7, MeasuresAre, PushSum
    <2>2. Money[p][x] = x.balance
      BY DEF Money
    <2> QED
      BY <1>7, <2>1, <2>2, MeasuresAre
  <1>8. CASE \E d \in 1 .. Len(pops[p]) :
               /\ pops' = Put(pops, p, d, x)
               /\ x.type = pops[p][d].type /\ x.culture = pops[p][d].culture
               /\ x.balance = pops[p][d].balance + slot.balance
               /\ x.size = SetSize(pops[p][d].size + slot.size)
    <2>1. PICK d \in 1 .. Len(pops[p]) :
               /\ pops' = Put(pops, p, d, x)
               /\ x.type = pops[p][d].type /\ x.culture = pops[p][d].culture
               /\ x.balance = pops[p][d].balance + slot.balance
               /\ x.size = SetSize(pops[p][d].size + slot.size)
      BY <1>8
    <2>2. /\ pops' \in Bags
          /\ World(Money, pops) \in Int
          /\ World(Money, pops') = World(Money, pops) + slot.balance
          /\ \A w \in Measures :
               /\ World(w, pops) \in Int /\ w[p][pops[p][d]] \in Int /\ w[p][x] \in Int
               /\ World(w, pops') = World(w, pops) - w[p][pops[p][d]] + w[p][x]
      BY <1>6, <2>1
    <2>3. World(Money, pops') + World(Money, pending') = World(Money, pops) + World(Money, pending)
      BY <1>5, <2>2
    <2> QED
      BY <1>3, <1>4, <2>1, <2>2, <2>3 DEF Counts
  <1>9. CASE /\ pops' = Push(pops, p, x)
             /\ x.balance = slot.balance /\ x.size = slot.size
    <2>1. /\ pops' \in Bags
          /\ World(Money, pops) \in Int
          /\ World(Money, pops') = World(Money, pops) + slot.balance
          /\ \A w \in Measures : /\ World(w, pops) \in Int /\ w[p][x] \in Int
                                 /\ World(w, pops') = World(w, pops) + w[p][x]
      BY <1>7, <1>9
    <2>2. World(Money, pops') + World(Money, pending') = World(Money, pops) + World(Money, pending)
      BY <1>5, <2>1
    <2> QED
      BY <1>3, <1>4, <1>9, <2>1, <2>2 DEF Counts
  <1> QED
    BY <1>8, <1>9 DEF Arrival

-------------------------------------------------------------------------------
(* The world of people and money. *)

IInv == TypeOK /\ MoneyConserved /\ MovementsBalance

LEMMA InvariantTypes ==
    ASSUME IInv
    PROVE  /\ pops \in Bags /\ pending \in Bags /\ events.movedIn \in Nat
           /\ \A p \in Province : /\ pops[p] \in Seq(Pop) /\ pending[p] \in Seq(Slot)
                                  /\ DOMAIN pops[p] = 1 .. Len(pops[p])
  BY DEF IInv, TypeOK, Bags, Rec

\* The types.
LEMMA DepartureTypes ==
    ASSUME TypeOK, NEW p \in Province, NEW q \in Province, NEW k \in 1 .. Len(pops[p]),
           NEW from \in Pop, NEW to \in Slot, NEW amount \in Nat,
           Departure(p, k, q, from, to, amount)
    PROVE  /\ pops' \in [Province -> Seq(Pop)]
           /\ pending' \in [Province -> Seq(Slot)]
           /\ events' \in [{"emigrated", "movedOut", "immigrated", "movedIn"} -> Nat]
  <1>1. pops' \in [Province -> Seq(Pop)]
    BY PutTypes DEF TypeOK, Departure
  <1>2. pending' \in [Province -> Seq(Slot)]
    <2>1. pending \in [Province -> Seq(Slot)]
      BY DEF TypeOK
    <2>2. CASE pending' = Push(pending, q, to)
      BY <2>1, <2>2, PushTypes
    <2>3. ASSUME NEW f \in 1 .. Len(pending[q]), pending' = Put(pending, q, f, to)
          PROVE  pending' \in [Province -> Seq(Slot)]
      BY <2>1, <2>3, PutTypes
    <2> QED
      BY <2>2, <2>3 DEF Departure
  <1>3. events' \in [{"emigrated", "movedOut", "immigrated", "movedIn"} -> Nat]
    <2>1. Left(p, q) \in {"emigrated", "movedOut"}
      BY DEF Left
    <2> QED
      BY <2>1 DEF TypeOK, Departure
  <1> QED
    BY <1>1, <1>2, <1>3

LEMMA EmptiedIsASlot ==
    ASSUME NEW slot \in Slot
    PROVE  [slot EXCEPT !.size = 0, !.balance = 0] \in Slot
  <1>1. 0 \in Size /\ 0 \in 0 .. Half - 1
    BY MigrationAssumption, WealthFits DEF Size
  <1> QED
    BY <1>1 DEF Slot

LEMMA ArrivalTypes ==
    ASSUME TypeOK, NEW p \in Province, NEW k \in 1 .. Len(pending[p]), NEW x \in Pop,
           Arrival(p, k, x)
    PROVE  /\ pops' \in [Province -> Seq(Pop)]
           /\ pending' \in [Province -> Seq(Slot)]
           /\ events' \in [{"emigrated", "movedOut", "immigrated", "movedIn"} -> Nat]
  <1>1. pops' \in [Province -> Seq(Pop)]
    <2>1. pops \in [Province -> Seq(Pop)]
      BY DEF TypeOK
    <2>2. CASE pops' = Push(pops, p, x)
      BY <2>1, <2>2, PushTypes
    <2>3. ASSUME NEW d \in 1 .. Len(pops[p]), pops' = Put(pops, p, d, x)
          PROVE  pops' \in [Province -> Seq(Pop)]
      BY <2>1, <2>3, PutTypes
    <2> QED
      BY <2>2, <2>3 DEF Arrival
  <1>2. pending[p][k] \in Slot
    BY DEF TypeOK
  <1>3. pending' \in [Province -> Seq(Slot)]
    BY <1>2, EmptiedIsASlot, PutTypes DEF TypeOK, Arrival
  <1>4. pending[p][k].size \in Nat
    BY <1>2, RecFields DEF Rec
  <1>5. events' \in [{"emigrated", "movedOut", "immigrated", "movedIn"} -> Nat]
    BY <1>4 DEF TypeOK, Arrival, Arrived
  <1> QED
    BY <1>1, <1>3, <1>5

\* The turn goes on within the provinces, and the slot is a later one or the first.
LEMMA PhaseTypes ==
    ASSUME TypeOK, NextPhase
    PROVE  TypeOK'
  <1>1. Len(Provinces) \in Nat
    BY MigrationAssumption
  <1>2. turn' \in 0 .. Len(Provinces)
    BY <1>1 DEF TypeOK, NextPhase
  <1> QED
    BY <1>2 DEF TypeOK, NextPhase

\* The money.
LEMMA MoneyIsASum ==
    ASSUME pops \in Bags, pending \in Bags
    PROVE  MoneyConserved <=> World(Money, pops) + World(Money, pending) = Wealth
  <1>1. OverProvinces(LAMBDA p : Balances(pops[p]) + Balances(pending[p]))
            = World(Money, pops) + World(Money, pending)
    BY MoneySum
  <1> QED
    BY <1>1 DEF MoneyConserved

LEMMA MoneyIsASumNext ==
    ASSUME pops' \in Bags, pending' \in Bags
    PROVE  MoneyConserved' <=> World(Money, pops') + World(Money, pending') = Wealth
  <1> DEFINE P == pops'
             Q == pending'
  <1>1. OverProvinces(LAMBDA p : Balances(P[p]) + Balances(Q[p])) = World(Money, P) + World(Money, Q)
    <2>1. P \in Bags /\ Q \in Bags
      OBVIOUS
    <2> HIDE DEF P, Q
    <2> QED
      BY <2>1, MoneySum
  <1> QED
    BY <1>1 DEF MoneyConserved, OverProvinces, Balances

\* The movements.
LEMMA MovementsAreSums ==
    ASSUME pending \in Bags
    PROVE  MovementsBalance <=>
             /\ events.movedOut  = events.movedIn    + World(Way(FALSE), pending)
             /\ events.emigrated = events.immigrated + World(Way(TRUE), pending)
  <1>1. \A b : OverProvinces(LAMBDA q : SizesOf(pending[q], LAMBDA s : Abroad(s.region, q) = b))
                 = World(Way(b), pending)
    BY WaySum
  <1> QED
    BY <1>1 DEF MovementsBalance, OverProvinces, SizesOf

LEMMA MovementsAreSumsNext ==
    ASSUME pending' \in Bags
    PROVE  MovementsBalance' <=>
             /\ events'.movedOut  = events'.movedIn    + World(Way(FALSE), pending')
             /\ events'.emigrated = events'.immigrated + World(Way(TRUE), pending')
  <1> DEFINE Q == pending'
  <1>1. \A b : OverProvinces(LAMBDA q : SizesOf(Q[q], LAMBDA s : Abroad(s.region, q) = b))
                 = World(Way(b), Q)
    <2>1. Q \in Bags
      OBVIOUS
    <2> HIDE DEF Q
    <2> QED
      BY <2>1, WaySum
  <1> QED
    BY <1>1 DEF MovementsBalance, OverProvinces, SizesOf

\* One pair of counters, of the journeys that cross a border or of those that do not.
LEMMA DepartureBalances ==
    ASSUME IInv, NEW p \in Province, NEW q \in Province, NEW k \in 1 .. Len(pops[p]),
           NEW from \in Pop, NEW to \in Slot, NEW amount \in Nat,
           Departure(p, k, q, from, to, amount), pending' \in Bags,
           \A b : World(Way(b), pending) \in Int
                  /\ World(Way(b), pending') = World(Way(b), pending) + Way(b)[q][to]
    PROVE  MovementsBalance'
  <1>1. /\ events.movedOut  = events.movedIn    + World(Way(FALSE), pending)
        /\ events.emigrated = events.immigrated + World(Way(TRUE), pending)
    BY InvariantTypes, MovementsAreSums DEF IInv
  <1>2. /\ events' = [events EXCEPT ![Left(p, q)] = @ + amount]
        /\ events \in [{"emigrated", "movedOut", "immigrated", "movedIn"} -> Nat]
    BY DEF Departure, IInv, TypeOK
  <1>3. \A b : Way(b)[q][to] = IF Abroad(p, q) = b THEN amount ELSE 0
    BY DEF Way, Departure, Rec
  <1>4. /\ World(Way(FALSE), pending') = World(Way(FALSE), pending) + Way(FALSE)[q][to]
        /\ World(Way(TRUE), pending') = World(Way(TRUE), pending) + Way(TRUE)[q][to]
        /\ World(Way(FALSE), pending) \in Int /\ World(Way(TRUE), pending) \in Int
    OBVIOUS
  <1> DEFINE home   == World(Way(FALSE), pending)
             abroad == World(Way(TRUE), pending)
             home2   == World(Way(FALSE), pending')
             abroad2 == World(Way(TRUE), pending')
             homeward == Way(FALSE)[q][to]
             outward  == Way(TRUE)[q][to]
  <1>8. /\ home2 = home + homeward /\ abroad2 = abroad + outward
        /\ home \in Int /\ abroad \in Int
    BY <1>4
  <1>9. events.movedOut = events.movedIn + home /\ events.emigrated = events.immigrated + abroad
    BY <1>1
  <1>5. CASE Abroad(p, q)
    <2>1. Left(p, q) = "emigrated" /\ homeward = 0 /\ outward = amount
      BY <1>3, <1>5 DEF Left, Abroad
    <2>2. home2 = home /\ abroad2 = abroad + amount
      <3> HIDE DEF home, abroad, home2, abroad2, homeward, outward
      <3> QED
        BY <1>8, <2>1
    <2>3. /\ events'.movedOut = events.movedOut /\ events'.movedIn = events.movedIn
          /\ events'.immigrated = events.immigrated
          /\ events'.emigrated = events.emigrated + amount
      BY <1>2, <2>1
    <2>4. events.immigrated \in Nat /\ abroad \in Int
      BY <1>2, <1>8
    <2>5. events'.movedOut = events'.movedIn + home2 /\ events'.emigrated = events'.immigrated + abroad2
      <3> HIDE DEF home, abroad, home2, abroad2
      <3> QED
        BY <2>2, <2>3, <2>4, <1>9
    <2> QED
      BY <2>5, MovementsAreSumsNext
  <1>6. CASE ~Abroad(p, q)
    <2>1. Left(p, q) = "movedOut" /\ homeward = amount /\ outward = 0
      BY <1>3, <1>6 DEF Left, Abroad
    <2>2. home2 = home + amount /\ abroad2 = abroad
      <3> HIDE DEF home, abroad, home2, abroad2, homeward, outward
      <3> QED
        BY <1>8, <2>1
    <2>3. /\ events'.emigrated = events.emigrated /\ events'.movedIn = events.movedIn
          /\ events'.immigrated = events.immigrated
          /\ events'.movedOut = events.movedOut + amount
      BY <1>2, <2>1
    <2>4. events.movedIn \in Nat /\ home \in Int
      BY <1>2, <1>8
    <2>5. events'.movedOut = events'.movedIn + home2 /\ events'.emigrated = events'.immigrated + abroad2
      <3> HIDE DEF home, abroad, home2, abroad2
      <3> QED
        BY <2>2, <2>3, <2>4, <1>9
    <2> QED
      BY <2>5, MovementsAreSumsNext
  <1> QED
    BY <1>5, <1>6

LEMMA ArrivalBalances ==
    ASSUME IInv, NEW p \in Province, NEW k \in 1 .. Len(pending[p]), NEW x \in Pop,
           Arrival(p, k, x), pending' \in Bags,
           \A b : World(Way(b), pending) \in Int
                  /\ World(Way(b), pending') = World(Way(b), pending) - Way(b)[p][pending[p][k]]
    PROVE  MovementsBalance'
  <1> DEFINE slot == pending[p][k]
             r    == slot.region
             n    == slot.size
  <1>1. /\ events.movedOut  = events.movedIn    + World(Way(FALSE), pending)
        /\ events.emigrated = events.immigrated + World(Way(TRUE), pending)
    BY InvariantTypes, MovementsAreSums DEF IInv
  <1>2. /\ events' = [events EXCEPT ![Arrived(r, p)] = @ + n]
        /\ events \in [{"emigrated", "movedOut", "immigrated", "movedIn"} -> Nat]
    BY DEF Arrival, IInv, TypeOK
  <1>3. slot \in Rec /\ n \in Nat
    <2>1. slot \in Rec
      BY InvariantTypes DEF Bags
    <2> QED
      BY <2>1, RecFields
  <1>4. \A b : Way(b)[p][slot] = IF Abroad(r, p) = b THEN n ELSE 0
    BY <1>3 DEF Way
  <1>5. /\ World(Way(FALSE), pending') = World(Way(FALSE), pending) - Way(FALSE)[p][slot]
        /\ World(Way(TRUE), pending') = World(Way(TRUE), pending) - Way(TRUE)[p][slot]
        /\ World(Way(FALSE), pending) \in Int /\ World(Way(TRUE), pending) \in Int
    OBVIOUS
  <1> DEFINE home   == World(Way(FALSE), pending)
             abroad == World(Way(TRUE), pending)
             home2   == World(Way(FALSE), pending')
             abroad2 == World(Way(TRUE), pending')
             homeward == Way(FALSE)[p][slot]
             outward  == Way(TRUE)[p][slot]
  <1>8. /\ home2 = home - homeward /\ abroad2 = abroad - outward
        /\ home \in Int /\ abroad \in Int
    BY <1>5
  <1>9. events.movedOut = events.movedIn + home /\ events.emigrated = events.immigrated + abroad
    BY <1>1
  <1> HIDE DEF slot, r, n
  <1>6. CASE Abroad(r, p)
    <2>1. Arrived(r, p) = "immigrated" /\ homeward = 0 /\ outward = n
      BY <1>4, <1>6 DEF Arrived, Abroad
    <2>2. home2 = home /\ abroad2 = abroad - n
      <3> HIDE DEF home, abroad, home2, abroad2, homeward, outward
      <3> QED
        BY <1>8, <2>1
    <2>3. /\ events'.movedOut = events.movedOut /\ events'.movedIn = events.movedIn
          /\ events'.emigrated = events.emigrated
          /\ events'.immigrated = events.immigrated + n
      BY <1>2, <2>1
    <2>4. events.immigrated \in Nat /\ abroad \in Int
      BY <1>2, <1>8
    <2>5. events'.movedOut = events'.movedIn + home2 /\ events'.emigrated = events'.immigrated + abroad2
      <3> HIDE DEF home, abroad, home2, abroad2
      <3> QED
        BY <1>3, <2>2, <2>3, <2>4, <1>9
    <2> QED
      BY <2>5, MovementsAreSumsNext
  <1>7. CASE ~Abroad(r, p)
    <2>1. Arrived(r, p) = "movedIn" /\ homeward = n /\ outward = 0
      BY <1>4, <1>7 DEF Arrived, Abroad
    <2>2. home2 = home - n /\ abroad2 = abroad
      <3> HIDE DEF home, abroad, home2, abroad2, homeward, outward
      <3> QED
        BY <1>8, <2>1
    <2>3. /\ events'.movedOut = events.movedOut /\ events'.emigrated = events.emigrated
          /\ events'.immigrated = events.immigrated
          /\ events'.movedIn = events.movedIn + n
      BY <1>2, <2>1
    <2>4. events.movedIn \in Nat /\ home \in Int
      BY <1>2, <1>8
    <2>5. events'.movedOut = events'.movedIn + home2 /\ events'.emigrated = events'.immigrated + abroad2
      <3> HIDE DEF home, abroad, home2, abroad2
      <3> QED
        BY <1>3, <2>2, <2>3, <2>4, <1>9
    <2> QED
      BY <2>5, MovementsAreSumsNext
  <1> QED
    BY <1>6, <1>7

-------------------------------------------------------------------------------
(* The steps. *)

\* Every step is people setting out, people promoted, people arriving, or leaves the
\* POPs, the slots and the counters alone.
Outcome ==
    \/ \E p, q \in Province : \E k \in 1 .. Len(pops[p]), from \in Pop, to \in Slot, amount \in Nat :
          Departure(p, k, q, from, to, amount)
    \/ \E p \in Province : \E j, k \in 1 .. Len(pops[p]), x, y \in Pop :
          Promoted(p, j, k, x, y) /\ UNCHANGED <<pending, events, turn>> /\ turn = 0
    \/ \E p \in Province : \E k \in 1 .. Len(pending[p]), x \in Pop : Arrival(p, k, x)
    \/ UNCHANGED <<pops, pending, events>>

LEMMA StepsAreOutcomes ==
    ASSUME IInv, [Next]_vars
    PROVE  Outcome
  <1> USE DEF IInv
  <1>1. ASSUME NEW p \in Province, NEW q \in Province, NEW k \in DOMAIN pops[p], NEW n \in Requests,
               Distribute(p, k, q, n)
        PROVE  Outcome
    <2>1. k \in 1 .. Len(pops[p])
      BY InvariantTypes
    <2> QED
      BY <1>1, <2>1, DistributeDeparts DEF Outcome
  <1>2. ASSUME NEW p \in Province, NEW j \in DOMAIN pops[p], NEW k \in DOMAIN pops[p], NEW n \in Requests,
               Promote(p, j, k, n)
        PROVE  Outcome
    <2>1. j \in 1 .. Len(pops[p]) /\ k \in 1 .. Len(pops[p])
      BY InvariantTypes
    <2>2. UNCHANGED <<pending, events, turn>> /\ turn = 0
      BY <1>2 DEF Promote
    <2> QED
      BY <1>2, <2>1, <2>2, PromoteChangesTwo DEF Outcome
  <1>3. CASE ConsumeSlot
    <2> DEFINE p == Provinces[turn]
    <2>1. /\ p \in Province
          /\ \/ UNCHANGED <<pops, pending, events>>
             \/ next \in 1 .. Len(pending[p]) /\ \E x \in Pop : Arrival(p, next, x)
      <3> HIDE DEF p
      <3>1. p = Provinces[turn]
        BY DEF p
      <3> QED
        BY <1>3, <3>1, ConsumeArrives
    <2> HIDE DEF p
    <2> QED
      BY <2>1 DEF Outcome
  <1>4. CASE NextPhase
    BY <1>4 DEF NextPhase, Outcome
  <1>5. CASE UNCHANGED vars
    BY <1>5 DEF vars, Outcome
  <1> QED
    BY <1>1, <1>2, <1>3, <1>4, <1>5 DEF Next

\* Two POPs of a province change.
LEMMA PromotedSums ==
    ASSUME IInv, NEW p \in Province, NEW j \in 1 .. Len(pops[p]), NEW k \in 1 .. Len(pops[p]),
           NEW x \in Pop, NEW y \in Pop, Promoted(p, j, k, x, y)
    PROVE  /\ pops' \in [Province -> Seq(Pop)]
           /\ k \in DOMAIN pops'[p] /\ pops'[p][k] = y
           /\ \A w \in Measures :
                /\ World(w, pops) \in Int
                /\ w[p][pops[p][j]] \in Int /\ w[p][pops[p][k]] \in Int
                /\ w[p][x] \in Int /\ w[p][y] \in Int
                /\ World(w, pops') = World(w, pops) - w[p][pops[p][j]] + w[p][x]
                                                    - w[p][pops[p][k]] + w[p][y]
  <1> DEFINE mid == Put(pops, p, j, x)
  <1>1. pops \in [Province -> Seq(Pop)] /\ pops \in Bags
    BY InvariantTypes DEF IInv, TypeOK
  <1>2. pops' = Put(mid, p, k, y) /\ j # k
    BY DEF Promoted
  <1>3. mid \in [Province -> Seq(Pop)]
    BY <1>1, PutTypes
  <1>4. /\ Len(mid[p]) = Len(pops[p]) /\ mid[p][k] = pops[p][k]
    BY <1>1, <1>2 DEF Put
  <1>5. x \in Rec /\ y \in Rec
    BY DEF Rec
  <1>6. ASSUME NEW w \in Measures
        PROVE  /\ mid \in Bags
               /\ World(w, pops) \in Int /\ w[p][pops[p][j]] \in Int /\ w[p][x] \in Int
               /\ World(w, mid) = World(w, pops) - w[p][pops[p][j]] + w[p][x]
    BY <1>1, <1>5, PutSum
  <1> HIDE DEF mid
  <1>7. ASSUME NEW w \in Measures
        PROVE  /\ World(w, mid) \in Int /\ w[p][mid[p][k]] \in Int /\ w[p][y] \in Int
               /\ World(w, pops') = World(w, mid) - w[p][mid[p][k]] + w[p][y]
    BY <1>2, <1>4, <1>5, <1>6, PutSum
  <1>8. pops' \in [Province -> Seq(Pop)]
    BY <1>2, <1>3, <1>4, PutTypes
  <1>9. k \in DOMAIN pops'[p] /\ pops'[p][k] = y
    BY <1>2, <1>3, <1>4 DEF Put
  <1>10. ASSUME NEW w \in Measures
         PROVE  /\ World(w, pops) \in Int
                /\ w[p][pops[p][j]] \in Int /\ w[p][pops[p][k]] \in Int
                /\ w[p][x] \in Int /\ w[p][y] \in Int
                /\ World(w, pops') = World(w, pops) - w[p][pops[p][j]] + w[p][x]
                                                    - w[p][pops[p][k]] + w[p][y]
    <2> DEFINE A == World(w, pops)
               M == World(w, mid)
               Z == World(w, pops')
               a == w[p][pops[p][j]]
               b == w[p][pops[p][k]]
               c == w[p][x]
               d == w[p][y]
    <2>1. A \in Int /\ a \in Int /\ c \in Int /\ M = A - a + c
      BY <1>6
    <2>2. M \in Int /\ b \in Int /\ d \in Int /\ Z = M - b + d
      BY <1>4, <1>7
    <2>3. Z = A - a + c - b + d
      <3> HIDE DEF A, M, Z, a, b, c, d
      <3> QED
        BY <2>1, <2>2
    <2> QED
      BY <2>1, <2>2, <2>3
  <1> QED
    BY <1>8, <1>9, <1>10

LEMMA OutcomeKeepsTypes ==
    ASSUME IInv, Outcome
    PROVE  /\ pops' \in [Province -> Seq(Pop)]
           /\ pending' \in [Province -> Seq(Slot)]
           /\ events' \in [{"emigrated", "movedOut", "immigrated", "movedIn"} -> Nat]
           /\ pops' \in Bags /\ pending' \in Bags
  <1> USE DEF IInv
  <1>1. /\ pops' \in [Province -> Seq(Pop)]
        /\ pending' \in [Province -> Seq(Slot)]
        /\ events' \in [{"emigrated", "movedOut", "immigrated", "movedIn"} -> Nat]
    <2>1. ASSUME NEW p \in Province, NEW q \in Province, NEW k \in 1 .. Len(pops[p]),
                 NEW from \in Pop, NEW to \in Slot, NEW amount \in Nat,
                 Departure(p, k, q, from, to, amount)
          PROVE  <1>1!1 /\ <1>1!2 /\ <1>1!3
      BY <2>1, DepartureTypes
    <2>2. ASSUME NEW p \in Province, NEW j \in 1 .. Len(pops[p]), NEW k \in 1 .. Len(pops[p]),
                 NEW x \in Pop, NEW y \in Pop, Promoted(p, j, k, x, y),
                 UNCHANGED <<pending, events>>
          PROVE  <1>1!1 /\ <1>1!2 /\ <1>1!3
      BY <2>2, PromotedSums DEF TypeOK
    <2>3. ASSUME NEW p \in Province, NEW k \in 1 .. Len(pending[p]), NEW x \in Pop, Arrival(p, k, x)
          PROVE  <1>1!1 /\ <1>1!2 /\ <1>1!3
      BY <2>3, ArrivalTypes
    <2>4. CASE UNCHANGED <<pops, pending, events>>
      BY <2>4 DEF TypeOK
    <2> QED
      BY <2>1, <2>2, <2>3, <2>4 DEF Outcome
  <1> QED
    BY <1>1 DEF Bags, Rec

LEMMA OutcomeKeepsBalances ==
    ASSUME IInv, Outcome
    PROVE  MoneyConserved' /\ MovementsBalance'
  <1>1. /\ pops \in Bags /\ pending \in Bags /\ pops' \in Bags /\ pending' \in Bags
    BY InvariantTypes, OutcomeKeepsTypes
  <1>2. World(Money, pops) + World(Money, pending) = Wealth
    BY <1>1, MoneyIsASum DEF IInv
  <1>3. SUFFICES /\ World(Money, pops') + World(Money, pending') =
                      World(Money, pops) + World(Money, pending)
                 /\ MovementsBalance'
    BY <1>1, <1>2, MoneyIsASumNext
  <1>4. \A b : Counts(Way(b))
    BY CountsAre
  <1>5. ASSUME NEW p \in Province, NEW q \in Province, NEW k \in 1 .. Len(pops[p]),
               NEW from \in Pop, NEW to \in Slot, NEW amount \in Nat,
               Departure(p, k, q, from, to, amount)
        PROVE  /\ World(Money, pops') + World(Money, pending') =
                    World(Money, pops) + World(Money, pending)
               /\ MovementsBalance'
    <2>1. from \in Rec /\ to \in Rec
      BY DEF Rec
    <2>2. /\ World(Money, pops') + World(Money, pending') =
               World(Money, pops) + World(Money, pending)
          /\ \A w : Counts(w) => /\ World(w, pending) \in Int
                                 /\ World(w, pending') = World(w, pending) + w[q][to]
      BY <1>1, <1>5, <2>1, DepartureSums
    <2>3. \A b : /\ World(Way(b), pending) \in Int
                 /\ World(Way(b), pending') = World(Way(b), pending) + Way(b)[q][to]
      BY <1>4, <2>2
    <2> QED
      BY <1>1, <1>5, <2>2, <2>3, DepartureBalances
  <1>6. ASSUME NEW p \in Province, NEW j \in 1 .. Len(pops[p]), NEW k \in 1 .. Len(pops[p]),
               NEW x \in Pop, NEW y \in Pop, Promoted(p, j, k, x, y),
               UNCHANGED <<pending, events>>
        PROVE  /\ World(Money, pops') + World(Money, pending') =
                    World(Money, pops) + World(Money, pending)
               /\ MovementsBalance'
    <2>1. /\ pops[p][j] \in Rec /\ pops[p][k] \in Rec /\ x \in Rec /\ y \in Rec
      BY <1>1 DEF Bags, Rec
    <2>2. x.balance = pops[p][j].balance /\ y.balance = pops[p][k].balance
      BY <1>6, <2>1 DEF Promoted, Rec, Pop, Slot
    <2>3. /\ Money[p][pops[p][j]] = Money[p][x] /\ Money[p][pops[p][k]] = Money[p][y]
      BY <2>1, <2>2 DEF Money
    <2>4. /\ World(Money, pops) \in Int /\ Money[p][x] \in Int /\ Money[p][y] \in Int
          /\ World(Money, pops') = World(Money, pops) - Money[p][pops[p][j]] + Money[p][x]
                                                      - Money[p][pops[p][k]] + Money[p][y]
      BY <1>6, MeasuresAre, PromotedSums
    <2>5. World(Money, pops') = World(Money, pops)
      BY <2>3, <2>4
    <2>6. MovementsBalance'
      BY <1>1, <1>6, MovementsAreSums, MovementsAreSumsNext DEF IInv
    <2> QED
      BY <1>6, <2>5, <2>6
  <1>7. ASSUME NEW p \in Province, NEW k \in 1 .. Len(pending[p]), NEW x \in Pop, Arrival(p, k, x)
        PROVE  /\ World(Money, pops') + World(Money, pending') =
                    World(Money, pops) + World(Money, pending)
               /\ MovementsBalance'
    <2>1. x \in Rec /\ [pending[p][k] EXCEPT !.size = 0, !.balance = 0] \in Rec
      <3>1. pending[p][k] \in Slot
        BY InvariantTypes
      <3> QED
        BY <3>1, EmptiedIsASlot DEF Rec
    <2>2. /\ World(Money, pops') + World(Money, pending') =
               World(Money, pops) + World(Money, pending)
          /\ \A w : Counts(w) =>
               /\ World(w, pending) \in Int
               /\ World(w, pending') = World(w, pending) - w[p][pending[p][k]]
      BY <1>1, <1>7, <2>1, ArrivalSums
    <2>3. \A b : /\ World(Way(b), pending) \in Int
                 /\ World(Way(b), pending') = World(Way(b), pending) - Way(b)[p][pending[p][k]]
      BY <1>4, <2>2
    <2> QED
      BY <1>1, <1>7, <2>2, <2>3, ArrivalBalances
  <1>8. CASE UNCHANGED <<pops, pending, events>>
    <2>1. MovementsBalance'
      BY <1>1, <1>8, MovementsAreSums, MovementsAreSumsNext DEF IInv
    <2> QED
      BY <1>8, <2>1
  <1> QED
    BY <1>5, <1>6, <1>7, <1>8 DEF Outcome

\* Nothing sums up to nothing.
LEMMA WorldOfNone ==
    ASSUME NEW w \in Measures
    PROVE  World(w, [p \in Province |-> <<>>]) = 0
  <1> DEFINE none == [p \in Province |-> <<>>]
             f    == Rows(w, none)
  <1>1. \A p \in Province : f[p] = 0
    <2>1. \A p \in Province : none[p] = <<>> /\ none[p] \in Seq(Rec)
      OBVIOUS
    <2> HIDE DEF none
    <2>2. \A p \in Province : SumFunction(Column(w, p, none[p])) = 0
      BY <2>1, ColumnFacts
    <2> QED
      BY <2>2 DEF Rows
  <1>2. World(w, none) = SumFunctionOnSet(f, Province)
    BY DEF World, Rows, SumFunction
  <1> HIDE DEF f
  <1>3. SumFunctionOnSet(f, Province) = SumFunctionOnSet(f, Province) + SumFunctionOnSet(f, Province)
    BY <1>1, ProvincesAreFinite, SumAdds
  <1>4. SumFunctionOnSet(f, Province) \in Int
    BY <1>1, ProvincesAreFinite, SumType
  <1> QED
    BY <1>2, <1>3, <1>4

LEMMA InitialInvariant ==
    ASSUME Init
    PROVE  IInv
  <1>1. /\ pops \in [Province -> Seq(Pop)]
        /\ OverProvinces(LAMBDA p : Balances(pops[p])) = Wealth
    BY MigrationAssumption DEF Init, OverProvinces, Balances
  <1>2. pending = [p \in Province |-> <<>>]
    BY DEF Init
  <1>3. pops \in Bags /\ pending \in Bags
    BY <1>1, <1>2 DEF Bags, Rec
  <1>4. TypeOK
    <2>1. pending \in [Province -> Seq(Slot)]
      BY <1>2
    <2>2. Len(Provinces) \in Nat /\ MaxMoves \in Nat
      BY MigrationAssumption
    <2>3. 0 \in 0 .. Len(Provinces) /\ 0 \in 0 .. MaxMoves /\ 1 \in Nat \ {0}
      BY <2>2
    <2> QED
      BY <1>1, <2>1, <2>3 DEF TypeOK, Init
  <1>5. World(Money, pops) = Wealth
    <2>1. \A p \in Province : Column(Money, p, pops[p]) = [i \in DOMAIN pops[p] |-> pops[p][i].balance]
      BY <1>3 DEF Bags, Column, Money
    <2> QED
      BY <1>1, <2>1 DEF OverProvinces, Balances, World, Rows
  <1>6. \A w \in Measures : World(w, pending) = 0
    BY <1>2, WorldOfNone
  <1>7. MoneyConserved
    <2>1. World(Money, pops) + World(Money, pending) = Wealth
      BY <1>5, <1>6, MeasuresAre, WealthFits
    <2> QED
      BY <1>3, <2>1, MoneyIsASum
  <1>8. MovementsBalance
    <2>1. World(Way(FALSE), pending) = 0 /\ World(Way(TRUE), pending) = 0
      BY <1>6, MeasuresAre
    <2>2. /\ events.movedOut = 0 /\ events.movedIn = 0
          /\ events.emigrated = 0 /\ events.immigrated = 0
      BY DEF Init
    <2>3. /\ events.movedOut = events.movedIn + World(Way(FALSE), pending)
          /\ events.emigrated = events.immigrated + World(Way(TRUE), pending)
      <3>1. 0 = 0 + 0
        OBVIOUS
      <3> QED
        BY <2>1, <2>2, <3>1, Zenon
    <2> QED
      BY <1>3, <2>3, MovementsAreSums
  <1> QED
    BY <1>4, <1>7, <1>8 DEF IInv

LEMMA InvariantStep ==
    ASSUME IInv, [Next]_vars
    PROVE  IInv'
  <1>1. Outcome
    BY StepsAreOutcomes
  <1>2. /\ pops' \in [Province -> Seq(Pop)]
        /\ pending' \in [Province -> Seq(Slot)]
        /\ events' \in [{"emigrated", "movedOut", "immigrated", "movedIn"} -> Nat]
    BY <1>1, OutcomeKeepsTypes
  <1>3. turn' \in 0 .. Len(Provinces) /\ next' \in Nat \ {0} /\ moves' \in 0 .. MaxMoves
    <2>1. /\ turn \in 0 .. Len(Provinces) /\ next \in Nat \ {0} /\ moves \in 0 .. MaxMoves
          /\ MaxMoves \in Nat
      BY MigrationAssumption DEF IInv, TypeOK
    <2>2. ASSUME NEW p, NEW q, NEW k, NEW n, Distribute(p, k, q, n)
          PROVE  <1>3
      BY <2>1, <2>2 DEF Distribute
    <2>3. ASSUME NEW p, NEW j, NEW k, NEW n, Promote(p, j, k, n)
          PROVE  <1>3
      BY <2>1, <2>3 DEF Promote
    <2>4. CASE ConsumeSlot
      BY <2>1, <2>4 DEF ConsumeSlot
    <2>5. CASE NextPhase
      <3>1. TypeOK'
        BY <2>5, PhaseTypes DEF IInv
      <3> QED
        BY <3>1 DEF TypeOK
    <2>6. CASE UNCHANGED vars
      BY <2>1, <2>6 DEF vars
    <2> QED
      BY <2>2, <2>3, <2>4, <2>5, <2>6 DEF Next
  <1>4. TypeOK'
    BY <1>2, <1>3 DEF TypeOK
  <1> QED
    BY <1>1, <1>4, OutcomeKeepsBalances DEF IInv

\* Every POP and every slot of a vector is one, of a size within the cap and a
\* balance within the word, whatever is put in it, merged and emptied.
THEOREM TypeCorrect == Spec => []TypeOK
  <1>1. Init => IInv
    BY InitialInvariant
  <1>2. IInv /\ [Next]_vars => IInv'
    BY InvariantStep
  <1>3. IInv => TypeOK
    BY DEF IInv
  <1> QED
    BY <1>1, <1>2, <1>3, PTL DEF Spec

\* No transfer, promotion or delivery, in any order, makes or loses money, with the
\* shares rounded and slots used again that hold what a journey left in them.
THEOREM MoneyIsKept == Spec => []MoneyConserved
  <1>1. Init => IInv
    BY InitialInvariant
  <1>2. IInv /\ [Next]_vars => IInv'
    BY InvariantStep
  <1>3. IInv => MoneyConserved
    BY DEF IInv
  <1> QED
    BY <1>1, <1>2, <1>3, PTL DEF Spec

\* The counters of those that left and of those that arrived differ by the people in
\* the slots, at home and abroad.
THEOREM MovementsAreCounted == Spec => []MovementsBalance
  <1>1. Init => IInv
    BY InitialInvariant
  <1>2. IInv /\ [Next]_vars => IInv'
    BY InvariantStep
  <1>3. IInv => MovementsBalance
    BY DEF IInv
  <1> QED
    BY <1>1, <1>2, <1>3, PTL DEF Spec

-------------------------------------------------------------------------------
(* What no step may do. *)

LEMMA PeopleAreHeads ==
    ASSUME pops \in Bags, pending \in Bags
    PROVE  People(LAMBDA x : TRUE) = World(Heads, pops) + World(Heads, pending)
  <1>1. OverProvinces(LAMBDA p : SizesOf(pops[p], LAMBDA x : TRUE)
                                 + SizesOf(pending[p], LAMBDA x : TRUE))
          = World(Heads, pops) + World(Heads, pending)
    BY HeadsSum
  <1> QED
    BY <1>1 DEF People, OverProvinces, SizesOf

LEMMA PeopleAreHeadsNext ==
    ASSUME pops' \in Bags, pending' \in Bags
    PROVE  People(LAMBDA x : TRUE)' = World(Heads, pops') + World(Heads, pending')
  <1> DEFINE P == pops'
             Q == pending'
  <1>1. OverProvinces(LAMBDA p : SizesOf(P[p], LAMBDA x : TRUE) + SizesOf(Q[p], LAMBDA x : TRUE))
          = World(Heads, P) + World(Heads, Q)
    <2>1. P \in Bags /\ Q \in Bags
      OBVIOUS
    <2> HIDE DEF P, Q
    <2> QED
      BY <2>1, HeadsSum
  <1> QED
    BY <1>1 DEF People, OverProvinces, SizesOf

\* The world's heads, before a step and after it.
LEMMA HeadsStep ==
    ASSUME IInv, Outcome
    PROVE  /\ World(Heads, pops) + World(Heads, pending) \in Int
           /\ World(Heads, pops') + World(Heads, pending') \in Int
           /\ World(Heads, pops') + World(Heads, pending')
                <= World(Heads, pops) + World(Heads, pending)
           /\ World(Heads, pops') + World(Heads, pending')
                < World(Heads, pops) + World(Heads, pending) => AtCap'
  <1> DEFINE A == World(Heads, pops)
             B == World(Heads, pending)
             C == World(Heads, pops')
             D == World(Heads, pending')
  <1>1. /\ pops \in Bags /\ pending \in Bags /\ pops' \in Bags /\ pending' \in Bags
        /\ Heads \in Measures /\ Counts(Heads)
    BY InvariantTypes, OutcomeKeepsTypes, MeasuresAre, CountsAre
  <1>2. /\ A \in Int /\ B \in Int /\ C \in Int /\ D \in Int
    <2>1. \A p \in Province, x \in Rec : Heads[p][x] \in Nat
      BY RecFields DEF Heads
    <2>2. A \in Nat /\ B \in Nat /\ C \in Nat /\ D \in Nat
      BY <1>1, <2>1, WorldBounds
    <2> HIDE DEF A, B, C, D
    <2> QED
      BY <2>2
  <1>3. \A p \in Province, x \in Rec : Heads[p][x] = x.size /\ x.size \in 0 .. MaxSize
    BY RecFields DEF Heads
  <1>4. MaxSize \in Nat
    BY MigrationAssumption
  <1>5. ASSUME NEW p \in Province, NEW q \in Province, NEW k \in 1 .. Len(pops[p]),
               NEW from \in Pop, NEW to \in Slot, NEW amount \in Nat,
               Departure(p, k, q, from, to, amount)
        PROVE  C + D = A + B
    <2>1. from \in Rec /\ to \in Rec /\ pops[p][k] \in Rec
      BY <1>1 DEF Rec, Bags
    <2>2. /\ C = A - Heads[p][pops[p][k]] + Heads[p][from]
          /\ D = B + Heads[q][to]
      BY <1>1, <1>5, <2>1, DepartureSums
    <2>3. /\ Heads[p][pops[p][k]] = from.size + amount
          /\ Heads[p][from] = from.size /\ Heads[q][to] = amount /\ from.size \in Int
      BY <1>3, <1>5, <2>1 DEF Departure
    <2> DEFINE n == from.size
    <2>4. C = A - (n + amount) + n /\ D = B + amount /\ n \in Int
      BY <2>2, <2>3
    <2> HIDE DEF A, B, C, D, n
    <2> QED
      BY <1>2, <2>4
  <1>6. ASSUME NEW p \in Province, NEW j \in 1 .. Len(pops[p]), NEW k \in 1 .. Len(pops[p]),
               NEW x \in Pop, NEW y \in Pop, Promoted(p, j, k, x, y),
               UNCHANGED pending
        PROVE  C + D <= A + B /\ (C + D < A + B => AtCap')
    <2> DEFINE a == pops[p][j].size
               b == pops[p][k].size
               c == x.size
               d == y.size
    <2>1. x \in Rec /\ y \in Rec /\ pops[p][j] \in Rec /\ pops[p][k] \in Rec
      BY <1>1 DEF Rec, Bags
    <2>2. C = A - a + c - b + d
      <3>1. C = A - Heads[p][pops[p][j]] + Heads[p][x] - Heads[p][pops[p][k]] + Heads[p][y]
        BY <1>1, <1>6, PromotedSums
      <3>2. /\ Heads[p][pops[p][j]] = a /\ Heads[p][pops[p][k]] = b
            /\ Heads[p][x] = c /\ Heads[p][y] = d
        BY <1>3, <2>1
      <3> HIDE DEF A, C, a, b, c, d
      <3> QED
        BY <3>1, <3>2
    <2>3. /\ a \in Int /\ b \in Int /\ c \in Int /\ d \in Int /\ D = B
          /\ c + d <= a + b /\ (c + d < a + b => y.size = MaxSize)
      BY <1>3, <1>6, <2>1 DEF Promoted
    <2>4. y.size = MaxSize => AtCap'
      BY <1>6, PromotedSums DEF AtCap
    <2> HIDE DEF A, B, C, D, a, b, c, d
    <2> QED
      BY <1>2, <2>2, <2>3, <2>4
  <1>7. ASSUME NEW p \in Province, NEW k \in 1 .. Len(pending[p]), NEW x \in Pop, Arrival(p, k, x)
        PROVE  C + D <= A + B /\ (C + D < A + B => AtCap')
    <2> DEFINE n == pending[p][k].size
               c == x.size
    <2>1. /\ x \in Rec /\ [pending[p][k] EXCEPT !.size = 0, !.balance = 0] \in Rec
          /\ pending[p][k] \in Rec
      <3>1. pending[p][k] \in Slot
        BY InvariantTypes
      <3> QED
        BY <3>1, EmptiedIsASlot DEF Rec
    <2>2. /\ D = B - n /\ n \in 0 .. MaxSize /\ c \in 0 .. MaxSize
      <3>1. D = B - Heads[p][pending[p][k]]
        BY <1>1, <1>7, <2>1, ArrivalSums
      <3>2. Heads[p][pending[p][k]] = n /\ n \in 0 .. MaxSize /\ c \in 0 .. MaxSize
        BY <1>3, <2>1
      <3> QED
        BY <3>1, <3>2
    <2>3. \/ \E d \in 1 .. Len(pops[p]) :
                /\ pops' = Put(pops, p, d, x)
                /\ c = SetSize(pops[p][d].size + n)
                /\ C = A - Heads[p][pops[p][d]] + Heads[p][x]
          \/ c = n /\ C = A + Heads[p][x]
      BY <1>1, <1>7, <2>1, ArrivalSums
    <2>4. Heads[p][x] = c
      BY <1>3, <2>1
    <2>5. CASE c = n /\ C = A + Heads[p][x]
      <3>1. C = A + c
        BY <2>4, <2>5
      <3> HIDE DEF A, B, C, D, n, c
      <3> QED
        BY <1>2, <2>2, <2>5, <3>1
    <2>6. ASSUME NEW d \in 1 .. Len(pops[p]), pops' = Put(pops, p, d, x),
                 c = SetSize(pops[p][d].size + n),
                 C = A - Heads[p][pops[p][d]] + Heads[p][x]
          PROVE  C + D <= A + B /\ (C + D < A + B => AtCap')
      <3> DEFINE m == pops[p][d].size
      <3>1. pops[p][d] \in Rec
        BY <1>1 DEF Bags
      <3>2. C = A - m + c /\ m \in 0 .. MaxSize /\ c = SetSize(m + n)
        BY <1>3, <2>4, <2>6, <3>1
      <3>3. c = MaxSize => AtCap'
        <4>1. d \in DOMAIN pops'[p] /\ pops'[p][d] = x
          BY <1>1, <2>6 DEF Put, Bags
        <4> QED
          BY <4>1 DEF AtCap
      <3> HIDE DEF A, B, C, D, n, c, m
      <3> QED
        BY <1>2, <1>4, <2>2, <3>2, <3>3 DEF SetSize
    <2> QED
      BY <2>3, <2>5, <2>6
  <1>8. CASE UNCHANGED <<pops, pending, events>>
    BY <1>2, <1>8
  <1>9. C + D <= A + B /\ (C + D < A + B => AtCap')
    <2>1. C + D = A + B => C + D <= A + B /\ ~(C + D < A + B)
      <3> HIDE DEF A, B, C, D
      <3> QED
        BY <1>2
    <2>2. UNCHANGED <<pops, pending, events>> => C + D = A + B
      OBVIOUS
    <2> HIDE DEF A, B, C, D
    <2> QED
      BY <2>1, <2>2, <1>5, <1>6, <1>7 DEF Outcome
  <1>10. A + B \in Int /\ C + D \in Int
    <2> HIDE DEF A, B, C, D
    <2> QED
      BY <1>2
  <1> QED
    BY <1>9, <1>10

\* No step makes the population grow, and one that makes it shrink leaves a POP at
\* the cap: a transfer, a promotion with its rest, and a delivery move all they count.
THEOREM PopulationIsKept == Spec => PopulationOnlyLostAtCap
  <1>1. Init => IInv
    BY InitialInvariant
  <1>2. IInv /\ [Next]_vars => IInv'
    BY InvariantStep
  <1>3. IInv /\ [Next]_vars =>
          /\ People(LAMBDA x : TRUE)' <= People(LAMBDA x : TRUE)
          /\ People(LAMBDA x : TRUE)' < People(LAMBDA x : TRUE) => AtCap'
    <2> SUFFICES ASSUME IInv, [Next]_vars
                 PROVE  /\ People(LAMBDA x : TRUE)' <= People(LAMBDA x : TRUE)
                        /\ People(LAMBDA x : TRUE)' < People(LAMBDA x : TRUE) => AtCap'
      OBVIOUS
    <2>1. Outcome
      BY StepsAreOutcomes
    <2>2. People(LAMBDA x : TRUE) = World(Heads, pops) + World(Heads, pending)
      BY InvariantTypes, PeopleAreHeads DEF People, OverProvinces, SizesOf
    <2>3. People(LAMBDA x : TRUE)' = World(Heads, pops') + World(Heads, pending')
      BY <2>1, OutcomeKeepsTypes, PeopleAreHeadsNext DEF People, OverProvinces, SizesOf
    <2>4. /\ World(Heads, pops') + World(Heads, pending')
                <= World(Heads, pops) + World(Heads, pending)
          /\ World(Heads, pops') + World(Heads, pending')
                < World(Heads, pops) + World(Heads, pending) => AtCap'
      BY <2>1, HeadsStep
    <2> QED
      BY <2>2, <2>3, <2>4 DEF People, OverProvinces, SizesOf
  <1> QED
    BY <1>1, <1>2, <1>3, PTL DEF Spec, PopulationOnlyLostAtCap

LEMMA PeopleAreRaised ==
    ASSUME pops \in Bags, pending \in Bags, NEW g, NEW l
    PROVE  LET High(x) == GroupOf[x.culture] = g /\ Level(x) >= l
           IN  People(High) = World(Raised(g, l), pops) + World(Raised(g, l), pending)
  <1>1. SumFunction([p \in Province |-> Above(g, l, pops[p]) + Above(g, l, pending[p])])
          = World(Raised(g, l), pops) + World(Raised(g, l), pending)
    BY RaisedSum
  <1> QED
    BY <1>1 DEF People, OverProvinces, SizesOf, Above

LEMMA PeopleAreRaisedNext ==
    ASSUME pops' \in Bags, pending' \in Bags, NEW g, NEW l
    PROVE  LET High(x) == GroupOf[x.culture] = g /\ Level(x) >= l
           IN  People(High)' = World(Raised(g, l), pops') + World(Raised(g, l), pending')
  <1>1. SumFunction([p \in Province |-> Above(g, l, pops'[p]) + Above(g, l, pending'[p])])
          = World(Raised(g, l), pops') + World(Raised(g, l), pending')
    BY RaisedSum
  <1> QED
    BY <1>1 DEF People, OverProvinces, SizesOf, Above

\* Those of a group at a level or above it, before a step that is no promotion and
\* after it.
LEMMA RaisedStep ==
    ASSUME IInv, Outcome, turn # 0 \/ pending' # pending, NEW g, NEW l \in Int
    PROVE  World(Raised(g, l), pops') + World(Raised(g, l), pending')
             <= World(Raised(g, l), pops) + World(Raised(g, l), pending)
  <1> DEFINE w == Raised(g, l)
             A == World(w, pops)
             B == World(w, pending)
             C == World(w, pops')
             D == World(w, pending')
  <1>1. /\ pops \in Bags /\ pending \in Bags /\ pops' \in Bags /\ pending' \in Bags
        /\ w \in Measures /\ Counts(w)
    BY InvariantTypes, OutcomeKeepsTypes, MeasuresAre, CountsAre
  <1>2. \A p \in Province, x \in Rec :
          /\ w[p][x] = IF GroupOf[x.culture] = g /\ Level(x) >= l THEN x.size ELSE 0
          /\ x.size \in 0 .. MaxSize /\ Level(x) \in Int
    <2>1. \A x \in Rec : Level(x) \in Int
      BY MigrationAssumption DEF Level, Rec, Pop, Slot
    <2> QED
      BY <2>1, RecFields DEF Raised
  <1>3. MaxSize \in Nat
    BY MigrationAssumption
  <1> HIDE DEF w
  <1>4. /\ A \in Int /\ B \in Int /\ C \in Int /\ D \in Int
    <2>1. \A p \in Province, x \in Rec : w[p][x] \in Nat
      BY <1>2, <1>3
    <2>2. A \in Nat /\ B \in Nat /\ C \in Nat /\ D \in Nat
      BY <1>1, <2>1, WorldBounds
    <2> HIDE DEF A, B, C, D
    <2> QED
      BY <2>2
  <1>5. ASSUME NEW p \in Province, NEW q \in Province, NEW k \in 1 .. Len(pops[p]),
               NEW from \in Pop, NEW to \in Slot, NEW amount \in Nat,
               Departure(p, k, q, from, to, amount)
        PROVE  C + D <= A + B
    <2> DEFINE source == pops[p][k]
               a == w[p][source]
               b == w[p][from]
               c == w[q][to]
    <2>1. from \in Rec /\ to \in Rec /\ source \in Rec
      BY <1>1 DEF Rec, Bags
    <2>2. C = A - a + b /\ D = B + c
      BY <1>1, <1>5, <2>1, DepartureSums
    <2>3. /\ from.type = source.type /\ from.culture = source.culture
          /\ to.type = source.type /\ to.culture = source.culture
          /\ from.size + to.size = source.size
      BY <1>5 DEF Departure
    <2>4. a \in Int /\ b \in Int /\ c \in Int /\ a = b + c
      <3>1. Level(from) = Level(source) /\ Level(to) = Level(source)
        BY <2>3 DEF Level
      <3>2. /\ a = IF GroupOf[source.culture] = g /\ Level(source) >= l THEN source.size ELSE 0
            /\ b = IF GroupOf[from.culture] = g /\ Level(from) >= l THEN from.size ELSE 0
            /\ c = IF GroupOf[to.culture] = g /\ Level(to) >= l THEN to.size ELSE 0
            /\ source.size \in Int /\ from.size \in Int /\ to.size \in Int
        BY <1>2, <2>1
      <3> HIDE DEF source, a, b, c
      <3> QED
        BY <2>3, <3>1, <3>2
    <2> HIDE DEF A, B, C, D, a, b, c
    <2> QED
      BY <1>4, <2>2, <2>4
  <1>6. ASSUME NEW p \in Province, NEW k \in 1 .. Len(pending[p]), NEW x \in Pop, Arrival(p, k, x)
        PROVE  C + D <= A + B
    <2> DEFINE slot == pending[p][k]
               a == w[p][slot]
               b == w[p][x]
    <2>1. /\ x \in Rec /\ [slot EXCEPT !.size = 0, !.balance = 0] \in Rec
          /\ slot \in Rec
      <3>1. slot \in Slot
        BY InvariantTypes
      <3> QED
        BY <3>1, EmptiedIsASlot DEF Rec
    <2>2. D = B - a
      BY <1>1, <1>6, <2>1, ArrivalSums
    <2>3. \/ \E d \in 1 .. Len(pops[p]) :
                /\ x.type = pops[p][d].type /\ x.culture = pops[p][d].culture
                /\ x.size = SetSize(pops[p][d].size + slot.size)
                /\ C = A - w[p][pops[p][d]] + w[p][x]
          \/ x.size = slot.size /\ C = A + w[p][x]
      BY <1>1, <1>6, <2>1, ArrivalSums
    <2>4. GroupOf[x.culture] = GroupOf[slot.culture] /\ Level(x) <= Level(slot)
      BY <1>6 DEF Arrival
    <2>5. CASE x.size = slot.size /\ C = A + b
      <3>1. a \in Int /\ b \in Int /\ b <= a
        <4> HIDE DEF slot
        <4> QED
          BY <1>2, <1>3, <2>1, <2>4, <2>5
      <3> HIDE DEF A, B, C, D, a, b
      <3> QED
        BY <1>4, <2>2, <2>5, <3>1
    <2>6. ASSUME NEW d \in 1 .. Len(pops[p]),
                 x.type = pops[p][d].type, x.culture = pops[p][d].culture,
                 x.size = SetSize(pops[p][d].size + slot.size),
                 C = A - w[p][pops[p][d]] + b
          PROVE  C + D <= A + B
      <3> DEFINE y == pops[p][d]
                 c == w[p][y]
      <3>1. y \in Rec
        BY <1>1 DEF Bags
      <3>2. Level(x) = Level(y)
        BY <2>6 DEF Level
      <3>3. a \in Int /\ b \in Int /\ c \in Int /\ b - c <= a
        <4>1. /\ a = IF GroupOf[slot.culture] = g /\ Level(slot) >= l THEN slot.size ELSE 0
              /\ b = IF GroupOf[x.culture] = g /\ Level(x) >= l THEN x.size ELSE 0
              /\ c = IF GroupOf[y.culture] = g /\ Level(y) >= l THEN y.size ELSE 0
              /\ slot.size \in 0 .. MaxSize /\ x.size \in 0 .. MaxSize /\ y.size \in 0 .. MaxSize
              /\ Level(slot) \in Int /\ Level(x) \in Int
          BY <1>2, <2>1, <3>1
        <4>2. x.culture = y.culture /\ x.size = SetSize(y.size + slot.size)
          BY <2>6
        <4> HIDE DEF slot, y, a, b, c
        <4>3. x.size <= y.size + slot.size
          BY <1>3, <4>1, <4>2 DEF SetSize
        <4> QED
          BY <1>3, <2>4, <3>2, <4>1, <4>2, <4>3
      <3>4. C = A - c + b
        BY <2>6
      <3> HIDE DEF A, B, C, D, a, b, c
      <3> QED
        BY <1>4, <2>2, <3>3, <3>4
    <2> QED
      BY <2>3, <2>5, <2>6
  <1>7. UNCHANGED <<pops, pending, events>> => C + D = A + B
    OBVIOUS
  <1>8. C + D = A + B => C + D <= A + B
    <2> HIDE DEF A, B, C, D
    <2> QED
      BY <1>4
  <1>9. C + D <= A + B
    <2> HIDE DEF A, B, C, D
    <2> QED
      BY <1>5, <1>6, <1>7, <1>8 DEF Outcome
  <1> QED
    BY <1>9 DEF w

\* A journey lifts nobody: the people of a culture group at a level or above it become
\* more by promotion only, whichever pass finds their new POP, whichever type is
\* founded for them, and whoever used their slot before.
THEOREM JourneysLiftNobody == Spec => NobodyRisesByMoving
  <1> DEFINE Step ==
        turn # 0 \/ pending' # pending =>
        \A g \in Range(GroupOf), l \in {TypeOf[t].level : t \in Type} :
            LET High(x) == GroupOf[x.culture] = g /\ Level(x) >= l
            IN  People(High)' <= People(High)
  <1>1. Init => IInv
    BY InitialInvariant
  <1>2. IInv /\ [Next]_vars => IInv'
    BY InvariantStep
  <1>3. IInv /\ [Next]_vars => Step
    <2> SUFFICES ASSUME IInv, [Next]_vars, turn # 0 \/ pending' # pending,
                        NEW g \in Range(GroupOf), NEW l \in {TypeOf[t].level : t \in Type}
                 PROVE  LET High(x) == GroupOf[x.culture] = g /\ Level(x) >= l
                        IN  People(High)' <= People(High)
      OBVIOUS
    <2> DEFINE High(x) == GroupOf[x.culture] = g /\ Level(x) >= l
    <2>1. Outcome
      BY StepsAreOutcomes
    <2>2. l \in Int
      BY MigrationAssumption
    <2>3. People(High) = World(Raised(g, l), pops) + World(Raised(g, l), pending)
      BY InvariantTypes, PeopleAreRaised DEF People, OverProvinces, SizesOf
    <2>4. People(High)' = World(Raised(g, l), pops') + World(Raised(g, l), pending')
      BY <2>1, OutcomeKeepsTypes, PeopleAreRaisedNext DEF People, OverProvinces, SizesOf
    <2>5. World(Raised(g, l), pops') + World(Raised(g, l), pending')
            <= World(Raised(g, l), pops) + World(Raised(g, l), pending)
      BY <2>1, <2>2, RaisedStep
    <2> QED
      BY <2>3, <2>4, <2>5 DEF People, OverProvinces, SizesOf
  <1> QED
    BY <1>1, <1>2, <1>3, PTL DEF Spec, NobodyRisesByMoving

-------------------------------------------------------------------------------
(* The factories of a state. *)

\* The types of what the two callers of the gate change.
IndustryTypeOK == factories \in Seq(FactoryType) /\ onlyAI \in BOOLEAN

IndustryInv == IndustryTypeOK /\ StatesAreWellBuilt

LEMMA InitBuilt == EconomyInit => IndustryInv
  <1>. SUFFICES ASSUME EconomyInit PROVE IndustryInv
    OBVIOUS
  <1>1. factories = <<>> /\ onlyAI = TRUE
    BY DEF EconomyInit, IndustryInit
  <1>2. Len(factories) = 0 /\ DOMAIN factories = {}
    BY <1>1
  <1>3. IndustryTypeOK
    BY <1>1 DEF IndustryTypeOK
  <1>4. NeverCrowded
    BY <1>2, IndustryAssumption DEF NeverCrowded, IndustryAssumption
  <1>5. ReservedPlacesKept
    BY <1>2, IndustryAssumption DEF ReservedPlacesKept, PlacesLeft, IndustryAssumption
  <1> QED
    BY <1>3, <1>4, <1>5 DEF IndustryInv, StatesAreWellBuilt

\* A factory that the gate lets in keeps the state well built.
LEMMA BuildKeeps == IndustryInv /\ Build => IndustryInv'
  <1>. SUFFICES ASSUME IndustryInv, Build PROVE IndustryInv'
    OBVIOUS
  <1>. USE IndustryAssumption DEF IndustryAssumption
  <1>1. PICK t \in FactoryType, ai \in BOOLEAN, now \in Circumstances :
          /\ CanBuildFactory(t, ai, now)
          /\ factories' = Append(factories, t)
          /\ onlyAI' = (onlyAI /\ ai)
    BY DEF Build
  <1>. DEFINE n == Len(factories)
  <1>2. /\ factories \in Seq(FactoryType) /\ n \in Nat /\ DOMAIN factories = 1 .. n
        /\ onlyAI \in BOOLEAN
    BY DEF IndustryInv, IndustryTypeOK
  <1>3. /\ factories' \in Seq(FactoryType) /\ Len(factories') = n + 1
        /\ DOMAIN factories' = 1 .. n + 1
        /\ factories'[n + 1] = t
        /\ \A i \in 1 .. n : factories'[i] = factories[i]
    BY <1>1, <1>2
  <1>4. n < Slots /\ ~Listed(t) /\ (ai => ~AIRefuses(t, now.coast))
    BY <1>1, <1>2 DEF CanBuildFactory, PlacesLeft
  <1>5. IndustryTypeOK'
    BY <1>1, <1>2, <1>3 DEF IndustryTypeOK
  <1>6. NeverCrowded'
    <2>1. \A i \in 1 .. n : factories[i] # t
      BY <1>2, <1>4 DEF Listed
    <2>2. \A i, j \in 1 .. n : factories[i] = factories[j] => i = j
      BY <1>2 DEF IndustryInv, StatesAreWellBuilt, NeverCrowded
    <2>3. \A i, j \in 1 .. n + 1 : factories'[i] = factories'[j] => i = j
      <3>. TAKE i, j \in 1 .. n + 1
      <3>1. CASE i \in 1 .. n /\ j \in 1 .. n
        BY <3>1, <2>2, <1>3
      <3>2. CASE i = n + 1 /\ j \in 1 .. n
        BY <3>2, <2>1, <1>3
      <3>3. CASE j = n + 1 /\ i \in 1 .. n
        BY <3>3, <2>1, <1>3
      <3>4. CASE i = n + 1 /\ j = n + 1
        BY <3>4
      <3> QED
        BY <3>1, <3>2, <3>3, <3>4, <1>2
    <2>4. Len(factories') <= Slots
      BY <1>2, <1>3, <1>4
    <2> QED
      BY <2>3, <2>4, <1>3 DEF NeverCrowded
  <1>7. ReservedPlacesKept'
    <2>. SUFFICES ASSUME onlyAI' PROVE
            /\ \A i, j \in 1 .. n + 1 :
                   \/ {factories'[i], factories'[j]} \subseteq CategoryA
                   \/ {factories'[i], factories'[j]} \subseteq CategoryB
                   => i = j
            /\ PlacesLeft' < Reserved => Has(CategoryA)' /\ Has(CategoryB)'
      BY <1>3 DEF ReservedPlacesKept
    <2>1. onlyAI /\ ai
      BY <1>1
    <2>2. ~AIRefuses(t, now.coast)
      BY <1>4, <2>1
    <2>3. ASSUME NEW K \in {CategoryA, CategoryB}
          PROVE  \A i, j \in 1 .. n + 1 :
                     factories'[i] \in K /\ factories'[j] \in K => i = j
      <3>1. t \in K => \A i \in 1 .. n : factories[i] \notin K
        BY <2>2, <2>3, <1>2 DEF AIRefuses, Has
      <3>2. \A i, j \in 1 .. n : factories[i] \in K /\ factories[j] \in K => i = j
        BY <2>1, <2>3, <1>2 DEF IndustryInv, StatesAreWellBuilt, ReservedPlacesKept
      <3>. TAKE i, j \in 1 .. n + 1
      <3>3. CASE i \in 1 .. n /\ j \in 1 .. n
        BY <3>3, <3>2, <1>3
      <3>4. CASE i = n + 1 /\ j \in 1 .. n
        BY <3>4, <3>1, <1>3
      <3>5. CASE j = n + 1 /\ i \in 1 .. n
        BY <3>5, <3>1, <1>3
      <3>6. CASE i = n + 1 /\ j = n + 1
        BY <3>6
      <3> QED
        BY <3>3, <3>4, <3>5, <3>6, <1>2
    <2>4. ASSUME PlacesLeft' < Reserved, NEW K \in {CategoryA, CategoryB}
          PROVE  \E i \in 1 .. n + 1 : factories'[i] \in K
      <3>1. PlacesLeft <= Reserved
        BY <2>4, <1>2, <1>3 DEF PlacesLeft
      <3>2. t \in K \/ Has(K)
        BY <2>2, <2>4, <3>1, <1>4 DEF AIRefuses
      <3>3. CASE t \in K
        BY <3>3, <1>2, <1>3
      <3>4. CASE Has(K)
        BY <3>4, <1>2, <1>3 DEF Has
      <3> QED
        BY <3>2, <3>3, <3>4
    <2>5. \A i, j \in 1 .. n + 1 :
              \/ {factories'[i], factories'[j]} \subseteq CategoryA
              \/ {factories'[i], factories'[j]} \subseteq CategoryB
              => i = j
      BY <2>3
    <2>6. PlacesLeft' < Reserved => Has(CategoryA)' /\ Has(CategoryB)'
      BY <2>4, <1>3 DEF Has
    <2> QED
      BY <2>5, <2>6
  <1> QED
    BY <1>5, <1>6, <1>7 DEF IndustryInv, StatesAreWellBuilt

LEMMA IndustryInvariance == EconomySpec => []IndustryInv
  <1>1. EconomyInit => IndustryInv
    BY InitBuilt
  <1>2. IndustryInv /\ [EconomyNext]_economy => IndustryInv'
    <2>. SUFFICES ASSUME IndustryInv, [EconomyNext]_economy PROVE IndustryInv'
      OBVIOUS
    <2>1. CASE AddFactory
      BY <2>1, BuildKeeps DEF AddFactory
    <2>2. CASE UNCHANGED <<factories, onlyAI>>
      BY <2>2 DEF IndustryInv, IndustryTypeOK, StatesAreWellBuilt, NeverCrowded,
         ReservedPlacesKept, PlacesLeft, Has
    <2> QED
      BY <2>1, <2>2 DEF EconomyNext, UpdatePrices, ChangeDemand, economy
  <1> QED
    BY <1>1, <1>2, PTL DEF EconomySpec

\* However the requests of the AI and the player follow each other, a state has no
\* more factories than places and no two of a type; left to the AI it has at most
\* one of either category, and both once a reserved place is taken.
THEOREM WellBuilt == EconomySpec => []StatesAreWellBuilt
  BY IndustryInvariance, PTL DEF IndustryInv

-------------------------------------------------------------------------------

\* Where a price with this base and target is heading.
Bound(base, target) == Clamp(MinPrice(base), MaxPrice(base), target)

LEMMA LimitsInOrder ==
  ASSUME NEW base \in Nat
  PROVE  /\ MinPrice(base) \in Int /\ MaxPrice(base) \in Int
         /\ MinPrice(base) <= MaxPrice(base)
  <1>1. base * MinFactor \in Nat /\ base * MaxFactor \in Nat
        /\ base * MinFactor <= base * MaxFactor
    BY DEF MinFactor, MaxFactor
  <1> QED
    BY <1>1 DEF MinPrice, MaxPrice, One

\* A day of the market takes no price further from where it is heading and ends
\* on the same side of it, wherever the price and the target are: the first half
\* of PricesFollowSupply.
THEOREM NoDayOvershoots ==
  ASSUME NEW base \in Nat, NEW now \in Int, NEW target \in Int
  PROVE  Magnitude(Bound(base, target) - NextPrice(base, now, target))
             <= Magnitude(Bound(base, target) - now)
  <1>. DEFINE low  == MinPrice(base)
              high == MaxPrice(base)
  <1>1. low \in Int /\ high \in Int /\ low <= high
    BY LimitsInOrder
  <1>. HIDE DEF low, high
  <1>2. Bound(base, target) = Clamp(low, high, target)
        /\ NextPrice(base, now, target) = Clamp(low, high, now + Delta(now, target))
    BY DEF Bound, NextPrice, low, high
  <1> QED
    BY <1>1, <1>2 DEF Clamp, AtLeast, AtMost, Delta, MaxStep, Magnitude

\* A price within the limits and further than a step from where it is heading is a
\* whole step nearer the next day, so it arrives within a step after finitely many
\* days of the same supply and demand: what PriceSettles rests on.
THEOREM EveryDayAStep ==
  ASSUME NEW base \in Nat, NEW now \in Int, NEW target \in Int,
         MinPrice(base) <= now, now <= MaxPrice(base),
         Magnitude(Bound(base, target) - now) > MaxStep
  PROVE  Magnitude(Bound(base, target) - NextPrice(base, now, target))
             = Magnitude(Bound(base, target) - now) - MaxStep
  <1>. DEFINE low  == MinPrice(base)
              high == MaxPrice(base)
  <1>1. low \in Int /\ high \in Int /\ low <= now /\ now <= high
    BY LimitsInOrder
  <1>. HIDE DEF low, high
  <1>2. Bound(base, target) = Clamp(low, high, target)
        /\ NextPrice(base, now, target) = Clamp(low, high, now + Delta(now, target))
    BY DEF Bound, NextPrice, low, high
  <1> QED
    BY <1>1, <1>2 DEF Clamp, AtLeast, AtMost, Delta, MaxStep, Magnitude

-------------------------------------------------------------------------------
(* The root. *)

Positive == Nat \ {0}

\* The recursive function that NearestRoot takes its floor from.
IsNewton(h, n) ==
    h = [x \in Positive |-> IF Turned(n, x) >= x THEN x ELSE h[Turned(n, x)]]
Newton(n) == CHOOSE h : IsNewton(h, n)

Rounded(n, floor) == IF n > floor * (floor + 1) THEN floor + 1 ELSE floor

LEMMA RootIsNewtons ==
    ASSUME NEW n
    PROVE  NearestRoot(n) = Rounded(n, Newton(n)[65536])
  BY SMT DEF NearestRoot, Newton, IsNewton, Rounded, Positive

LEMMA RoundedTurn ==
    ASSUME NEW n \in Positive, NEW x \in Positive
    PROVE  /\ Turned(n, x) \in Positive
           /\ Turned(n, x) >= x => x * x <= n
           /\ n < (Turned(n, x) + 1) * (Turned(n, x) + 1)
  <1> DEFINE q == n \div x
             y == (x + q) \div 2
  <1>1. q \in Nat /\ x * q <= n /\ n < x * (q + 1)
    BY DEF Positive
  <1> HIDE DEF q
  <1>2. y \in Nat /\ 2 * y <= x + q /\ x + q <= 2 * y + 1
    BY <1>1 DEF Positive
  <1>3. y # 0
    <2>1. x = 1 => q = n
      BY <1>1 DEF Positive
    <2> QED
      BY <1>1, <1>2, <2>1 DEF Positive
  <1> HIDE DEF y
  <1>4. y >= x => x * x <= n
    <2> SUFFICES ASSUME y >= x PROVE x * x <= n
      OBVIOUS
    <2>1. x <= q
      BY <1>1, <1>2 DEF Positive
    <2>2. PICK d \in Nat : q = x + d
      BY <1>1, <2>1, q - x \in Nat DEF Positive
    <2>3. x * q = x * x + x * d /\ x * d \in Nat /\ x * x \in Nat /\ x * q \in Nat
      BY <2>2 DEF Positive
    <2> QED
      BY <1>1, <2>3 DEF Positive
  <1>5. n < (y + 1) * (y + 1)
    <2> DEFINE k == q + 1
               z == y + 1
    <2>1. k \in Nat /\ z \in Nat /\ x + k <= 2 * z /\ n < x * k /\ x \in Nat
      BY <1>1, <1>2 DEF Positive
    <2> HIDE DEF k, z
    <2>2. x * k <= z * z
      <3>1. CASE x <= z
        <4>1. PICK d \in Nat : z = x + d
          BY <2>1, <3>1, z - x \in Nat
        <4>2. k <= z + d
          BY <2>1, <4>1
        <4>3. x * k <= x * (z + d)
          <5>1. PICK e \in Nat : z + d = k + e
            BY <2>1, <4>1, <4>2, z + d - k \in Nat
          <5>2. x * (z + d) = x * k + x * e /\ x * e \in Nat /\ x * k \in Nat
            BY <2>1, <5>1
          <5> QED
            BY <2>1, <4>1, <5>2
        <4>4. x * (z + d) = x * x + 2 * (x * d)
          BY <2>1, <4>1
        <4>5. z * z = x * x + 2 * (x * d) + d * d /\ d * d \in Nat
          BY <2>1, <4>1
        <4>6. x * x \in Nat /\ x * d \in Nat /\ x * k \in Nat
          BY <2>1, <4>1
        <4> QED
          BY <4>3, <4>4, <4>5, <4>6
      <3>2. CASE z < x
        <4>1. PICK d \in Nat : x = z + d
          BY <2>1, <3>2, x - z \in Nat
        <4>2. k + d <= z
          BY <2>1, <4>1
        <4>3. PICK e \in Nat : z = k + d + e
          BY <2>1, <4>1, <4>2, z - k - d \in Nat
        <4>4. x * k = z * k + d * k /\ z * z = z * k + z * d + z * e
          BY <2>1, <4>1, <4>3
        <4>5. z * d = k * d + d * d + e * d /\ k * d = d * k
          BY <2>1, <4>1, <4>3
        <4>6. /\ d * d \in Nat /\ e * d \in Nat /\ z * e \in Nat /\ k * d \in Nat
              /\ z * k \in Nat
          BY <2>1, <4>1, <4>3
        <4> QED
          BY <4>4, <4>5, <4>6
      <3> QED
        BY <2>1, <3>1, <3>2
    <2>3. x * k \in Nat /\ z * z \in Nat /\ n \in Nat
      BY <2>1 DEF Positive
    <2>4. n < z * z
      BY <2>1, <2>2, <2>3
    <2> QED
      BY <2>4 DEF z
  <1> QED
    BY <1>2, <1>3, <1>4, <1>5 DEF Turned, Positive, y, q

LEMMA NewtonStops ==
    ASSUME NEW n \in Positive
    PROVE  IsNewton(Newton(n), n)
  <1> DEFINE S == Positive
             F == {x \in S : Turned(n, x) >= x}
             T == [x \in S |-> Turned(n, x)]
             m == [x \in S |-> x]
  <1>1. T \in [S -> S] /\ m \in [S -> Nat]
    <2>1. \A x \in S : Turned(n, x) \in S
      BY RoundedTurn
    <2> QED
      BY <2>1 DEF Positive
  <1>2. \A x \in S \ F : m[T[x]] < m[x]
    <2> SUFFICES ASSUME NEW x \in S \ F PROVE m[T[x]] < m[x]
      OBVIOUS
    <2>1. Turned(n, x) \in S
      BY RoundedTurn
    <2> QED
      BY <2>1 DEF Positive
  <1>3. \A x \in S : T[x] = Turned(n, x) /\ (x \in F <=> Turned(n, x) >= x)
    OBVIOUS
  <1> HIDE DEF S, F, T, m
  <1>4. PICK g \in [S -> S] : Loops(g, S, F, T)
    BY <1>1, <1>2, LoopEnds
  <1>5. \A x \in S : g[x] = IF Turned(n, x) >= x THEN x ELSE g[Turned(n, x)]
    BY <1>3, <1>4 DEF Loops
  <1>6. g = [x \in S |-> IF Turned(n, x) >= x THEN x ELSE g[Turned(n, x)]]
    <2>1. g = [x \in S |-> g[x]]
      BY <1>4
    <2> QED
      BY <1>5, <2>1
  <1>7. IsNewton(g, n)
    BY <1>6, Zenon DEF IsNewton, S
  <1> QED
    BY <1>7, Zenon DEF Newton

\* The iteration comes down to the integer part of the root, or stays where it began.
IsFloor(r, x, n) == /\ r \in Positive /\ r <= x /\ r * r <= n
                    /\ n < (r + 1) * (r + 1) \/ r = x

LEMMA NewtonsFloor ==
    ASSUME NEW n \in Positive
    PROVE  \A x \in Positive : IsFloor(Newton(n)[x], x, n)
  <1> DEFINE h == Newton(n)
             B == {x \in Positive : ~IsFloor(h[x], x, n)}
  <1>1. \A x \in Positive : h[x] = IF Turned(n, x) >= x THEN x ELSE h[Turned(n, x)]
    <2>1. IsNewton(h, n)
      BY NewtonStops
    <2> HIDE DEF h
    <2> QED
      BY <2>1 DEF IsNewton
  <1> HIDE DEF h
  <1> SUFFICES ASSUME B # {} PROVE FALSE
    BY DEF h
  <1>2. B \subseteq Nat
    BY DEF Positive
  <1>3. PICK x \in B : \A j \in B : x <= j
    <2> HIDE DEF B
    <2> QED
      BY <1>2, LeastNatural
  <1> DEFINE y == Turned(n, x)
  <1>4. x \in Positive /\ ~IsFloor(h[x], x, n)
    BY <1>3
  <1>5. /\ y \in Positive
        /\ y >= x => x * x <= n
        /\ n < (y + 1) * (y + 1)
    BY <1>4, RoundedTurn
  <1>6. h[x] = IF y >= x THEN x ELSE h[y]
    BY <1>1, <1>4
  <1> HIDE DEF y
  <1>7. CASE y >= x
    BY <1>4, <1>5, <1>6, <1>7 DEF IsFloor, Positive
  <1>8. CASE y < x
    <2>1. y \notin B
      BY <1>3, <1>5, <1>8 DEF Positive
    <2>2. IsFloor(h[y], y, n)
      BY <1>5, <2>1
    <2>3. h[x] = h[y]
      BY <1>4, <1>5, <1>6, <1>8 DEF Positive
    <2>4. PICK r \in Positive : r = h[y] /\ r <= y /\ r * r <= n
                                /\ (n < (r + 1) * (r + 1) \/ r = y)
      BY <2>2 DEF IsFloor
    <2>5. n < (r + 1) * (r + 1)
      BY <1>5, <2>4
    <2>6. IsFloor(r, x, n)
      BY <1>4, <1>5, <1>8, <2>4, <2>5 DEF IsFloor, Positive
    <2> QED
      BY <1>4, <2>3, <2>4, <2>6
  <1> QED
    BY <1>4, <1>5, <1>7, <1>8 DEF Positive

LEMMA SquaresGrow ==
    ASSUME NEW a \in Nat, NEW b \in Nat, a <= b
    PROVE  a * a \in Nat /\ a * a <= b * b
  <1>1. PICK d \in Nat : b = a + d
    BY b - a \in Nat
  <1>2. b * b = a * a + 2 * (a * d) + d * d /\ a * d \in Nat /\ d * d \in Nat /\ a * a \in Nat
    BY <1>1
  <1> QED
    BY <1>2

\* The root of a number is a natural, and a greater number has no smaller one.
LEMMA RootGrows ==
    ASSUME NEW n \in Positive, NEW k \in Positive, n <= k
    PROVE  NearestRoot(n) \in Nat /\ NearestRoot(n) <= NearestRoot(k)
  <1>1. IsFloor(Newton(n)[65536], 65536, n) /\ IsFloor(Newton(k)[65536], 65536, k)
    BY NewtonsFloor DEF Positive
  <1>2. PICK r \in Positive : /\ r = Newton(n)[65536] /\ r <= 65536 /\ r * r <= n
                              /\ n < (r + 1) * (r + 1) \/ r = 65536
    BY <1>1 DEF IsFloor
  <1>3. PICK s \in Positive : /\ s = Newton(k)[65536] /\ s <= 65536 /\ s * s <= k
                              /\ k < (s + 1) * (s + 1) \/ s = 65536
    BY <1>1 DEF IsFloor
  <1>4. r \in Nat /\ s \in Nat /\ n \in Nat /\ k \in Nat
    BY DEF Positive
  <1>5. r <= s
    <2> SUFFICES ASSUME s < r PROVE FALSE
      BY <1>4
    <2>1. s # 65536
      BY <1>2, <1>4
    <2>2. s + 1 \in Nat /\ s + 1 <= r
      BY <1>4
    <2>3. (s + 1) * (s + 1) \in Nat /\ (s + 1) * (s + 1) <= r * r /\ r * r \in Nat
      BY <1>4, <2>2, SquaresGrow
    <2> QED
      BY <1>2, <1>3, <1>4, <2>1, <2>3
  <1>6. /\ NearestRoot(n) = IF n > r * (r + 1) THEN r + 1 ELSE r
        /\ NearestRoot(k) = IF k > s * (s + 1) THEN s + 1 ELSE s
    BY <1>2, <1>3, RootIsNewtons DEF Rounded
  <1>7. CASE r = s
    <2>1. r * (r + 1) \in Nat
      BY <1>4
    <2> QED
      BY <1>4, <1>6, <1>7, <2>1
  <1>8. CASE r < s
    BY <1>4, <1>6, <1>8
  <1> QED
    BY <1>4, <1>5, <1>7, <1>8

-------------------------------------------------------------------------------
(* The curve. *)

\* Behind its last step the root takes over, above the last factor.
LEMMA RootTakesOver ==
    ASSUME NEW ratio \in Nat, ratio >= 21823
    PROVE  ratio * One \in Positive /\ NearestRoot(ratio * One) >= 26739
  <1> DEFINE n == ratio * One
  <1>1. n \in Nat /\ n >= 715096064
    BY DEF One
  <1> HIDE DEF n
  <1>2. n \in Positive
    BY <1>1 DEF Positive
  <1>3. IsFloor(Newton(n)[65536], 65536, n)
    BY <1>2, NewtonsFloor DEF Positive
  <1>4. PICK r \in Positive : /\ r = Newton(n)[65536] /\ r * r <= n
                              /\ n < (r + 1) * (r + 1) \/ r = 65536
    BY <1>3 DEF IsFloor
  <1>5. r \in Nat
    BY DEF Positive
  <1>6. r >= 26739
    <2> SUFFICES ASSUME r < 26739 PROVE FALSE
      BY <1>5
    <2>1. r + 1 \in Nat /\ r + 1 <= 26739
      BY <1>5
    <2>2. PICK c \in Nat : c = 26739 /\ c * c = 714974121
      OBVIOUS
    <2>3. (r + 1) * (r + 1) \in Nat /\ (r + 1) * (r + 1) <= c * c
      BY <2>1, <2>2, SquaresGrow
    <2> QED
      BY <1>1, <1>4, <1>5, <2>2, <2>3
  <1>7. NearestRoot(n) = r \/ NearestRoot(n) = r + 1
    BY <1>4, RootIsNewtons DEF Rounded
  <1> QED
    BY <1>2, <1>5, <1>6, <1>7 DEF n

\* The steps of the curve are in order, and so are their factors.
LEMMA CurveRises ==
    /\ DOMAIN Curve = 1 .. 13 /\ Curve[13].below = 21823
    /\ \A i \in 1 .. 13 : /\ Curve[i].below \in Nat /\ Curve[i].factor \in Nat
                          /\ Curve[i].factor <= 26739
    /\ \A i, j \in 1 .. 13 : i <= j => Curve[i].factor <= Curve[j].factor
  <1>1. DOMAIN Curve = 1 .. 13
    BY DEF Curve
  <1>2. /\ Curve[1].factor = 7307 /\ Curve[2].factor = 8454 /\ Curve[3].factor = 9437
        /\ Curve[4].factor = 10355 /\ Curve[5].factor = 10912 /\ Curve[6].factor = 11567
        /\ Curve[7].factor = 12354 /\ Curve[8].factor = 13369 /\ Curve[9].factor = 14647
        /\ Curve[10].factor = 16384 /\ Curve[11].factor = 18907
        /\ Curve[12].factor = 22938 /\ Curve[13].factor = 26739
    BY DEF Curve
  <1>3. /\ Curve[1].below \in Nat /\ Curve[2].below \in Nat /\ Curve[3].below \in Nat
        /\ Curve[4].below \in Nat /\ Curve[5].below \in Nat /\ Curve[6].below \in Nat
        /\ Curve[7].below \in Nat /\ Curve[8].below \in Nat /\ Curve[9].below \in Nat
        /\ Curve[10].below \in Nat /\ Curve[11].below \in Nat
        /\ Curve[12].below \in Nat /\ Curve[13].below = 21823
    BY DEF Curve
  <1>4. \A i \in 1 .. 13 : i \in {1, 2, 3, 4, 5, 6, 7, 8, 9, 10, 11, 12, 13}
    OBVIOUS
  <1>5. \A i \in 1 .. 13 : /\ Curve[i].below \in Nat /\ Curve[i].factor \in Nat
                           /\ Curve[i].factor <= 26739
    BY <1>2, <1>3, <1>4
  <1>6. \A i, j \in 1 .. 13 : i <= j => Curve[i].factor <= Curve[j].factor
    BY <1>2, <1>4
  <1> QED
    BY <1>1, <1>3, <1>5, <1>6

StepsAbove(ratio) == {i \in DOMAIN Curve : ratio < Curve[i].below}
FirstOf(steps) == CHOOSE i \in steps : \A j \in steps : i <= j

LEMMA SensitivityRises ==
    ASSUME NEW a \in Nat, NEW b \in Nat, a <= b
    PROVE  Sensitivity[a] \in Nat /\ Sensitivity[a] <= Sensitivity[b]
  <1>1. \A ratio \in Int :
           Sensitivity[ratio] = IF StepsAbove(ratio) = {} THEN NearestRoot(ratio * One)
                                ELSE Curve[FirstOf(StepsAbove(ratio))].factor
    BY Zenon DEF Sensitivity, StepsAbove, FirstOf
  <1>2. ASSUME NEW ratio \in Nat, StepsAbove(ratio) # {}
        PROVE  /\ FirstOf(StepsAbove(ratio)) \in 1 .. 13
               /\ FirstOf(StepsAbove(ratio)) \in StepsAbove(ratio)
               /\ \A j \in StepsAbove(ratio) : FirstOf(StepsAbove(ratio)) <= j
    <2> DEFINE S == StepsAbove(ratio)
    <2>1. S \subseteq 1 .. 13
      BY CurveRises DEF StepsAbove
    <2> HIDE DEF S
    <2>2. \E i \in S : \A j \in S : i <= j
      <3>1. S \subseteq Nat /\ S # {}
        BY <1>2, <2>1 DEF S
      <3> QED
        BY <3>1, LeastNatural
    <2>3. FirstOf(S) \in S /\ \A j \in S : FirstOf(S) <= j
      BY <2>2 DEF FirstOf
    <2> QED
      BY <2>1, <2>3 DEF S
  <1>3. ASSUME NEW ratio \in Nat, StepsAbove(ratio) = {}
        PROVE  ratio >= 21823
    BY <1>3, CurveRises DEF StepsAbove
  <1>4. StepsAbove(b) \subseteq StepsAbove(a)
    BY CurveRises DEF StepsAbove
  <1>5. CASE StepsAbove(b) # {}
    <2>1. StepsAbove(a) # {}
      BY <1>4, <1>5
    <2>2. FirstOf(StepsAbove(a)) <= FirstOf(StepsAbove(b))
      BY <1>2, <1>4, <1>5, <2>1
    <2>3. FirstOf(StepsAbove(a)) \in 1 .. 13 /\ FirstOf(StepsAbove(b)) \in 1 .. 13
      BY <1>2, <1>5, <2>1
    <2> QED
      BY <1>1, <1>5, <2>1, <2>2, <2>3, CurveRises
  <1>6. CASE StepsAbove(b) = {} /\ StepsAbove(a) # {}
    <2>1. FirstOf(StepsAbove(a)) \in 1 .. 13
      BY <1>2, <1>6
    <2>2. PICK i \in 1 .. 13 : i = FirstOf(StepsAbove(a))
      BY <2>1
    <2>3. Sensitivity[a] = Curve[i].factor
      BY <1>1, <1>6, <2>2
    <2>4. Sensitivity[a] \in Nat /\ Sensitivity[a] <= 26739
      BY <2>3, CurveRises
    <2>5. Sensitivity[b] = NearestRoot(b * One)
      BY <1>1, <1>6
    <2>6. b * One \in Positive /\ NearestRoot(b * One) >= 26739
      BY <1>3, <1>6, RootTakesOver
    <2>7. NearestRoot(b * One) \in Nat
      BY <2>6, RootGrows DEF Positive
    <2> QED
      BY <2>4, <2>5, <2>6, <2>7
  <1>7. CASE StepsAbove(b) = {} /\ StepsAbove(a) = {}
    <2>1. a * One \in Positive /\ b * One \in Positive /\ a * One <= b * One
      <3>1. a * One \in Positive /\ b * One \in Positive
        BY <1>3, <1>7, RootTakesOver
      <3>2. a * One <= b * One
        BY DEF One
      <3> QED
        BY <3>1, <3>2
    <2>2. NearestRoot(a * One) \in Nat /\ NearestRoot(a * One) <= NearestRoot(b * One)
      BY <2>1, RootGrows
    <2> QED
      BY <1>1, <1>7, <2>2
  <1> QED
    BY <1>5, <1>6, <1>7

LEMMA QuotientsGrow ==
    ASSUME NEW a \in Nat, NEW b \in Nat, a <= b, NEW d \in Nat \ {0}
    PROVE  a \div d \in Nat /\ a \div d <= b \div d
  <1> DEFINE p == a \div d
             q == b \div d
  <1>1. /\ p \in Nat /\ d * p <= a /\ a < d * (p + 1)
        /\ q \in Nat /\ d * q <= b /\ b < d * (q + 1)
    OBVIOUS
  <1> HIDE DEF p, q
  <1>2. p <= q
    <2> SUFFICES ASSUME q < p PROVE FALSE
      BY <1>1
    <2>1. PICK e \in Nat : p = q + 1 + e
      BY <1>1, p - q - 1 \in Nat
    <2>2. d * p = d * (q + 1) + d * e /\ d * e \in Nat /\ d * (q + 1) \in Nat
      BY <1>1, <2>1
    <2> QED
      BY <1>1, <2>2
  <1> QED
    BY <1>1, <1>2 DEF p, q

LEMMA ProductsGrow ==
    ASSUME NEW a \in Nat, NEW b \in Nat, a <= b, NEW c \in Nat
    PROVE  c * a \in Nat /\ c * a <= c * b
  <1>1. PICK d \in Nat : b = a + d
    BY b - a \in Nat
  <1>2. c * b = c * a + c * d /\ c * a \in Nat /\ c * d \in Nat
    BY <1>1
  <1> QED
    BY <1>2

\* The target of a good by its three fields.
TargetFor(base, s, d) == Target[[base |-> base, supply |-> s, demand |-> d]]

LEMMA TargetIs ==
    ASSUME NEW base \in Nat, NEW s \in Nat, NEW d \in Nat \ {0}
    PROVE  TargetFor(base, s, d) = (base * Sensitivity[Coverage(s, d)]) \div One
  BY SMT DEF Target, TargetFor, Quote

\* The more is supplied the higher the price heads.
LEMMA TargetRises ==
    ASSUME NEW base \in Nat, NEW d \in Nat \ {0}, NEW s \in Nat, NEW t \in Nat, s <= t
    PROVE  TargetFor(base, s, d) \in Nat /\ TargetFor(base, s, d) <= TargetFor(base, t, d)
  <1>1. \A x \in Nat : Coverage(x, d) = (x * One) \div d
    BY DEF Coverage, AllDiv, Magnitude, One
  <1>2. s * One \in Nat /\ t * One \in Nat /\ s * One <= t * One
    BY DEF One
  <1>3. Coverage(s, d) \in Nat /\ Coverage(t, d) \in Nat /\ Coverage(s, d) <= Coverage(t, d)
    BY <1>1, <1>2, QuotientsGrow
  <1>4. /\ Sensitivity[Coverage(s, d)] \in Nat /\ Sensitivity[Coverage(t, d)] \in Nat
        /\ Sensitivity[Coverage(s, d)] <= Sensitivity[Coverage(t, d)]
    BY <1>3, SensitivityRises
  <1>5. /\ base * Sensitivity[Coverage(s, d)] \in Nat /\ base * Sensitivity[Coverage(t, d)] \in Nat
        /\ base * Sensitivity[Coverage(s, d)] <= base * Sensitivity[Coverage(t, d)]
    BY <1>4, ProductsGrow
  <1>6. One \in Nat \ {0}
    BY DEF One
  <1> QED
    BY <1>5, <1>6, QuotientsGrow, TargetIs

-------------------------------------------------------------------------------
(* The market and the state together. *)

\* The types of what the pass reads and writes.
MarketTypeOK == price \in [Good -> Int] /\ demand \in [Good -> Nat \ {0}]

EInv == IndustryInv /\ MarketTypeOK

\* What a factory makes is not negative, and the deliveries are a sum of naturals.
Makers(g) == {i \in DOMAIN factories : Makes[factories[i]] = g}
Output    == [i \in DOMAIN factories |-> EffectiveOutput(factories[i], 1)]

LEMMA OutputIsNatural ==
    ASSUME NEW t \in FactoryType
    PROVE  EffectiveOutput(t, 1) \in Nat
  <1>1. BaseOutput[t] \in Nat /\ Throughput \in Nat
    BY EconomyAssumption DEF EconomyAssumption
  <1>2. One \in Nat \ {0} /\ 1 * One = One
    BY DEF One
  <1>3. BaseOutput[t] * Throughput \in Nat
    BY <1>1
  <1>4. (BaseOutput[t] * Throughput) \div One \in Nat
    BY <1>2, <1>3
  <1>5. ((BaseOutput[t] * Throughput) \div One) * One \in Nat
    BY <1>2, <1>4
  <1>6. (((BaseOutput[t] * Throughput) \div One) * One) \div One \in Nat
    BY <1>2, <1>5
  <1> QED
    BY <1>2, <1>6 DEF EffectiveOutput

LEMMA SupplyIsNatural ==
    ASSUME IndustryTypeOK, NEW g \in Good
    PROVE  /\ Supply(g) = SumFunctionOnSet(Output, Makers(g))
           /\ IsFiniteSet(Makers(g)) /\ Makers(g) \subseteq 1 .. Len(factories)
           /\ \A i \in DOMAIN factories : Output[i] \in Nat
           /\ Supply(g) \in Nat
  <1>1. /\ factories \in Seq(FactoryType) /\ Len(factories) \in Nat
        /\ DOMAIN factories = 1 .. Len(factories)
    BY DEF IndustryTypeOK
  <1>2. Supply(g) = SumFunctionOnSet(Output, Makers(g))
    BY Zenon DEF Supply, Output, Makers
  <1>3. Makers(g) \subseteq 1 .. Len(factories)
    BY <1>1 DEF Makers
  <1>4. IsFiniteSet(Makers(g))
    <2>1. IsFiniteSet(1 .. Len(factories))
      BY <1>1, FS_Interval
    <2> QED
      BY <1>3, <2>1, FS_Subset
  <1>5. \A i \in DOMAIN factories : Output[i] \in Nat
    <2> SUFFICES ASSUME NEW i \in DOMAIN factories PROVE Output[i] \in Nat
      OBVIOUS
    <2>1. factories[i] \in FactoryType
      BY <1>1
    <2> QED
      BY <2>1, OutputIsNatural DEF Output
  <1>6. \A i \in Makers(g) : Output[i] \in Nat
    BY <1>1, <1>3, <1>5
  <1>7. SumFunctionOnSet(Output, Makers(g)) \in Nat
    BY <1>4, <1>6, SumOfNaturals
  <1> QED
    BY <1>2, <1>3, <1>4, <1>5, <1>7

LEMMA NextPriceIsInt ==
    ASSUME NEW base \in Nat, NEW now \in Int, NEW target \in Int
    PROVE  NextPrice(base, now, target) \in Int
  <1>1. MinPrice(base) \in Int /\ MaxPrice(base) \in Int
    BY LimitsInOrder
  <1> QED
    BY <1>1 DEF NextPrice, Clamp, AtLeast, AtMost, Delta, MaxStep

LEMMA TargetIsNatural ==
    ASSUME EInv, NEW g \in Good
    PROVE  TargetOf(g) \in Nat /\ BasePrice[g] \in Nat /\ price[g] \in Int
  <1>1. BasePrice[g] \in Nat /\ demand[g] \in Nat \ {0} /\ Supply(g) \in Nat /\ price[g] \in Int
    BY EconomyAssumption, SupplyIsNatural DEF EconomyAssumption, EInv, IndustryInv, MarketTypeOK
  <1>2. TargetFor(BasePrice[g], Supply(g), demand[g]) \in Nat
    <2>1. PICK b \in Nat, d \in Nat \ {0}, s \in Nat :
            b = BasePrice[g] /\ d = demand[g] /\ s = Supply(g)
      BY <1>1
    <2>2. TargetFor(b, s, d) \in Nat
      BY TargetRises
    <2> QED
      BY <2>1, <2>2
  <1> QED
    BY <1>1, <1>2 DEF TargetOf, TargetFor

\* A factory more never delivers less.
LEMMA SupplyGrows ==
    ASSUME IndustryTypeOK, IndustryTypeOK', Build, NEW g \in Good
    PROVE  Supply(g)' \in Nat /\ Supply(g) <= Supply(g)'
  <1>1. PICK t \in FactoryType : factories' = Append(factories, t)
    BY DEF Build
  <1> DEFINE n == Len(factories)
             f == Output
             e == Output'
             M == Makers(g)
             P == Makers(g)'
  <1>2. /\ factories \in Seq(FactoryType) /\ n \in Nat /\ DOMAIN factories = 1 .. n
        /\ DOMAIN factories' = 1 .. n + 1
        /\ \A i \in 1 .. n : factories'[i] = factories[i]
    BY <1>1 DEF IndustryTypeOK
  <1>3. /\ Supply(g) = SumFunctionOnSet(f, M) /\ IsFiniteSet(M) /\ M \subseteq 1 .. n
        /\ \A i \in 1 .. n : f[i] \in Nat
        /\ Supply(g) \in Nat
    BY <1>2, SupplyIsNatural
  <1>4. /\ Supply(g)' = SumFunctionOnSet(e, P)
        /\ \A i \in 1 .. n + 1 : e[i] \in Nat
    <2>1. Supply(g)' = SumFunctionOnSet(e, P)
      BY Zenon DEF Supply, Output, Makers
    <2>2. ASSUME NEW i \in 1 .. n + 1 PROVE e[i] \in Nat
      <3>1. factories'[i] \in FactoryType
        BY <1>2 DEF IndustryTypeOK
      <3>2. EffectiveOutput(factories'[i], 1) \in Nat
        BY <3>1, OutputIsNatural
      <3>3. e[i] = EffectiveOutput(factories'[i], 1)
        BY <1>2 DEF Output, EffectiveOutput
      <3> QED
        BY <3>2, <3>3
    <2> QED
      BY <2>1, <2>2
  <1>5. \A i \in M : e[i] = f[i]
    BY <1>2, <1>3 DEF Output, EffectiveOutput
  <1>6. P = M \/ (P = M \cup {n + 1} /\ n + 1 \notin M)
    <2>1. P = {i \in 1 .. n + 1 : Makes[factories'[i]] = g}
      BY <1>2 DEF Makers
    <2>2. M = {i \in 1 .. n : Makes[factories[i]] = g}
      BY <1>2 DEF Makers
    <2> QED
      BY <1>2, <2>1, <2>2
  <1> HIDE DEF f, e, M, P, n
  <1>7. SumFunctionOnSet(f, M) = SumFunctionOnSet(e, M)
    BY <1>3, <1>5, SumSame
  <1>8. CASE P = M
    BY <1>3, <1>4, <1>7, <1>8
  <1>9. CASE P = M \cup {n + 1} /\ n + 1 \notin M
    <2>1. \A i \in M \cup {n + 1} : e[i] \in Int
      <3>1. \A i \in M \cup {n + 1} : i \in 1 .. n + 1
        BY <1>2, <1>3
      <3> QED
        BY <1>4, <3>1
    <2>2. SumFunctionOnSet(e, M \cup {n + 1}) = e[n + 1] + SumFunctionOnSet(e, M)
      BY <1>3, <1>9, <2>1, SumOfOneMore
    <2>3. e[n + 1] \in Nat
      BY <1>2, <1>4
    <2> QED
      BY <1>3, <1>4, <1>7, <1>9, <2>2, <2>3
  <1> QED
    BY <1>6, <1>8, <1>9

LEMMA EInit == EconomyInit => EInv
  <1> SUFFICES ASSUME EconomyInit PROVE EInv
    OBVIOUS
  <1>1. price \in [Good -> Int]
    <2>1. price \in [Good -> FirstPrices] /\ FirstPrices \subseteq Int
      BY EconomyAssumption DEF EconomyAssumption, EconomyInit
    <2> HIDE DEF EconomyInit
    <2> QED
      BY <2>1
  <1>2. demand \in [Good -> Nat \ {0}]
    <2>1. demand \in [Good -> Demands] /\ Demands \subseteq Nat \ {0}
      BY EconomyAssumption DEF EconomyAssumption, EconomyInit
    <2> DEFINE D == Nat \ {0}
    <2>2. Demands \subseteq D
      BY <2>1
    <2> HIDE DEF D
    <2>3. demand \in [Good -> D]
      BY <2>1, <2>2
    <2> QED
      BY <2>3 DEF D
  <1> QED
    BY <1>1, <1>2, InitBuilt DEF EInv, MarketTypeOK

LEMMA EStep == EInv /\ IndustryInv' /\ [EconomyNext]_economy => EInv'
  <1> SUFFICES ASSUME EInv, IndustryInv', [EconomyNext]_economy PROVE MarketTypeOK'
    BY DEF EInv
  <1>1. CASE UpdatePrices
    <2>1. ASSUME NEW g \in Good
          PROVE  NextPrice(BasePrice[g], price[g], TargetOf(g)) \in Int
      <3>1. /\ TargetOf(g) \in Nat /\ TargetOf(g) \in Int
            /\ BasePrice[g] \in Nat /\ price[g] \in Int
        BY TargetIsNatural
      <3> QED
        BY <3>1, NextPriceIsInt, Zenon
    <2> QED
      BY <1>1, <2>1 DEF UpdatePrices, EInv, MarketTypeOK
  <1>2. CASE ChangeDemand
    BY <1>2, EconomyAssumption DEF ChangeDemand, EInv, MarketTypeOK, EconomyAssumption
  <1>3. CASE UNCHANGED <<price, demand>>
    BY <1>3 DEF EInv, MarketTypeOK
  <1> QED
    BY <1>1, <1>2, <1>3 DEF EconomyNext, AddFactory, economy

\* The goal of a price, whatever moves it.
LEMMA GoalIsBound == \A g : Goal(g) = Bound(BasePrice[g], TargetOf(g))
  BY DEF Goal, Bound

LEMMA BoundGrows ==
    ASSUME NEW base \in Nat, NEW s \in Int, NEW t \in Int, s <= t
    PROVE  Bound(base, s) \in Int /\ Bound(base, s) <= Bound(base, t)
  <1>1. /\ MinPrice(base) \in Int /\ MaxPrice(base) \in Int
        /\ MinPrice(base) <= MaxPrice(base)
    BY LimitsInOrder
  <1> QED
    BY <1>1 DEF Bound, Clamp, AtLeast, AtMost

LEMMA PriceStep ==
    ASSUME EInv, IndustryInv', [EconomyNext]_economy, NEW g \in Good
    PROVE  /\ price' # price => Away(g)' <= Away(g)
           /\ factories' # factories => Goal(g)' >= Goal(g)
  <1>1. CASE UpdatePrices
    <2>1. /\ price'[g] = NextPrice(BasePrice[g], price[g], TargetOf(g))
          /\ factories' = factories /\ demand' = demand
      BY <1>1 DEF UpdatePrices
    <2>2. TargetOf(g)' = TargetOf(g)
      BY <2>1 DEF TargetOf, Supply
    <2>3. Goal(g)' = Goal(g) /\ Goal(g) = Bound(BasePrice[g], TargetOf(g))
      BY <2>2 DEF Goal, Bound
    <2>4. Away(g)' = Magnitude(Goal(g) - price'[g]) /\ Away(g) = Magnitude(Goal(g) - price[g])
      BY <2>3 DEF Away
    <2>5. TargetOf(g) \in Int /\ BasePrice[g] \in Nat /\ price[g] \in Int
      BY TargetIsNatural
    <2>6. Away(g)' <= Away(g)
      BY <2>1, <2>3, <2>4, <2>5, NoDayOvershoots
    <2> QED
      BY <2>1, <2>6
  <1>2. CASE AddFactory
    <2>1. Build /\ price' = price /\ demand' = demand
      BY <1>2 DEF AddFactory
    <2>2. /\ BasePrice[g] \in Nat /\ demand[g] \in Nat \ {0} /\ Supply(g) \in Nat
      BY EconomyAssumption, SupplyIsNatural DEF EconomyAssumption, EInv, IndustryInv, MarketTypeOK
    <2>3. IndustryTypeOK /\ IndustryTypeOK'
      BY DEF EInv, IndustryInv
    <2>4. Supply(g)' \in Nat /\ Supply(g) <= Supply(g)'
      BY <2>1, <2>3, SupplyGrows
    <2>5. TargetOf(g) = TargetFor(BasePrice[g], Supply(g), demand[g])
          /\ TargetOf(g)' = TargetFor(BasePrice[g], Supply(g)', demand[g])
      BY <2>1 DEF TargetOf, TargetFor
    <2>6. /\ TargetOf(g) \in Nat /\ TargetOf(g)' \in Nat /\ TargetOf(g) <= TargetOf(g)'
      <3>1. PICK b \in Nat, d \in Nat \ {0}, s \in Nat, t \in Nat :
              b = BasePrice[g] /\ d = demand[g] /\ s = Supply(g) /\ t = Supply(g)'
        BY <2>2, <2>4
      <3>2. s <= t
        BY <2>4, <3>1
      <3>3. TargetFor(b, s, d) \in Nat /\ TargetFor(b, s, d) <= TargetFor(b, t, d)
        BY <3>2, TargetRises
      <3>4. TargetFor(b, t, d) \in Nat
        BY TargetRises
      <3> QED
        BY <2>5, <3>1, <3>3, <3>4
    <2>7. Goal(g) <= Goal(g)' /\ Goal(g) \in Int /\ Goal(g)' \in Int
      BY <2>2, <2>6, BoundGrows DEF Goal, Bound
    <2> QED
      BY <2>1, <2>7
  <1>3. CASE UNCHANGED <<price, factories>>
    BY <1>3
  <1> QED
    BY <1>1, <1>2, <1>3 DEF EconomyNext, ChangeDemand, economy

\* No day takes a price further from where it is heading, and no new factory lowers where
\* that is, for any types, outputs, base prices, demands and first prices.
THEOREM PricesAnswerToSupply == EconomySpec => PricesFollowSupply
  <1>1. EconomyInit => EInv
    BY EInit
  <1>2. EInv /\ IndustryInv' /\ [EconomyNext]_economy => EInv'
    BY EStep
  <1>3. EInv /\ IndustryInv' /\ [EconomyNext]_economy
          => [ \A g \in Good : /\ price' # price => Away(g)' <= Away(g)
                               /\ factories' # factories => Goal(g)' >= Goal(g) ]_economy
    BY PriceStep
  <1> QED
    BY <1>1, <1>2, <1>3, IndustryInvariance, PTL DEF EconomySpec, PricesFollowSupply
===============================================================================
