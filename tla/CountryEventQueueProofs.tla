------------------------ MODULE CountryEventQueueProofs ------------------------
(***************************************************************************)
(* Theorems of CountryEventQueue for any number of countries, any entries  *)
(* and delays, with or without re-entrance.  The scan of a country leaves  *)
(* its vector alone, so what a scan cut short owes to the entries it did   *)
(* not reach is paid when the list of the doomed is erased: see Slack.     *)
(*                                                                         *)
(* The refinement of CountryTickModel comes last, for one country whose    *)
(* events queue nothing: see JInv.                                         *)
(***************************************************************************)
EXTENDS CountryEventQueueRefinement, CollectionLemmas

-------------------------------------------------------------------------------
(* The inductive invariant. *)

\* Positions of the vector of c.
Place(c) == 1 .. Len(queue[c])

\* The scan of the day has still to come to position i of country c.
Due(c, i) ==
    /\ pc # "idle"
    /\ \/ c > country
       \/ /\ c = country
          /\ \/ pc = "scan" /\ iter # OutOfBuffer /\ iter <= i
             \/ pc = "fire" /\ \E p \in Place(c) : queue[c][p] = edi /\ p < i

\* An entry in front of position i is about to be erased.
Gap(c, i) == c = country /\ \E p \in Place(c) : queue[c][p] \in ToSet(doomed) /\ p < i

Owed(c, i)  == IF Due(c, i) THEN 1 ELSE 0
Slack(c, i) == IF Due(c, i) \/ Gap(c, i) THEN 1 ELSE 0

\* Days waited, days left and places left to move up never add up to more than
\* what an entry was queued with, but for the day that has begun; and they are at
\* most a day less than its delay.
Budget(waited, left, place, term, front, owed, slack) ==
    /\ waited + left + (place - 1) <= term + front + slack
    /\ term - 1 + owed <= waited + left
InBudget ==
    \A c \in Country : \A i \in Place(c) :
        LET e == queue[c][i]
        IN  e \notin ToSet(doomed) =>
              Budget(age[e], delay[e], i, asked[e], ahead[e], Owed(c, i), Slack(c, i))

\* The timer of an entry that waits runs; it is zero at the one being fired.
TimersRun ==
    \A c \in Country : \A i \in Place(c) :
        LET e == queue[c][i]
        IN  e \notin ToSet(doomed) =>
              IF pc = "fire" /\ e = edi THEN delay[e] = 0 ELSE delay[e] > 0

\* Where the scan is: behind the doomed, of whom there are no more than places
\* in the buffer it began with.
Scanning ==
    pc = "scan" /\ iter # OutOfBuffer =>
        /\ iter <= Len(Vector) + 1 /\ Len(doomed) < iter
        /\ capacity[country] = room
        /\ \A i \in Place(country) : Vector[i] \in ToSet(doomed) => i < iter
FiresAt(p) ==
    /\ Vector[p] = edi /\ edi \notin ToSet(doomed)
    /\ iter \in {OutOfBuffer, p + 1} /\ p <= room /\ Len(doomed) < p
    /\ iter # OutOfBuffer => capacity[country] = room
    /\ \A i \in Place(country) : Vector[i] \in ToSet(doomed) => i < p
Firing == pc = "fire" => \E p \in Place(country) : FiresAt(p)

Unborn  == \A e \in Entry : ~Created(e) => age[e] = 0
Fitting == \A c \in Country : Len(queue[c]) <= capacity[c]
Listed  == ToSet(doomed) \subseteq ToSet(fired) \cup discarded
Resting == pc = "idle" => doomed = <<>>

IInv == /\ TypeOK /\ ExactlyOnce /\ FiresOnTime /\ ScanBoundedByCapacity
        /\ Scanning /\ Firing /\ TimersRun /\ InBudget
        /\ Unborn /\ Fitting /\ Listed /\ Resting

-------------------------------------------------------------------------------
(* What the invariant says of one entry. *)

LEMMA PendingMembers ==
    ASSUME TypeOK
    PROVE  \A x : x \in Pending <=>
               x \notin ToSet(doomed) /\ \E c \in Country : \E i \in Place(c) : queue[c][i] = x
  <1>1. \A c \in Country : queue[c] \in Seq(Entry)
    BY DEF TypeOK
  <1>2. \A c \in Country : \A x : x \in ToSet(queue[c]) <=> \E i \in Place(c) : queue[c][i] = x
    BY <1>1, ToSetMembers DEF Place
  <1>3. \A x : x \in UNION {ToSet(queue[c]) : c \in Country}
                 <=> \E c \in Country : x \in ToSet(queue[c])
    OBVIOUS
  <1>4. ASSUME NEW x
        PROVE  x \in Pending <=> x \notin ToSet(doomed) /\ \E c \in Country : x \in ToSet(queue[c])
    <2>1. x \in Pending <=> x \in UNION {ToSet(queue[c]) : c \in Country} /\ x \notin ToSet(doomed)
      BY DEF Pending
    <2> QED
      BY <1>3, <2>1
  <1> SUFFICES ASSUME NEW x
               PROVE  x \in Pending <=> x \notin ToSet(doomed)
                         /\ \E c \in Country : \E i \in Place(c) : queue[c][i] = x
    OBVIOUS
  <1>5. (\E c \in Country : x \in ToSet(queue[c]))
           <=> \E c \in Country : \E i \in Place(c) : queue[c][i] = x
    BY <1>2
  <1> QED
    BY <1>4, <1>5

\* A day begins, and an entry is counted down.
LEMMA BudgetOfADay ==
    ASSUME NEW waited \in Int, NEW left \in Int, NEW place \in Int,
           NEW term \in Int, NEW front \in Int
    PROVE  /\ Budget(waited, left, place, term, front, 0, 0)
                 => Budget(waited + 1, left, place, term, front, 1, 1)
           /\ Budget(waited, left, place, term, front, 1, 1)
                 => \A slack \in {0, 1} : Budget(waited, left - 1, place, term, front, 0, slack)
  BY DEF Budget

LEMMA EntryFacts ==
    ASSUME IInv, NEW c \in Country, NEW i \in Place(c)
    PROVE  /\ queue[c] \in Seq(Entry) /\ Len(queue[c]) \in Nat /\ i \in Nat
           /\ queue[c][i] \in Entry /\ Created(queue[c][i])
           /\ age[queue[c][i]] \in Nat /\ asked[queue[c][i]] \in Nat
           /\ ahead[queue[c][i]] \in Nat /\ delay[queue[c][i]] \in Int
           /\ Owed(c, i) \in {0, 1} /\ Slack(c, i) \in {0, 1}
           /\ queue[c][i] \notin ToSet(doomed) =>
                 /\ queue[c][i] \in Pending
                 /\ queue[c][i] \notin ToSet(fired) \cup discarded
                 /\ Budget(age[queue[c][i]], delay[queue[c][i]], i, asked[queue[c][i]],
                           ahead[queue[c][i]], Owed(c, i), Slack(c, i))
  <1> DEFINE e == queue[c][i]
  <1>1. queue[c] \in Seq(Entry) /\ Len(queue[c]) \in Nat /\ i \in Nat /\ e \in Entry
    BY DEF IInv, TypeOK, Place
  <1>2. e \in Pending \/ e \in ToSet(doomed)
    BY PendingMembers DEF IInv
  <1>3. Created(e)
    BY <1>1, <1>2 DEF IInv, ExactlyOnce, Listed
  <1>4. /\ age[e] \in Nat /\ asked[e] \in Nat /\ ahead[e] \in Nat /\ delay[e] \in Int
    BY <1>1 DEF IInv, TypeOK
  <1>5. Owed(c, i) \in {0, 1} /\ Slack(c, i) \in {0, 1}
    BY DEF Owed, Slack
  <1>6. e \notin ToSet(doomed) => e \in Pending /\ e \notin ToSet(fired) \cup discarded
    BY <1>2 DEF IInv, ExactlyOnce
  <1>7. e \notin ToSet(doomed) => Budget(age[e], delay[e], i, asked[e], ahead[e],
                                        Owed(c, i), Slack(c, i))
    BY DEF IInv, InBudget
  <1> QED
    BY <1>1, <1>3, <1>4, <1>5, <1>6, <1>7

\* The scan passes an entry by, or gives up on it with a gap in front of it.
LEMMA PassedBy ==
    ASSUME IInv, NEW c \in Country, NEW i \in Place(c), queue[c][i] \notin ToSet(doomed),
           NEW owed \in {0, 1}, NEW slack \in {0, 1},
           owed <= Owed(c, i), Slack(c, i) <= slack
    PROVE  Budget(age[queue[c][i]], delay[queue[c][i]], i, asked[queue[c][i]],
                  ahead[queue[c][i]], owed, slack)
  <1>. DEFINE e == queue[c][i]
              o == Owed(c, i)
              s == Slack(c, i)
  <1>1. /\ age[e] \in Int /\ asked[e] \in Int /\ ahead[e] \in Int /\ delay[e] \in Int
        /\ i \in Int /\ o \in {0, 1} /\ s \in {0, 1}
        /\ Budget(age[e], delay[e], i, asked[e], ahead[e], o, s)
    BY EntryFacts
  <1>2. owed <= o /\ s <= slack
    OBVIOUS
  <1>. HIDE DEF e, o, s
  <1>3. Budget(age[e], delay[e], i, asked[e], ahead[e], owed, slack)
    BY <1>1, <1>2 DEF Budget
  <1> QED
    BY <1>3 DEF e

\* An entry has one place.
LEMMA OnePlace ==
    ASSUME IInv, NEW c \in Country, NEW i \in Place(c), NEW d \in Country, NEW j \in Place(d),
           queue[c][i] = queue[d][j]
    PROVE  c = d /\ i = j
  <1>1. queue[c] \in Seq(Entry) /\ queue[d] \in Seq(Entry)
    BY DEF IInv, TypeOK
  <1>2. queue[c][i] \in ToSet(queue[c]) /\ queue[d][j] \in ToSet(queue[d])
    BY <1>1, ToSetMembers DEF Place
  <1>3. c = d
    BY <1>2 DEF IInv, ExactlyOnce
  <1>4. i \in DOMAIN queue[c] /\ j \in DOMAIN queue[c]
    BY <1>1, <1>3 DEF Place
  <1> QED
    BY <1>3, <1>4 DEF IInv, ExactlyOnce

-------------------------------------------------------------------------------
(* The invariant holds initially and every action preserves it. *)

LEMMA InitInvariant == Init => IInv
  <1> SUFFICES ASSUME Init PROVE IInv
    OBVIOUS
  <1>1. /\ \A c \in Country : queue[c] = <<>> /\ capacity[c] = 0
        /\ doomed = <<>> /\ fired = <<>> /\ discarded = {} /\ pc = "idle"
        /\ \A e \in Entry : asked[e] = 0 /\ age[e] = 0
    BY DEF Init
  <1>2. ToSet(<<>>) = {}
    BY DEF ToSet
  <1>3. TypeOK
    <2>1. /\ queue \in [Country -> Seq(Entry)] /\ capacity \in [Country -> Nat]
          /\ delay \in [Entry -> Int] /\ asked \in [Entry -> Nat]
          /\ ahead \in [Entry -> Nat] /\ age \in [Entry -> Nat]
      BY DEF Init
    <2>2. country \in Country
      BY CountryQueueAssumption DEF CountryQueueAssumption, Init, Country
    <2> QED
      BY <2>1, <2>2 DEF Init, TypeOK, OutOfBuffer
  <1>4. \A c \in Country : Place(c) = {} /\ DOMAIN queue[c] = {} /\ Len(queue[c]) = 0
    BY <1>1 DEF Place
  <1>5. Pending = {}
    BY <1>1, <1>2 DEF Pending
  <1>6. ExactlyOnce
    BY <1>1, <1>2, <1>4, <1>5 DEF ExactlyOnce, Created
  <1>7. /\ FiresOnTime /\ ScanBoundedByCapacity /\ Scanning /\ Firing
        /\ Unborn /\ Listed /\ Resting
    BY <1>1, <1>2 DEF FiresOnTime, ScanBoundedByCapacity, Scanning, Firing, Unborn,
       Listed, Resting
  <1>8. TimersRun /\ InBudget /\ Fitting
    BY <1>1, <1>4 DEF TimersRun, InBudget, Fitting
  <1> QED
    BY <1>3, <1>6, <1>7, <1>8 DEF IInv

\* Steps that move no entry between the vectors and the lists.
LEMMA StillOnce ==
    ASSUME IInv, UNCHANGED <<queue, doomed, fired, discarded, asked>>
    PROVE  ExactlyOnce' /\ Listed' /\ Pending' = Pending /\ \A c : Place(c)' = Place(c)
  <1>1. Pending' = Pending /\ \A c : Place(c)' = Place(c)
    BY DEF Pending, Place
  <1>2. \A e : Created(e)' <=> Created(e)
    BY DEF Created
  <1> QED
    BY <1>1, <1>2 DEF IInv, ExactlyOnce, Listed

\* A day begins: it is charged to every entry, and all scans are still to come.
LEMMA StartDayPreserves == IInv /\ StartDay => IInv'
  <1> SUFFICES ASSUME IInv, StartDay PROVE IInv'
    OBVIOUS
  <1>1. /\ pc = "idle" /\ pc' = "scan" /\ country' = 1 /\ iter' = 1
        /\ UNCHANGED <<queue, capacity, delay, edi, doomed, fired, discarded, asked, ahead>>
        /\ unseen' = ToSet(queue[1]) /\ room' = capacity[1]
    BY DEF StartDay, Enter, Begin
  <1>2. TypeOK /\ doomed = <<>> /\ ToSet(doomed) = {} /\ Len(doomed) = 0
    <2>1. doomed = <<>>
      BY <1>1 DEF IInv, Resting
    <2> QED
      BY <2>1 DEF IInv, ToSet
  <1>3. /\ age' \in [Entry -> Nat]
        /\ \A e \in Entry : age'[e] = IF e \in Pending THEN age[e] + 1 ELSE age[e]
    BY <1>2 DEF StartDay, TypeOK
  <1>4. 1 \in Country
    BY CountryQueueAssumption DEF CountryQueueAssumption, Country
  <1>5. TypeOK'
    <2>1. unseen' \subseteq Entry /\ room' \in Nat
      BY <1>1, <1>2, <1>4, ToSetMembers DEF TypeOK
    <2> QED
      BY <1>1, <1>2, <1>3, <1>4, <2>1 DEF TypeOK
  <1>6. ExactlyOnce' /\ Listed' /\ \A c : Place(c)' = Place(c)
    BY <1>1, StillOnce
  <1>7. FiresOnTime'
    <2>1. \A e \in ToSet(fired) : e \in Entry /\ e \notin Pending
      BY <1>2, ToSetMembers DEF IInv, TypeOK, ExactlyOnce
    <2> QED
      BY <1>1, <1>3, <2>1 DEF IInv, FiresOnTime
  <1>8. ScanBoundedByCapacity' /\ Scanning' /\ Firing' /\ Resting'
    <2>1. queue[1] \in Seq(Entry) /\ Len(queue[1]) \in Nat /\ capacity[1] \in Nat
      BY <1>2, <1>4 DEF TypeOK
    <2> QED
      BY <1>1, <1>2, <2>1 DEF ScanBoundedByCapacity, Scanning, Firing, Resting
  <1>9. Unborn' /\ Fitting'
    <2>1. \A e \in Entry : ~Created(e) => e \notin Pending
      BY DEF IInv, ExactlyOnce
    <2> QED
      BY <1>1, <1>3, <2>1 DEF IInv, Unborn, Fitting, Created
  <1>10. TimersRun'
    BY <1>1, <1>6 DEF IInv, TimersRun
  <1>11. InBudget'
    <2> SUFFICES ASSUME NEW c \in Country, NEW i \in Place(c)
                 PROVE  Budget(age'[queue[c][i]], delay[queue[c][i]], i, asked[queue[c][i]],
                               ahead[queue[c][i]], Owed(c, i)', Slack(c, i)')
      BY <1>1, <1>6 DEF InBudget
    <2> DEFINE e == queue[c][i]
    <2>1. /\ age[e] \in Nat /\ asked[e] \in Nat /\ ahead[e] \in Nat /\ delay[e] \in Int
          /\ i \in Nat /\ e \in Entry /\ e \in Pending
          /\ Budget(age[e], delay[e], i, asked[e], ahead[e], Owed(c, i), Slack(c, i))
      BY <1>2, EntryFacts
    <2>2. Owed(c, i) = 0 /\ Slack(c, i) = 0
      BY <1>1, <1>2 DEF Owed, Slack, Due, Gap
    <2>3. Due(c, i)'
      BY <1>1, <2>1 DEF Due, Country, Place, OutOfBuffer
    <2>4. Owed(c, i)' = 1 /\ Slack(c, i)' = 1
      BY <2>3 DEF Owed, Slack
    <2>5. age'[e] = age[e] + 1
      BY <1>3, <2>1
    <2> HIDE DEF e
    <2>6. Budget(age[e] + 1, delay[e], i, asked[e], ahead[e], 1, 1)
      <3>1. Budget(age[e], delay[e], i, asked[e], ahead[e], 0, 0)
        BY <2>1, <2>2
      <3>2. /\ age[e] \in Int /\ asked[e] \in Int /\ ahead[e] \in Int /\ delay[e] \in Int
            /\ i \in Int
        BY <2>1
      <3> QED
        BY <3>1, <3>2, BudgetOfADay
    <2> QED
      BY <2>4, <2>5, <2>6 DEF e
  <1> QED
    BY <1>5, <1>6, <1>7, <1>8, <1>9, <1>10, <1>11 DEF IInv

\* An entry that fires or is discarded leaves the pending ones for the list.
LEMMA DoomedOnce ==
    ASSUME IInv, NEW e \in Pending, e \in Entry, UNCHANGED <<queue, asked>>,
           doomed' = Append(doomed, e),
           \/ fired' = fired /\ discarded' = discarded \cup {e}
           \/ fired' = Append(fired, e) /\ discarded' = discarded
    PROVE  /\ doomed' \in Seq(Entry) /\ Len(doomed') = Len(doomed) + 1
           /\ ToSet(doomed') = ToSet(doomed) \cup {e}
           /\ fired' \in Seq(Entry)
           /\ ToSet(fired') \cup discarded' = ToSet(fired) \cup discarded \cup {e}
           /\ \A x \in ToSet(fired') : x \in ToSet(fired) \/ x = e
           /\ Pending' = Pending \ {e}
           /\ ExactlyOnce' /\ Listed'
  <1>1. doomed \in Seq(Entry) /\ fired \in Seq(Entry)
    BY DEF IInv, TypeOK
  <1>2. /\ doomed' \in Seq(Entry) /\ Len(doomed') = Len(doomed) + 1
        /\ ToSet(doomed') = ToSet(doomed) \cup {e}
    BY <1>1, AppendMembers
  <1>3. e \notin ToSet(fired) /\ e \notin discarded
    BY DEF IInv, ExactlyOnce
  <1>4. /\ fired' \in Seq(Entry)
        /\ ToSet(fired') = ToSet(fired) \/ ToSet(fired') = ToSet(fired) \cup {e}
        /\ ToSet(fired') \cup discarded' = ToSet(fired) \cup discarded \cup {e}
        /\ ToSet(fired') \cap discarded' = {}
        /\ \A i, j \in DOMAIN fired' : fired'[i] = fired'[j] => i = j
    <2>0. /\ \A i, j \in DOMAIN fired : fired[i] = fired[j] => i = j
          /\ ToSet(fired) \cap discarded = {}
      BY DEF IInv, ExactlyOnce
    <2>1. CASE fired' = fired /\ discarded' = discarded \cup {e}
      BY <1>1, <1>3, <2>0, <2>1
    <2>2. CASE fired' = Append(fired, e) /\ discarded' = discarded
      <3>1. /\ fired' \in Seq(Entry) /\ Len(fired') = Len(fired) + 1 /\ Len(fired) \in Nat
            /\ \A i \in 1 .. Len(fired) : fired'[i] = fired[i]
            /\ fired'[Len(fired) + 1] = e
            /\ ToSet(fired') = ToSet(fired) \cup {e}
        BY <1>1, <2>2, AppendMembers
      <3>2. \A i \in 1 .. Len(fired) : fired[i] # e
        BY <1>1, <1>3, ToSetMembers
      <3>3. DOMAIN fired = 1 .. Len(fired) /\ DOMAIN fired' = 1 .. Len(fired) + 1
        BY <1>1, <3>1
      <3>4. \A i, j \in DOMAIN fired' : fired'[i] = fired'[j] => i = j
        <4>1. \A i, j \in 1 .. Len(fired) : fired[i] = fired[j] => i = j
          BY <2>0, <3>3
        <4> QED
          BY <3>1, <3>2, <3>3, <4>1
      <3> QED
        BY <1>3, <2>0, <2>2, <3>1, <3>4
    <2> QED
      BY <2>1, <2>2
  <1>5. Pending' = Pending \ {e}
    BY <1>2 DEF Pending
  <1>6. ExactlyOnce'
    <2>1. /\ \A c \in Country : \A i, j \in DOMAIN queue'[c] :
                queue'[c][i] = queue'[c][j] => i = j
          /\ \A c, d \in Country : c # d => ToSet(queue'[c]) \cap ToSet(queue'[d]) = {}
      BY DEF IInv, ExactlyOnce
    <2>2. Pending' \cap (ToSet(fired') \cup discarded') = {}
      BY <1>4, <1>5 DEF IInv, ExactlyOnce
    <2>3. \A x \in Entry : Created(x)' <=> x \in Pending' \cup ToSet(fired') \cup discarded'
      <3>1. \A x \in Entry : Created(x) <=> x \in Pending \cup ToSet(fired) \cup discarded
        BY DEF IInv, ExactlyOnce
      <3>2. Pending' \cup ToSet(fired') \cup discarded' = Pending \cup ToSet(fired) \cup discarded
        BY <1>4, <1>5
      <3>3. \A x \in Entry : Created(x)' <=> Created(x)
        BY DEF Created
      <3> QED
        BY <3>1, <3>2, <3>3
    <2> QED
      BY <1>4, <2>1, <2>2, <2>3 DEF ExactlyOnce
  <1>7. Listed'
    BY <1>2, <1>4 DEF IInv, Listed
  <1> QED
    BY <1>2, <1>4, <1>5, <1>6, <1>7

\* What is known of the entry the loop loads.
LEMMA LoadFacts ==
    ASSUME IInv, NEW e \in Entry, Load(e)
    PROVE  /\ pc = "scan" /\ country \in Country /\ iter \in Place(country)
           /\ e = queue[country][iter] /\ e \notin ToSet(doomed) /\ e \in Pending
           /\ iter \in Nat /\ iter' = iter + 1 /\ iter # OutOfBuffer
           /\ iter <= capacity[country] /\ Len(doomed) \in Nat
           /\ unseen' \subseteq Entry
           /\ \A c \in Country : \A i \in Place(c) : queue[c][i] = e => c = country /\ i = iter
  <1>1. /\ pc = "scan" /\ country \in Country /\ queue[country] \in Seq(Entry)
        /\ iter \in DOMAIN Vector /\ e = queue[country][iter] /\ iter' = iter + 1
        /\ unseen' \subseteq Entry
    BY DEF Load, IInv, TypeOK, Vector
  <1>2. iter \in Place(country) /\ iter \in Nat /\ iter # OutOfBuffer
    BY <1>1 DEF Vector, Place, OutOfBuffer
  <1>3. e \notin ToSet(doomed)
    BY <1>1, <1>2 DEF IInv, Scanning, Vector
  <1>4. e \in Pending
    BY <1>1, <1>2, <1>3, EntryFacts
  <1>5. iter <= capacity[country]
    BY <1>1, <1>2 DEF IInv, TypeOK, Fitting, Place
  <1>6. \A c \in Country : \A i \in Place(c) : queue[c][i] = e => c = country /\ i = iter
    BY <1>1, <1>2, OnePlace
  <1>7. Len(doomed) \in Nat
    BY DEF IInv, TypeOK
  <1> QED
    BY <1>1, <1>2, <1>3, <1>4, <1>5, <1>6, <1>7

\* A discarded entry goes to the list; the others owe and are owed as before.
LEMMA DiscardPreserves == IInv /\ Discard => IInv'
  <1> SUFFICES ASSUME IInv, NEW e \in Entry, Load(e),
                      doomed' = Append(doomed, e), discarded' = discarded \cup {e},
                      UNCHANGED <<queue, capacity, delay, pc, country, edi, fired,
                                  asked, ahead, age, room>>
               PROVE  IInv'
    BY DEF Discard
  <1>1. /\ pc = "scan" /\ country \in Country /\ iter \in Place(country)
        /\ e = queue[country][iter] /\ e \notin ToSet(doomed) /\ e \in Pending
        /\ iter \in Nat /\ iter' = iter + 1 /\ iter # OutOfBuffer
        /\ iter <= capacity[country] /\ Len(doomed) \in Nat
        /\ unseen' \subseteq Entry
        /\ \A c \in Country : \A i \in Place(c) : queue[c][i] = e => c = country /\ i = iter
    BY LoadFacts
  <1>2. /\ doomed' \in Seq(Entry) /\ Len(doomed') = Len(doomed) + 1
        /\ ToSet(doomed') = ToSet(doomed) \cup {e}
        /\ ExactlyOnce' /\ Listed'
    BY <1>1, DoomedOnce
  <1>3. TypeOK'
    <2>1. iter' \in Nat /\ discarded' \subseteq Entry
      BY <1>1 DEF IInv, TypeOK
    <2> QED
      BY <1>1, <1>2, <2>1 DEF IInv, TypeOK
  <1>4. \A c : Place(c)' = Place(c)
    BY DEF Place
  <1>5. FiresOnTime' /\ Unborn' /\ Fitting' /\ Resting' /\ Firing'
    BY <1>1 DEF IInv, FiresOnTime, Unborn, Fitting, Resting, Firing, Created
  <1>6. iter <= Len(Vector) /\ Len(doomed) < iter /\ capacity[country] = room
    BY <1>1 DEF IInv, Scanning, Place, Vector
  <1>7. ScanBoundedByCapacity'
    BY <1>1, <1>2, <1>6 DEF IInv, TypeOK, ScanBoundedByCapacity
  <1>8. Scanning'
    <2>1. \A i \in Place(country) : Vector[i] \in ToSet(doomed') => i < iter + 1
      <3> SUFFICES ASSUME NEW i \in Place(country), Vector[i] \in ToSet(doomed')
                   PROVE  i < iter + 1
        OBVIOUS
      <3>1. CASE Vector[i] = e
        <4>1. queue[country][i] = e
          BY <3>1 DEF Vector
        <4>2. i = iter
          BY <1>1, <4>1
        <4> QED
          BY <1>1, <4>2
      <3>2. CASE Vector[i] \in ToSet(doomed)
        <4>1. i < iter
          BY <1>1, <3>2 DEF IInv, Scanning
        <4> QED
          BY <1>1, <4>1 DEF Place
      <3> QED
        BY <1>2, <3>1, <3>2
    <2>2. Vector' = Vector
      BY DEF Vector
    <2>3. iter + 1 <= Len(Vector) + 1 /\ Len(doomed) + 1 < iter + 1
      BY <1>1, <1>6 DEF IInv, TypeOK, Vector
    <2> QED
      BY <1>1, <1>2, <1>4, <1>6, <2>1, <2>2, <2>3 DEF Scanning
  <1>9. TimersRun'
    BY <1>1, <1>2, <1>4 DEF IInv, TimersRun
  <1>10. InBudget'
    <2> SUFFICES ASSUME NEW c \in Country, NEW i \in Place(c), queue[c][i] \notin ToSet(doomed')
                 PROVE  Budget(age[queue[c][i]], delay[queue[c][i]], i, asked[queue[c][i]],
                               ahead[queue[c][i]], Owed(c, i)', Slack(c, i)')
      BY <1>4 DEF InBudget
    <2>1. i \in Nat /\ ~(c = country /\ i = iter)
      BY <1>1, <1>2, EntryFacts
    <2>2. Due(c, i)' <=> Due(c, i)
      BY <1>1, <2>1 DEF Due, OutOfBuffer
    <2>3. Gap(c, i) => Gap(c, i)'
      BY <1>2, <1>4 DEF Gap
    <2>4. PICK owed \in {0, 1}, slack \in {0, 1} :
             owed = Owed(c, i)' /\ slack = Slack(c, i)'
      BY DEF Owed, Slack
    <2>5. owed <= Owed(c, i) /\ Slack(c, i) <= slack
      BY <2>2, <2>3, <2>4 DEF Owed, Slack
    <2>6. queue[c][i] \notin ToSet(doomed)
      BY <1>2
    <2> QED
      BY <2>4, <2>5, <2>6, PassedBy
  <1> QED
    BY <1>2, <1>3, <1>5, <1>7, <1>8, <1>9, <1>10 DEF IInv

\* Counting an entry down pays the day it was owed.
LEMMA CountDownPreserves == IInv /\ CountDown => IInv'
  <1> SUFFICES ASSUME IInv, NEW e \in Entry, Load(e),
                      delay' = [delay EXCEPT ![e] = @ - 1],
                      IF Expired(delay[e] - 1) THEN pc' = "fire" /\ edi' = e
                                               ELSE UNCHANGED <<pc, edi>>,
                      UNCHANGED <<queue, capacity, country, doomed, fired, discarded,
                                  asked, ahead, age, room>>
               PROVE  IInv'
    BY DEF CountDown
  <1>1. /\ pc = "scan" /\ country \in Country /\ iter \in Place(country)
        /\ e = queue[country][iter] /\ e \notin ToSet(doomed) /\ e \in Pending
        /\ iter \in Nat /\ iter' = iter + 1 /\ iter # OutOfBuffer
        /\ iter <= capacity[country] /\ Len(doomed) \in Nat
        /\ unseen' \subseteq Entry
        /\ \A c \in Country : \A i \in Place(c) : queue[c][i] = e => c = country /\ i = iter
    BY LoadFacts
  <1>2. /\ delay' \in [Entry -> Int] /\ delay[e] \in Int /\ delay'[e] = delay[e] - 1
        /\ \A x \in Entry : x # e => delay'[x] = delay[x]
    BY DEF IInv, TypeOK
  <1>3. delay[e] > 0
    BY <1>1 DEF IInv, TimersRun
  <1>4. \/ pc' = "fire" /\ edi' = e /\ delay'[e] = 0
        \/ pc' = "scan" /\ edi' = edi /\ delay'[e] > 0
    BY <1>1, <1>2, <1>3 DEF Expired
  <1>5. TypeOK'
    <2>1. iter' \in Nat /\ edi' \in Entry \cup {None} /\ pc' \in {"idle", "scan", "fire", "erase"}
      BY <1>1, <1>4 DEF IInv, TypeOK
    <2> QED
      BY <1>1, <1>2, <2>1 DEF IInv, TypeOK
  <1>6. ExactlyOnce' /\ Listed' /\ \A c : Place(c)' = Place(c)
    BY StillOnce
  <1>7. FiresOnTime' /\ Unborn' /\ Fitting' /\ Resting'
    BY <1>1, <1>4 DEF IInv, FiresOnTime, Unborn, Fitting, Resting, Created
  <1>8. /\ iter <= Len(Vector) /\ Len(doomed) < iter /\ capacity[country] = room
        /\ \A i \in Place(country) : Vector[i] \in ToSet(doomed) => i < iter
        /\ Vector' = Vector
    BY <1>1 DEF IInv, Scanning, Place, Vector
  <1>9. ScanBoundedByCapacity'
    BY <1>1, <1>4 DEF IInv, ScanBoundedByCapacity
  <1>10. Scanning'
    <2>1. \A i \in Place(country) : Vector[i] \in ToSet(doomed) => i < iter + 1
      BY <1>1, <1>8 DEF Place
    <2>2. iter + 1 <= Len(Vector) + 1 /\ Len(doomed) < iter + 1
      BY <1>1, <1>8 DEF IInv, TypeOK, Vector
    <2> QED
      BY <1>1, <1>6, <1>8, <2>1, <2>2 DEF Scanning
  <1>11. Firing'
    <2> SUFFICES ASSUME pc' = "fire" PROVE \E p \in Place(country) : FiresAt(p)'
      BY <1>6 DEF Firing
    <2>1. PICK p \in Place(country) : p = iter
      BY <1>1
    <2>2. /\ Vector[p] = e /\ edi' = e /\ e \notin ToSet(doomed)
          /\ iter' = p + 1 /\ p <= room /\ Len(doomed) < p
          /\ \A i \in Place(country) : Vector[i] \in ToSet(doomed) => i < p
      BY <1>1, <1>4, <1>8, <2>1 DEF Vector
    <2>3. FiresAt(p)'
      BY <1>6, <1>8, <2>2 DEF FiresAt
    <2> QED
      BY <2>3
  <1>12. TimersRun'
    <2> SUFFICES ASSUME NEW c \in Country, NEW i \in Place(c), queue[c][i] \notin ToSet(doomed)
                 PROVE  IF pc' = "fire" /\ queue[c][i] = edi' THEN delay'[queue[c][i]] = 0
                                                             ELSE delay'[queue[c][i]] > 0
      BY <1>6 DEF TimersRun
    <2>1. CASE queue[c][i] = e
      BY <1>4, <2>1
    <2>2. CASE queue[c][i] # e
      <3>1. queue[c][i] \in Entry /\ delay[queue[c][i]] > 0
        BY <1>1, EntryFacts DEF IInv, TimersRun
      <3> QED
        BY <1>2, <1>4, <2>2, <3>1
    <2> QED
      BY <2>1, <2>2
  <1>13. InBudget'
    <2> SUFFICES ASSUME NEW c \in Country, NEW i \in Place(c), queue[c][i] \notin ToSet(doomed)
                 PROVE  Budget(age[queue[c][i]], delay'[queue[c][i]], i, asked[queue[c][i]],
                               ahead[queue[c][i]], Owed(c, i)', Slack(c, i)')
      BY <1>6 DEF InBudget
    <2>1. i \in Nat /\ queue[c][i] \in Entry
      BY EntryFacts
    <2>2. PICK owed \in {0, 1}, slack \in {0, 1} :
             owed = Owed(c, i)' /\ slack = Slack(c, i)'
      BY DEF Owed, Slack
    <2>3. CASE queue[c][i] = e
      <3>1. c = country /\ i = iter
        BY <1>1, <2>3
      <3>2. Due(c, i)
        BY <1>1, <2>1, <3>1 DEF Due
      <3>3. ~Due(c, i)'
        <4>1. CASE pc' = "scan"
          BY <1>1, <2>1, <3>1, <4>1 DEF Due, Country
        <4>2. CASE pc' = "fire"
          <5>1. edi' = e
            BY <1>4, <4>2
          <5>2. ~(\E p \in Place(c) : queue[c][p] = e /\ p < i)
            BY <1>1, <2>1, <3>1
          <5>3. ~(c > country)
            BY <3>1 DEF Country
          <5> QED
            BY <1>6, <3>1, <4>2, <5>1, <5>2, <5>3 DEF Due
        <4> QED
          BY <1>4, <4>1, <4>2
      <3>4. Owed(c, i) = 1 /\ Slack(c, i) = 1 /\ owed = 0
        BY <2>2, <3>2, <3>3 DEF Owed, Slack
      <3>5. /\ age[e] \in Int /\ asked[e] \in Int /\ ahead[e] \in Int /\ delay[e] \in Int
            /\ i \in Int /\ Budget(age[e], delay[e], i, asked[e], ahead[e], 1, 1)
        <4>1. /\ age[e] \in Nat /\ asked[e] \in Nat /\ ahead[e] \in Nat /\ delay[e] \in Int
              /\ Budget(age[e], delay[e], i, asked[e], ahead[e], Owed(c, i), Slack(c, i))
          BY <1>1, <2>3, EntryFacts
        <4> QED
          BY <2>1, <3>4, <4>1
      <3>6. Budget(age[e], delay[e] - 1, i, asked[e], ahead[e], 0, slack)
        BY <3>5 DEF Budget
      <3> QED
        BY <1>2, <2>2, <2>3, <3>4, <3>6
    <2>4. CASE queue[c][i] # e
      <3>1. ~(c = country /\ i = iter)
        BY <1>1, <2>4
      <3>2. Due(c, i)' <=> Due(c, i)
        <4>1. CASE pc' = "scan"
          BY <1>1, <2>1, <3>1, <4>1 DEF Due, OutOfBuffer
        <4>2. CASE pc' = "fire"
          <5>1. edi' = e
            BY <1>4, <4>2
          <5>2. c = country =>
                   ((\E p \in Place(c) : queue[c][p] = e /\ p < i) <=> iter <= i)
            BY <1>1, <2>1, <3>1
          <5> QED
            BY <1>1, <1>6, <4>2, <5>1, <5>2 DEF Due
        <4> QED
          BY <1>4, <4>1, <4>2
      <3>3. Gap(c, i)' <=> Gap(c, i)
        BY <1>6 DEF Gap
      <3>4. owed <= Owed(c, i) /\ Slack(c, i) <= slack
        BY <2>2, <3>2, <3>3 DEF Owed, Slack
      <3>5. delay'[queue[c][i]] = delay[queue[c][i]]
        BY <1>2, <2>1, <2>4
      <3> QED
        BY <2>2, <3>4, <3>5, PassedBy
    <2> QED
      BY <2>3, <2>4
  <1> QED
    BY <1>5, <1>6, <1>7, <1>9, <1>10, <1>11, <1>12, <1>13 DEF IInv

\* Steps that change neither the entries nor the lists: the scan moves on.
LEMMA BudgetStays ==
    ASSUME IInv, UNCHANGED <<queue, doomed, delay, age, asked, ahead>>,
           \A c \in Country : \A i \in Place(c) :
               queue[c][i] \notin ToSet(doomed) =>
                   /\ Due(c, i)' => Due(c, i)
                   /\ Due(c, i) => Due(c, i)' \/ Gap(c, i)'
                   /\ Gap(c, i) => Due(c, i)' \/ Gap(c, i)'
    PROVE  InBudget'
  <1>1. \A c : Place(c)' = Place(c)
    BY DEF Place
  <1> SUFFICES ASSUME NEW c \in Country, NEW i \in Place(c), queue[c][i] \notin ToSet(doomed)
               PROVE  Budget(age[queue[c][i]], delay[queue[c][i]], i, asked[queue[c][i]],
                             ahead[queue[c][i]], Owed(c, i)', Slack(c, i)')
    BY <1>1 DEF InBudget
  <1>2. PICK owed \in {0, 1}, slack \in {0, 1} : owed = Owed(c, i)' /\ slack = Slack(c, i)'
    BY DEF Owed, Slack
  <1>3. owed <= Owed(c, i) /\ Slack(c, i) <= slack
    BY <1>2 DEF Owed, Slack
  <1> QED
    BY <1>2, <1>3, PassedBy

\* Leaving the loop, the scan owes nothing but to entries behind a gap.
LEMMA EndScanPreserves == IInv /\ EndScan => IInv'
  <1> SUFFICES ASSUME IInv, EndScan PROVE IInv'
    OBVIOUS
  <1>1. /\ pc = "scan" /\ pc' = "erase" /\ iter' = OutOfBuffer /\ iter \notin DOMAIN Vector
        /\ UNCHANGED <<queue, capacity, delay, country, edi, doomed, fired, discarded,
                       asked, ahead, age, unseen, room>>
    BY DEF EndScan
  <1>2. country \in Country /\ queue[country] \in Seq(Entry) /\ iter \in Nat
    BY DEF IInv, TypeOK
  <1>3. TypeOK'
    BY <1>1 DEF IInv, TypeOK, OutOfBuffer
  <1>4. ExactlyOnce' /\ Listed' /\ \A c : Place(c)' = Place(c)
    BY <1>1, StillOnce
  <1>5. /\ FiresOnTime' /\ Unborn' /\ Fitting' /\ Resting' /\ Firing' /\ Scanning'
        /\ ScanBoundedByCapacity'
    BY <1>1 DEF IInv, FiresOnTime, Unborn, Fitting, Resting, Firing, Scanning,
       ScanBoundedByCapacity, Created
  <1>6. TimersRun'
    BY <1>1, <1>4 DEF IInv, TimersRun
  <1>7. \A i \in Place(country) : ~(iter # OutOfBuffer /\ iter <= i)
    BY <1>1, <1>2 DEF Place, Vector, OutOfBuffer
  <1>8. \A c \in Country : \A i \in Place(c) :
           (Due(c, i)' <=> Due(c, i)) /\ (Gap(c, i)' <=> Gap(c, i))
    BY <1>1, <1>2, <1>4, <1>7 DEF Due, Gap, Country
  <1>9. InBudget'
    BY <1>1, <1>8, BudgetStays
  <1> QED
    BY <1>3, <1>4, <1>5, <1>6, <1>9 DEF IInv

\* The deletion list is empty and the next scan begins, as the day owed it.
LEMMA NextCountryPreserves == IInv /\ NextCountry => IInv'
  <1> SUFFICES ASSUME IInv, NextCountry PROVE IInv'
    OBVIOUS
  <1>1. PICK c2 \in Country : c2 = country + 1
    BY CountryQueueAssumption DEF CountryQueueAssumption, NextCountry, IInv, TypeOK, Country
  <1>2. /\ pc = "erase" /\ pc' = "scan" /\ country' = c2 /\ iter' = 1 /\ doomed = <<>>
        /\ unseen' = ToSet(queue[c2]) /\ room' = capacity[c2]
        /\ UNCHANGED <<queue, capacity, delay, edi, doomed, fired, discarded, asked,
                       ahead, age>>
    BY <1>1 DEF NextCountry, Enter, Begin
  <1>3. country \in Country /\ queue[c2] \in Seq(Entry) /\ capacity[c2] \in Nat
        /\ Len(queue[c2]) \in Nat
    BY DEF IInv, TypeOK
  <1>4. ToSet(doomed) = {} /\ Len(doomed) = 0
    BY <1>2 DEF ToSet
  <1>5. TypeOK'
    <2>1. unseen' \subseteq Entry
      BY <1>2, <1>3, ToSetMembers
    <2> QED
      BY <1>2, <1>3, <2>1 DEF IInv, TypeOK
  <1>6. ExactlyOnce' /\ Listed' /\ \A c : Place(c)' = Place(c)
    BY <1>2, StillOnce
  <1>7. FiresOnTime' /\ Unborn' /\ Fitting' /\ Resting' /\ Firing'
    BY <1>2 DEF IInv, FiresOnTime, Unborn, Fitting, Resting, Firing, Created
  <1>8. Scanning' /\ ScanBoundedByCapacity'
    BY <1>2, <1>3, <1>4 DEF Scanning, ScanBoundedByCapacity
  <1>9. TimersRun'
    BY <1>2, <1>6 DEF IInv, TimersRun
  <1>10. ASSUME NEW c \in Country, NEW i \in Place(c)
         PROVE  (Due(c, i)' <=> Due(c, i)) /\ ~Gap(c, i)
    <2>1. i \in Nat /\ i >= 1
      BY <1>3 DEF Place
    <2>2. Due(c, i) <=> c > country
      BY <1>2 DEF Due
    <2>3. Due(c, i)' <=> c > c2 \/ c = c2
      BY <1>2, <2>1 DEF Due, OutOfBuffer
    <2>4. c \in Int /\ country \in Int
      BY <1>3 DEF Country
    <2> QED
      BY <1>1, <1>4, <2>2, <2>3, <2>4 DEF Gap
  <1>11. InBudget'
    BY <1>2, <1>10, BudgetStays
  <1> QED
    BY <1>5, <1>6, <1>7, <1>8, <1>9, <1>11 DEF IInv

\* After the last country nothing is owed.
LEMMA EndDayPreserves == IInv /\ EndDay => IInv'
  <1> SUFFICES ASSUME IInv, EndDay PROVE IInv'
    OBVIOUS
  <1>1. /\ pc = "erase" /\ pc' = "idle" /\ doomed = <<>> /\ country = N /\ country' = 1
        /\ UNCHANGED <<queue, capacity, delay, iter, edi, doomed, fired, discarded,
                       asked, ahead, age, unseen, room>>
    BY DEF EndDay
  <1>2. 1 \in Country /\ N \in Nat
    BY CountryQueueAssumption DEF CountryQueueAssumption, Country
  <1>3. ToSet(doomed) = {}
    BY <1>1 DEF ToSet
  <1>4. TypeOK'
    BY <1>1, <1>2 DEF IInv, TypeOK
  <1>5. ExactlyOnce' /\ Listed' /\ \A c : Place(c)' = Place(c)
    BY <1>1, StillOnce
  <1>6. /\ FiresOnTime' /\ Unborn' /\ Fitting' /\ Resting' /\ Firing' /\ Scanning'
        /\ ScanBoundedByCapacity'
    BY <1>1 DEF IInv, FiresOnTime, Unborn, Fitting, Resting, Firing, Scanning,
       ScanBoundedByCapacity, Created
  <1>7. TimersRun'
    BY <1>1, <1>5 DEF IInv, TimersRun
  <1>8. \A c \in Country : \A i \in Place(c) : ~Due(c, i) /\ ~Due(c, i)' /\ ~Gap(c, i)
    BY <1>1, <1>2, <1>3 DEF Due, Gap, Country
  <1>9. InBudget'
    BY <1>1, <1>8, BudgetStays
  <1> QED
    BY <1>4, <1>5, <1>6, <1>7, <1>9 DEF IInv

\* The fired entry goes to the list: from now on it is a gap in front of those
\* behind it, whether the scan still comes to them or not.
LEMMA FiredPreserves == IInv /\ Fired => IInv'
  <1> SUFFICES ASSUME IInv, Fired PROVE IInv'
    OBVIOUS
  <1>1. /\ pc = "fire" /\ pc' = "scan" /\ edi' = None
        /\ fired' = Append(fired, edi) /\ doomed' = Append(doomed, edi)
        /\ UNCHANGED <<queue, capacity, delay, country, iter, discarded, asked, ahead,
                       age, unseen, room>>
    BY DEF Fired
  <1>2. country \in Country /\ queue[country] \in Seq(Entry)
    BY DEF IInv, TypeOK
  <1>3. PICK p \in Place(country) : FiresAt(p)
    BY <1>1 DEF IInv, Firing
  <1>4. /\ queue[country][p] = edi /\ edi \notin ToSet(doomed)
        /\ iter \in {OutOfBuffer, p + 1} /\ p <= room /\ Len(doomed) < p
        /\ iter # OutOfBuffer => capacity[country] = room
        /\ \A i \in Place(country) : queue[country][i] \in ToSet(doomed) => i < p
    BY <1>3 DEF FiresAt, Vector
  <1>5. edi \in Entry /\ edi \in Pending /\ p \in Nat
    BY <1>2, <1>4, EntryFacts
  <1>6. /\ doomed' \in Seq(Entry) /\ Len(doomed') = Len(doomed) + 1
        /\ ToSet(doomed') = ToSet(doomed) \cup {edi}
        /\ fired' \in Seq(Entry)
        /\ \A x \in ToSet(fired') : x \in ToSet(fired) \/ x = edi
        /\ ExactlyOnce' /\ Listed'
    BY <1>1, <1>5, DoomedOnce
  <1>7. TypeOK'
    BY <1>1, <1>6 DEF IInv, TypeOK
  <1>8. (\A c : Place(c)' = Place(c)) /\ Vector' = Vector
    BY <1>1 DEF Place, Vector
  <1>9. \A c \in Country : \A i \in Place(c) : queue[c][i] = edi => c = country /\ i = p
    BY <1>2, <1>4, OnePlace
  <1>10. Len(doomed) \in Nat /\ room \in Nat
    BY DEF IInv, TypeOK
  <1>11. Unborn' /\ Fitting' /\ Resting' /\ Firing' /\ ScanBoundedByCapacity'
    BY <1>1, <1>4, <1>5, <1>6, <1>10 DEF IInv, Unborn, Fitting, Resting, Firing,
       ScanBoundedByCapacity, Created
  <1>12. Scanning'
    <2> SUFFICES ASSUME iter # OutOfBuffer
                 PROVE  /\ iter <= Len(Vector) + 1 /\ Len(doomed') < iter
                        /\ capacity[country] = room
                        /\ \A i \in Place(country) : Vector[i] \in ToSet(doomed') => i < iter
      BY <1>1, <1>8 DEF Scanning
    <2>1. iter = p + 1
      BY <1>4
    <2>2. iter <= Len(Vector) + 1
      BY <1>2, <1>5, <2>1 DEF Place, Vector
    <2>3. ASSUME NEW i \in Place(country), Vector[i] \in ToSet(doomed') PROVE i < iter
      <3>1. i = p \/ i < p
        BY <1>2, <1>4, <1>6, <1>9, <2>3 DEF Vector
      <3>2. i \in Nat
        BY <1>2 DEF Place
      <3> QED
        BY <1>5, <2>1, <3>1, <3>2
    <2> QED
      BY <1>4, <1>5, <1>6, <1>10, <2>1, <2>2, <2>3
  <1>13. FiresOnTime'
    <2>1. delay[edi] = 0
      BY <1>1, <1>2, <1>4 DEF IInv, TimersRun
    <2>2. /\ age[edi] \in Nat /\ asked[edi] \in Nat /\ ahead[edi] \in Nat
          /\ Owed(country, p) \in {0, 1} /\ Slack(country, p) \in {0, 1}
          /\ Budget(age[edi], 0, p, asked[edi], ahead[edi], Owed(country, p), Slack(country, p))
      BY <1>2, <1>4, <2>1, EntryFacts
    <2>3. Slack(country, p) = 1 => p >= 2
      <3>1. ~Due(country, p)
        <4>1. \A q \in Place(country) : queue[country][q] = edi => q = p
          BY <1>2, <1>9
        <4>2. ~(country > country)
          BY <1>2 DEF Country
        <4> QED
          BY <1>1, <1>5, <4>1, <4>2 DEF Due
      <3>2. Gap(country, p) => p >= 2
        BY <1>2, <1>5 DEF Gap, Place
      <3> QED
        BY <3>1, <3>2 DEF Slack
    <2>4. age[edi] \in asked[edi] - 1 .. asked[edi] + ahead[edi]
      BY <1>4, <1>5, <1>10, <2>2, <2>3 DEF Budget
    <2> QED
      BY <1>1, <1>6, <2>4 DEF IInv, FiresOnTime
  <1>14. TimersRun'
    <2> SUFFICES ASSUME NEW c \in Country, NEW i \in Place(c), queue[c][i] \notin ToSet(doomed')
                 PROVE  delay[queue[c][i]] > 0
      BY <1>1, <1>8 DEF TimersRun
    <2> QED
      BY <1>6 DEF IInv, TimersRun
  <1>15. InBudget'
    <2> SUFFICES ASSUME NEW c \in Country, NEW i \in Place(c), queue[c][i] \notin ToSet(doomed')
                 PROVE  Budget(age[queue[c][i]], delay[queue[c][i]], i, asked[queue[c][i]],
                               ahead[queue[c][i]], Owed(c, i)', Slack(c, i)')
      BY <1>1, <1>8 DEF InBudget
    <2>1. i \in Nat /\ queue[c][i] \notin ToSet(doomed)
      BY <1>6, EntryFacts
    <2>2. PICK owed \in {0, 1}, slack \in {0, 1} : owed = Owed(c, i)' /\ slack = Slack(c, i)'
      BY DEF Owed, Slack
    <2>3. Due(c, i)' => Due(c, i)
      <3>1. c = country /\ iter # OutOfBuffer /\ iter <= i =>
               \E q \in Place(c) : queue[c][q] = edi /\ q < i
        BY <1>4, <1>5, <2>1
      <3> QED
        BY <1>1, <3>1 DEF Due
    <2>4. Due(c, i) => Due(c, i)' \/ Gap(c, i)'
      <3>1. c = country /\ (\E q \in Place(c) : queue[c][q] = edi /\ q < i) => Gap(c, i)'
        BY <1>1, <1>6, <1>8 DEF Gap
      <3>2. c > country => Due(c, i)'
        BY <1>1 DEF Due
      <3> QED
        BY <1>1, <3>1, <3>2 DEF Due
    <2>5. Gap(c, i) => Gap(c, i)'
      BY <1>1, <1>6, <1>8 DEF Gap
    <2>6. owed <= Owed(c, i) /\ Slack(c, i) <= slack
      BY <2>2, <2>3, <2>4, <2>5 DEF Owed, Slack
    <2> QED
      BY <2>1, <2>2, <2>6, PassedBy
  <1> QED
    BY <1>6, <1>7, <1>11, <1>12, <1>13, <1>14, <1>15 DEF IInv

\* Erasing a doomed entry moves those behind it up, which is what they were owed.
LEMMA ErasePreserves == IInv /\ Erase => IInv'
  <1> SUFFICES ASSUME IInv, Erase PROVE IInv'
    OBVIOUS
  <1>1. /\ pc = "erase" /\ doomed # <<>> /\ doomed' = Tail(doomed)
        /\ UNCHANGED <<capacity, delay, pc, country, iter, edi, fired, discarded,
                       asked, ahead, age, unseen, room>>
    BY DEF Erase
  <1>2. country \in Country /\ queue[country] \in Seq(Entry) /\ doomed \in Seq(Entry)
        /\ queue \in [Country -> Seq(Entry)]
    BY DEF IInv, TypeOK
  <1>3. PICK h : h = Head(doomed)
    OBVIOUS
  <1>4. PICK q \in Place(country) :
           queue[country][q] = h /\ queue' = [queue EXCEPT ![country] = RemoveAt(queue[country], q)]
    <2>1. PICK q \in DOMAIN Vector :
             Vector[q] = Head(doomed) /\ queue' = [queue EXCEPT ![country] = RemoveAt(@, q)]
      BY DEF Erase
    <2>2. q \in Place(country)
      BY <1>2, <2>1 DEF Vector, Place
    <2> QED
      BY <1>3, <2>1, <2>2 DEF Vector
  <1>5. PICK n \in Nat : n = Len(queue[country]) /\ n >= 1
    BY <1>2, <1>4 DEF Place
  <1>6. /\ queue'[country] \in Seq(Entry) /\ Len(queue'[country]) = n - 1
        /\ \A j \in 1 .. n - 1 :
              queue'[country][j] = IF j < q THEN queue[country][j] ELSE queue[country][j + 1]
        /\ \A c \in Country : c # country => queue'[c] = queue[c]
    <2>1. q \in 1 .. Len(queue[country])
      BY DEF Place
    <2>2. queue'[country] = RemoveAt(queue[country], q)
      BY <1>2, <1>4
    <2> QED
      BY <1>2, <1>4, <1>5, <2>1, <2>2, RemoveAtShifts
  <1>6a. Place(country)' = 1 .. n - 1 /\ Place(country) = 1 .. n
    BY <1>1, <1>5, <1>6 DEF Place
  <1>7. ToSet(queue'[country]) = ToSet(queue[country]) \ {h}
    <2>1. \A i, j \in 1 .. Len(queue[country]) : queue[country][i] = queue[country][j] => i = j
      BY <1>2, OnePlace DEF Place
    <2>2. q \in 1 .. Len(queue[country])
      BY DEF Place
    <2> QED
      BY <1>2, <1>4, <2>1, <2>2, RemoveAtMembers
  <1>8. doomed' \in Seq(Entry) /\ ToSet(doomed) = {h} \cup ToSet(doomed')
    <2>1. /\ doomed' \in Seq(Entry) /\ Len(doomed') = Len(doomed) - 1 /\ Len(doomed) \in Nat
          /\ Len(doomed) >= 1 /\ doomed[1] = h
          /\ \A i \in 1 .. Len(doomed) - 1 : doomed'[i] = doomed[i + 1]
      BY <1>1, <1>2, <1>3
    <2>2. ASSUME NEW x \in ToSet(doomed) PROVE x = h \/ x \in ToSet(doomed')
      <3>1. PICK i \in 1 .. Len(doomed) : doomed[i] = x
        BY <1>2, ToSetMembers
      <3>2. CASE i = 1
        BY <2>1, <3>1, <3>2
      <3>3. CASE i # 1
        <4>1. PICK j \in 1 .. Len(doomed') : i = j + 1
          BY <2>1, <3>1, <3>3
        <4>2. doomed'[j] = x
          BY <2>1, <3>1, <4>1
        <4>3. PICK t \in Seq(Entry) : t = doomed'
          BY <2>1
        <4>4. x \in ToSet(t)
          BY <4>1, <4>2, <4>3, ToSetMembers
        <4> QED
          BY <4>3, <4>4
      <3> QED
        BY <3>2, <3>3
    <2>3. h \in ToSet(doomed)
      <3>1. 1 \in 1 .. Len(doomed)
        BY <2>1
      <3> QED
        BY <1>2, <2>1, <3>1, ToSetMembers
    <2>4. ASSUME NEW x \in ToSet(doomed') PROVE x \in ToSet(doomed)
      <3>1. PICK i \in 1 .. Len(doomed') : doomed'[i] = x
        BY <2>1, ToSetMembers
      <3>2. i + 1 \in 1 .. Len(doomed) /\ doomed[i + 1] = x
        BY <2>1, <3>1
      <3> QED
        BY <1>2, <3>2, ToSetMembers
    <2> QED
      BY <2>1, <2>2, <2>3, <2>4
  <1>9. TypeOK'
    <2>1. queue' \in [Country -> Seq(Entry)]
      BY <1>2, <1>4, <1>6
    <2> QED
      BY <1>1, <1>8, <2>1 DEF IInv, TypeOK
  <1>10. \A c \in Country : h \in ToSet(queue[c]) => c = country
    <2>1. h \in ToSet(queue[country])
      BY <1>2, <1>4, ToSetMembers DEF Place
    <2> QED
      BY <1>2, <2>1 DEF IInv, ExactlyOnce
  <1>11. \A c \in Country : ToSet(queue'[c]) = ToSet(queue[c]) \ {h}
    BY <1>6, <1>7, <1>10
  <1>12. Pending' = Pending
    <2>1. ASSUME NEW x PROVE x \in Pending' <=> x \in Pending
      <3>1. x \in Pending' <=> x \notin ToSet(doomed') /\ \E c \in Country : x \in ToSet(queue'[c])
        BY DEF Pending
      <3>2. x \in Pending <=> x \notin ToSet(doomed) /\ \E c \in Country : x \in ToSet(queue[c])
        BY DEF Pending
      <3> QED
        BY <1>8, <1>11, <3>1, <3>2
    <2> QED
      BY <2>1
  <1>13. ASSUME NEW j \in Place(country)'
         PROVE  \E i \in Place(country) :
                   /\ queue'[country][j] = queue[country][i] /\ queue[country][i] # h
                   /\ j \in 1 .. n - 1
                   /\ \/ j < q /\ i = j
                      \/ ~(j < q) /\ i = j + 1
    <2>1. j \in 1 .. n - 1
      BY <1>6a
    <2>2. q \in 1 .. n /\ Place(country) = 1 .. n
      BY <1>6a
    <2>3. PICK i \in Place(country) : (j < q /\ i = j) \/ (~(j < q) /\ i = j + 1)
      BY <2>1, <2>2
    <2>4. queue'[country][j] = queue[country][i] /\ i # q
      BY <1>6, <2>1, <2>2, <2>3
    <2>5. queue[country][i] # h
      BY <1>2, <1>4, <2>4, OnePlace
    <2> QED
      BY <2>1, <2>3, <2>4, <2>5
  <1>14. ExactlyOnce'
    <2>1. ASSUME NEW c \in Country, NEW i \in DOMAIN queue'[c], NEW j \in DOMAIN queue'[c],
                 queue'[c][i] = queue'[c][j]
          PROVE  i = j
      <3>1. CASE c = country
        <4>1. i \in Place(country)' /\ j \in Place(country)'
          BY <1>6a, <1>6, <3>1
        <4>2. PICK a \in Place(country), b \in Place(country) :
                 /\ queue'[country][i] = queue[country][a] /\ queue'[country][j] = queue[country][b]
                 /\ i \in 1 .. n - 1 /\ j \in 1 .. n - 1
                 /\ (i < q /\ a = i) \/ (~(i < q) /\ a = i + 1)
                 /\ (j < q /\ b = j) \/ (~(j < q) /\ b = j + 1)
          BY <1>13, <4>1
        <4>3. a = b
          BY <1>2, <2>1, <3>1, <4>2, OnePlace
        <4>4. q \in Int /\ i \in Int /\ j \in Int
          BY <4>2 DEF Place
        <4> QED
          BY <4>2, <4>3, <4>4
      <3>2. CASE c # country
        <4>1. queue'[c] = queue[c]
          BY <1>6, <3>2
        <4> QED
          BY <2>1, <4>1 DEF IInv, ExactlyOnce
      <3> QED
        BY <3>1, <3>2
    <2>2. \A c, d \in Country : c # d => ToSet(queue'[c]) \cap ToSet(queue'[d]) = {}
      BY <1>11 DEF IInv, ExactlyOnce
    <2>3. \A x : Created(x)' <=> Created(x)
      BY <1>1 DEF Created
    <2> QED
      BY <1>1, <1>12, <2>1, <2>2, <2>3 DEF IInv, ExactlyOnce
  <1>15. /\ FiresOnTime' /\ Unborn' /\ Resting' /\ Firing' /\ Scanning'
         /\ ScanBoundedByCapacity' /\ Listed'
    BY <1>1, <1>8 DEF IInv, FiresOnTime, Unborn, Resting, Firing, Scanning,
       ScanBoundedByCapacity, Listed, Created
  <1>16. Fitting'
    <2> SUFFICES ASSUME NEW c \in Country PROVE Len(queue'[c]) <= capacity[c]
      BY <1>1 DEF Fitting
    <2>1. Len(queue[c]) <= capacity[c] /\ capacity[c] \in Nat
      BY DEF IInv, Fitting, TypeOK
    <2> QED
      BY <1>5, <1>6, <2>1
  <1>17. TimersRun' /\ InBudget'
    <2> SUFFICES ASSUME NEW c \in Country, NEW j \in Place(c)', queue'[c][j] \notin ToSet(doomed')
                 PROVE  /\ delay[queue'[c][j]] > 0
                        /\ Budget(age[queue'[c][j]], delay[queue'[c][j]], j, asked[queue'[c][j]],
                                  ahead[queue'[c][j]], Owed(c, j)', Slack(c, j)')
      BY <1>1 DEF TimersRun, InBudget
    <2>1. PICK owed \in {0, 1}, slack \in {0, 1} : owed = Owed(c, j)' /\ slack = Slack(c, j)'
      BY DEF Owed, Slack
    <2>2. CASE c # country
      <3>1. queue'[c] = queue[c] /\ j \in Place(c)
        BY <1>6, <2>2 DEF Place
      <3>2. queue[c][j] # h
        BY <1>2, <1>4, <2>2, <3>1, OnePlace
      <3>3. queue[c][j] \notin ToSet(doomed)
        BY <1>8, <3>1, <3>2
      <3>4. delay[queue[c][j]] > 0
        BY <1>1, <3>1, <3>3 DEF IInv, TimersRun
      <3>5. (Due(c, j)' <=> Due(c, j)) /\ ~Gap(c, j) /\ ~Gap(c, j)'
        BY <1>1, <2>2 DEF Due, Gap
      <3>6. owed <= Owed(c, j) /\ Slack(c, j) <= slack
        BY <2>1, <3>5 DEF Owed, Slack
      <3>7. Budget(age[queue[c][j]], delay[queue[c][j]], j, asked[queue[c][j]],
                   ahead[queue[c][j]], owed, slack)
        BY <3>1, <3>3, <3>6, PassedBy
      <3> QED
        BY <2>1, <3>1, <3>4, <3>7
    <2>3. CASE c = country
      <3>1. PICK i \in Place(country) :
               /\ queue'[country][j] = queue[country][i] /\ queue[country][i] # h
               /\ j \in 1 .. n - 1
               /\ \/ j < q /\ i = j
                  \/ ~(j < q) /\ i = j + 1
        <4>1. j \in Place(country)'
          BY <1>1, <2>3 DEF Place
        <4> QED
          BY <1>13, <4>1
      <3>2. queue[country][i] \notin ToSet(doomed)
        BY <1>8, <2>3, <3>1
      <3>3. delay[queue[country][i]] > 0
        BY <1>1, <1>2, <3>2 DEF IInv, TimersRun
      <3>4. owed = 0
        <4>1. ~(country > country)
          BY <1>2 DEF Country
        <4> QED
          BY <1>1, <2>1, <2>3, <4>1 DEF Owed, Due
      <3>5. Owed(country, i) \in {0, 1} /\ owed <= Owed(country, i)
        BY <3>4 DEF Owed
      <3>6. CASE j < q /\ i = j
        <4>1. Gap(country, i) => slack = 1
          <5> SUFFICES ASSUME NEW p \in Place(country), queue[country][p] \in ToSet(doomed), p < i
                       PROVE  Gap(c, j)'
            BY <2>1 DEF Gap, Slack
          <5>1. p \in 1 .. n - 1 /\ p < q /\ p < j
            BY <1>6a, <3>1, <3>6
          <5>2. p # q
            BY <1>6a, <5>1
          <5>3. queue[country][p] # h
            BY <1>2, <1>4, <5>2, OnePlace
          <5>4. queue'[country][p] = queue[country][p] /\ p \in Place(country)'
            BY <1>6a, <1>6, <5>1
          <5>5. queue'[country][p] \in ToSet(doomed')
            BY <1>8, <5>3, <5>4
          <5> QED
            BY <1>1, <2>3, <5>1, <5>4, <5>5 DEF Gap
        <4>2. ~Due(country, i)
          <5>1. ~(country > country)
            BY <1>2 DEF Country
          <5> QED
            BY <1>1, <5>1 DEF Due
        <4>3. Slack(country, i) <= slack
          BY <4>1, <4>2 DEF Slack
        <4>4. Budget(age[queue[country][i]], delay[queue[country][i]], i, asked[queue[country][i]],
                     ahead[queue[country][i]], owed, slack)
          BY <1>2, <3>2, <3>5, <4>3, PassedBy
        <4> QED
          BY <2>1, <2>3, <3>1, <3>3, <3>6, <4>4
      <3>7. CASE ~(j < q) /\ i = j + 1
        <4>1. PICK e : e = queue[country][i]
          OBVIOUS
        <4>2. /\ age[e] \in Nat /\ asked[e] \in Nat /\ ahead[e] \in Nat /\ delay[e] \in Int
              /\ Slack(country, i) \in {0, 1}
              /\ Budget(age[e], delay[e], i, asked[e], ahead[e], Owed(country, i), Slack(country, i))
          BY <1>2, <3>2, <4>1, EntryFacts
        <4>3. j \in Int /\ j = i - 1 /\ i \in Int
          BY <3>1, <3>7
        <4>4. Budget(age[e], delay[e], j, asked[e], ahead[e], owed, slack)
          BY <3>5, <4>2, <4>3 DEF Budget
        <4> QED
          BY <2>1, <2>3, <3>1, <3>3, <4>1, <4>4
      <3> QED
        BY <3>1, <3>6, <3>7
    <2> QED
      BY <2>2, <2>3
  <1> QED
    BY <1>9, <1>14, <1>15, <1>16, <1>17 DEF IInv

\* push_back puts the new entry behind all others, with its whole budget.
LEMMA AddPreserves ==
    ASSUME IInv, NEW k \in Country, NEW e \in Entry, NEW d \in Delays,
           AddDelayedEvent(k, e, d), pc \in {"idle", "fire"}
    PROVE  IInv'
  <1>1. /\ ~Created(e) /\ delay' = [delay EXCEPT ![e] = d]
        /\ asked' = [asked EXCEPT ![e] = d] /\ ahead' = [ahead EXCEPT ![e] = Len(queue[k])]
        /\ queue' = [queue EXCEPT ![k] = Append(queue[k], e)]
        /\ UNCHANGED <<pc, country, edi, doomed, fired, discarded, age, unseen, room>>
    BY DEF AddDelayedEvent
  <1>2. d \in Nat /\ d > 0
    BY CountryQueueAssumption DEF CountryQueueAssumption, AddDelayedEvent, Queueable
  <1>3. queue \in [Country -> Seq(Entry)] /\ country \in Country /\ queue[k] \in Seq(Entry)
    BY DEF IInv, TypeOK
  <1>4. PICK n \in Nat : n = Len(queue[k])
    BY <1>3
  <1>5. /\ queue'[k] \in Seq(Entry) /\ Len(queue'[k]) = n + 1
        /\ \A i \in 1 .. n : queue'[k][i] = queue[k][i]
        /\ queue'[k][n + 1] = e /\ ToSet(queue'[k]) = ToSet(queue[k]) \cup {e}
        /\ \A c \in Country : c # k => queue'[c] = queue[c]
    <2>1. queue'[k] = Append(queue[k], e)
      BY <1>1, <1>3
    <2> QED
      BY <1>1, <1>3, <1>4, <2>1, AppendMembers
  <1>6. /\ Place(k) = 1 .. n /\ Place(k)' = 1 .. n + 1
        /\ \A c \in Country : c # k => Place(c)' = Place(c)
    BY <1>4, <1>5 DEF Place
  <1>7. \A c \in Country : \A i \in Place(c) :
           i \in Place(c)' /\ queue'[c][i] = queue[c][i] /\ queue[c][i] # e /\ queue[c][i] \in Entry
    <2> SUFFICES ASSUME NEW c \in Country, NEW i \in Place(c)
                 PROVE  /\ i \in Place(c)' /\ queue'[c][i] = queue[c][i]
                        /\ queue[c][i] # e /\ queue[c][i] \in Entry
      OBVIOUS
    <2>1. queue[c][i] \in Entry /\ Created(queue[c][i])
      BY EntryFacts
    <2> QED
      BY <1>1, <1>5, <1>6, <2>1
  <1>8. e \notin Pending /\ e \notin ToSet(fired) /\ e \notin discarded /\ e \notin ToSet(doomed)
    BY <1>1 DEF IInv, ExactlyOnce, Listed
  <1>9. /\ delay' \in [Entry -> Int] /\ asked' \in [Entry -> Nat] /\ ahead' \in [Entry -> Nat]
        /\ delay'[e] = d /\ asked'[e] = d /\ ahead'[e] = n /\ age[e] = 0
        /\ \A x \in Entry : x # e => /\ delay'[x] = delay[x] /\ asked'[x] = asked[x]
                                     /\ ahead'[x] = ahead[x]
    BY <1>1, <1>2, <1>4 DEF IInv, TypeOK, Unborn
  <1>10. /\ capacity' \in [Country -> Nat] /\ iter' \in Nat
         /\ iter' = iter \/ iter' = OutOfBuffer
         /\ iter' # OutOfBuffer => capacity'[country] = capacity[country]
         /\ \A c \in Country : Len(queue'[c]) <= capacity'[c]
    <2>1. capacity \in [Country -> Nat] /\ iter \in Nat
      BY DEF IInv, TypeOK
    <2>2. \A c \in Country : Len(queue[c]) <= capacity[c]
      BY DEF IInv, Fitting
    <2>3. CASE n < capacity[k]
      <3>1. capacity' = capacity /\ iter' = iter
        BY <1>4, <2>3 DEF AddDelayedEvent
      <3>2. \A c \in Country : Len(queue'[c]) <= capacity[c]
        BY <1>5, <2>1, <2>2, <2>3
      <3> QED
        BY <2>1, <3>1, <3>2
    <2>4. CASE ~(n < capacity[k])
      <3>1. /\ capacity' = [capacity EXCEPT ![k] = Grown(capacity[k])]
            /\ iter' = IF k = country THEN OutOfBuffer ELSE iter
        BY <1>4, <2>4 DEF AddDelayedEvent, Freed
      <3>2. capacity[k] = n
        BY <1>4, <2>1, <2>2, <2>4
      <3>3. Grown(n) \in Nat /\ n + 1 <= Grown(n)
        BY DEF Grown
      <3>4. capacity' \in [Country -> Nat] /\ capacity'[k] = Grown(n)
            /\ \A c \in Country : c # k => capacity'[c] = capacity[c]
        BY <2>1, <3>1, <3>2, <3>3
      <3>5. \A c \in Country : Len(queue'[c]) <= capacity'[c]
        BY <1>5, <2>2, <3>3, <3>4
      <3> QED
        BY <1>3, <2>1, <3>1, <3>4, <3>5 DEF OutOfBuffer
    <2> QED
      BY <2>3, <2>4
  <1>11. TypeOK'
    <2>1. queue' \in [Country -> Seq(Entry)]
      BY <1>1, <1>3, <1>5
    <2> QED
      BY <1>1, <1>9, <1>10, <2>1 DEF IInv, TypeOK
  <1>12. ExactlyOnce'
    <2>1. ASSUME NEW c \in Country, NEW i \in DOMAIN queue'[c], NEW j \in DOMAIN queue'[c],
                 queue'[c][i] = queue'[c][j]
          PROVE  i = j
      <3>1. CASE c = k
        <4>1. i \in 1 .. n + 1 /\ j \in 1 .. n + 1
          BY <1>5, <3>1
        <4>2. \A a, b \in 1 .. n : queue[k][a] = queue[k][b] => a = b
          BY <1>6, OnePlace
        <4>3. \A a \in 1 .. n : queue'[k][a] = queue[k][a] /\ queue[k][a] # e
          BY <1>6, <1>7
        <4> QED
          BY <1>5, <2>1, <3>1, <4>1, <4>2, <4>3
      <3>2. CASE c # k
        <4>1. queue'[c] = queue[c]
          BY <1>5, <3>2
        <4> QED
          BY <2>1, <4>1 DEF IInv, ExactlyOnce
      <3> QED
        BY <3>1, <3>2
    <2>2. \A c \in Country : e \notin ToSet(queue[c])
      <3> SUFFICES ASSUME NEW c \in Country, e \in ToSet(queue[c]) PROVE FALSE
        OBVIOUS
      <3>1. queue[c] \in Seq(Entry)
        BY <1>3
      <3>2. PICK i \in Place(c) : queue[c][i] = e
        BY <3>1, ToSetMembers DEF Place
      <3> QED
        BY <1>7, <3>2
    <2>3. \A c, c2 \in Country : c # c2 => ToSet(queue'[c]) \cap ToSet(queue'[c2]) = {}
      <3>1. \A c, c2 \in Country : c # c2 => ToSet(queue[c]) \cap ToSet(queue[c2]) = {}
        BY DEF IInv, ExactlyOnce
      <3>2. \A c \in Country : ToSet(queue'[c]) = IF c = k THEN ToSet(queue[c]) \cup {e}
                                                           ELSE ToSet(queue[c])
        BY <1>5
      <3> QED
        BY <2>2, <3>1, <3>2
    <2>4. Pending' = Pending \cup {e}
      <3>1. ASSUME NEW x PROVE x \in Pending' <=> x \in Pending \/ x = e
        <4>1. x \in Pending' <=> x \notin ToSet(doomed) /\ \E c \in Country : x \in ToSet(queue'[c])
          BY <1>1 DEF Pending
        <4>2. x \in Pending <=> x \notin ToSet(doomed) /\ \E c \in Country : x \in ToSet(queue[c])
          BY DEF Pending
        <4>3. (\E c \in Country : x \in ToSet(queue'[c]))
                <=> x = e \/ \E c \in Country : x \in ToSet(queue[c])
          BY <1>5
        <4> QED
          BY <1>8, <4>1, <4>2, <4>3
      <3> QED
        BY <3>1
    <2>5. ASSUME NEW x \in Entry
          PROVE  Created(x)' <=> x \in Pending' \cup ToSet(fired) \cup discarded
      <3>1. CASE x = e
        BY <1>2, <1>9, <2>4, <3>1 DEF Created
      <3>2. CASE x # e
        <4>1. Created(x)' <=> Created(x)
          BY <1>9, <3>2 DEF Created
        <4> QED
          BY <2>4, <3>2, <4>1 DEF IInv, ExactlyOnce
      <3> QED
        BY <3>1, <3>2
    <2>6. Pending' \cap (ToSet(fired) \cup discarded) = {}
      BY <1>8, <2>4 DEF IInv, ExactlyOnce
    <2>7. /\ \A i, j \in DOMAIN fired : fired[i] = fired[j] => i = j
          /\ ToSet(fired) \cap discarded = {}
      BY DEF IInv, ExactlyOnce
    <2>8. fired' = fired /\ discarded' = discarded
      BY <1>1
    <2> QED
      BY <2>1, <2>3, <2>5, <2>6, <2>7, <2>8 DEF ExactlyOnce
  <1>13. FiresOnTime'
    <2>1. \A x \in ToSet(fired) : x \in Entry /\ x # e
      BY <1>8, ToSetMembers DEF IInv, TypeOK
    <2> QED
      BY <1>1, <1>9, <2>1 DEF IInv, FiresOnTime
  <1>14. Unborn'
    BY <1>1, <1>2, <1>9 DEF IInv, Unborn, Created
  <1>15. Fitting' /\ Listed' /\ Resting' /\ Scanning' /\ ScanBoundedByCapacity'
    BY <1>1, <1>10 DEF IInv, Fitting, Listed, Resting, Scanning, ScanBoundedByCapacity
  <1>16. Firing'
    <2> SUFFICES ASSUME pc = "fire" PROVE \E p \in Place(country)' : FiresAt(p)'
      BY <1>1 DEF Firing
    <2>1. PICK p \in Place(country) : FiresAt(p)
      BY DEF IInv, Firing
    <2>2. /\ queue[country][p] = edi /\ edi \notin ToSet(doomed)
          /\ iter \in {OutOfBuffer, p + 1} /\ p <= room /\ Len(doomed) < p
          /\ iter # OutOfBuffer => capacity[country] = room
          /\ \A i \in Place(country) : queue[country][i] \in ToSet(doomed) => i < p
      BY <2>1 DEF FiresAt, Vector
    <2>3. p \in Place(country)' /\ queue'[country][p] = edi
      <3>1. country' = country
        BY <1>1
      <3> QED
        BY <1>3, <1>7, <2>2, <3>1 DEF Place
    <2>4. ASSUME NEW i \in Place(country)', queue'[country][i] \in ToSet(doomed) PROVE i < p
      <3>1. i \in Place(country) \/ queue'[country][i] = e
        <4>1. country' = country
          BY <1>1
        <4>2. CASE country # k
          BY <1>3, <1>5, <4>1, <4>2 DEF Place
        <4>3. CASE country = k
          <5>1. i \in 1 .. n + 1
            BY <1>5, <4>1, <4>3 DEF Place
          <5> QED
            BY <1>5, <1>6, <4>3, <5>1
        <4> QED
          BY <4>2, <4>3
      <3>2. i \in Place(country)
        BY <1>8, <2>4, <3>1
      <3> QED
        BY <1>3, <1>7, <2>2, <2>4, <3>2
    <2>5. FiresAt(p)'
      BY <1>1, <1>10, <2>2, <2>3, <2>4 DEF FiresAt, Vector
    <2> QED
      BY <2>3, <2>5
  <1>17. TimersRun' /\ InBudget'
    <2>1. pc = "fire" => edi # e
      <3> SUFFICES ASSUME pc = "fire" PROVE edi # e
        OBVIOUS
      <3>1. PICK p \in Place(country) : FiresAt(p)
        BY DEF IInv, Firing
      <3> QED
        BY <1>3, <1>7, <3>1 DEF FiresAt, Vector
    <2> SUFFICES ASSUME NEW c \in Country, NEW i \in Place(c)', queue'[c][i] \notin ToSet(doomed)
                 PROVE  /\ IF pc = "fire" /\ queue'[c][i] = edi THEN delay'[queue'[c][i]] = 0
                                                                ELSE delay'[queue'[c][i]] > 0
                        /\ Budget(age[queue'[c][i]], delay'[queue'[c][i]], i, asked'[queue'[c][i]],
                                  ahead'[queue'[c][i]], Owed(c, i)', Slack(c, i)')
      BY <1>1 DEF TimersRun, InBudget
    <2>2. PICK owed \in {0, 1}, slack \in {0, 1} : owed = Owed(c, i)' /\ slack = Slack(c, i)'
      BY DEF Owed, Slack
    <2>3. CASE i \in Place(c)
      <3>1. queue'[c][i] = queue[c][i] /\ queue[c][i] # e /\ queue[c][i] \in Entry
        BY <1>7, <2>3
      <3>2. i \in Nat
        BY <2>3, EntryFacts
      <3>3. \A p \in Place(c)' : p < i => p \in Place(c) /\ queue'[c][p] = queue[c][p]
        <4> SUFFICES ASSUME NEW p \in Place(c)', p < i
                     PROVE  p \in Place(c) /\ queue'[c][p] = queue[c][p]
          OBVIOUS
        <4>1. CASE c # k
          BY <1>5, <1>6, <4>1
        <4>2. CASE c = k
          <5>1. p \in 1 .. n
            BY <1>6, <2>3, <4>2
          <5> QED
            BY <1>5, <1>6, <4>2, <5>1
        <4> QED
          BY <4>1, <4>2
      <3>4. \A p \in Place(c) : p \in Place(c)' /\ queue'[c][p] = queue[c][p]
        BY <1>7
      <3>5. (Due(c, i)' <=> Due(c, i)) /\ (Gap(c, i)' <=> Gap(c, i))
        BY <1>1, <3>3, <3>4 DEF Due, Gap
      <3>6. owed <= Owed(c, i) /\ Slack(c, i) <= slack
        BY <2>2, <3>5 DEF Owed, Slack
      <3>7. Budget(age[queue[c][i]], delay[queue[c][i]], i, asked[queue[c][i]],
                   ahead[queue[c][i]], owed, slack)
        BY <2>3, <3>1, <3>6, PassedBy
      <3>8. IF pc = "fire" /\ queue[c][i] = edi THEN delay[queue[c][i]] = 0
                                               ELSE delay[queue[c][i]] > 0
        BY <2>3, <3>1 DEF IInv, TimersRun
      <3> QED
        BY <1>9, <2>2, <3>1, <3>7, <3>8
    <2>4. CASE i \notin Place(c)
      <3>1. c = k /\ i = n + 1
        BY <1>6, <2>4
      <3>2. queue'[c][i] = e
        BY <1>5, <3>1
      <3>3. Budget(0, d, n + 1, d, n, owed, slack)
        BY <1>2 DEF Budget
      <3> QED
        BY <1>2, <1>9, <2>1, <2>2, <3>1, <3>2, <3>3
    <2> QED
      BY <2>3, <2>4
  <1> QED
    BY <1>11, <1>12, <1>13, <1>14, <1>15, <1>16, <1>17 DEF IInv

\* The invariant of the country queues.
THEOREM Invariance == Spec => []IInv
  <1>1. IInv /\ [Next]_vars => IInv'
    <2> SUFFICES ASSUME IInv, [Next]_vars PROVE IInv'
      OBVIOUS
    <2>1. CASE Queue
      BY <2>1, AddPreserves DEF Queue
    <2>2. CASE FireQueues
      BY <2>2, AddPreserves DEF FireQueues
    <2>3. CASE StartDay \/ Discard \/ CountDown \/ Fired
      BY <2>3, StartDayPreserves, DiscardPreserves, CountDownPreserves, FiredPreserves
    <2>4. CASE EndScan \/ Erase \/ NextCountry \/ EndDay
      BY <2>4, EndScanPreserves, ErasePreserves, NextCountryPreserves, EndDayPreserves
    <2>5. CASE UNCHANGED vars
      <3>1. UNCHANGED <<queue, capacity, delay, pc, country, iter, edi, doomed, fired,
                        discarded, asked, ahead, age, unseen, room>>
        BY <2>5 DEF vars, program, history
      <3>2. ExactlyOnce' /\ Listed' /\ \A c : Place(c)' = Place(c)
        BY <3>1, StillOnce
      <3>3. Vector' = Vector
        BY <3>1 DEF Vector
      <3>4. TypeOK'
        BY <3>1 DEF IInv, TypeOK
      <3>5. /\ FiresOnTime' /\ ScanBoundedByCapacity' /\ Unborn' /\ Fitting' /\ Resting'
            /\ TimersRun'
        BY <3>1, <3>2 DEF IInv, FiresOnTime, ScanBoundedByCapacity, Unborn, Fitting, Resting,
           TimersRun, Created
      <3>6. Scanning' /\ Firing'
        BY <3>1, <3>2, <3>3 DEF IInv, Scanning, Firing, FiresAt
      <3>7. InBudget'
        <4>1. \A c \in Country : \A i \in Place(c) :
                 (Due(c, i)' <=> Due(c, i)) /\ (Gap(c, i)' <=> Gap(c, i))
          BY <3>1, <3>2 DEF Due, Gap
        <4> QED
          BY <3>1, <4>1, BudgetStays
      <3> QED
        BY <3>2, <3>4, <3>5, <3>6, <3>7 DEF IInv
    <2> QED
      BY <2>1, <2>2, <2>3, <2>4, <2>5 DEF Next, Tick
  <1> QED
    BY <1>1, InitInvariant, PTL DEF Spec

-------------------------------------------------------------------------------
(* The results. *)

\* Every variable keeps its type.
THEOREM TypeCorrect == Spec => []TypeOK
  BY Invariance, PTL DEF IInv

\* A queued event waits in one vector, or fired once, or was discarded, whatever the
\* events of other countries queue while a scan is under way.
THEOREM NothingLost == Spec => []ExactlyOnce
  BY Invariance, PTL DEF IInv

\* An event fires at most as many days late as there were entries ahead of it when it
\* was queued, and never more than one day early.
THEOREM OnTime == Spec => []FiresOnTime
  BY Invariance, PTL DEF IInv

\* One scan finishes no more entries than the buffer had room for when it began,
\* whatever is queued meanwhile: a scan always ends.
THEOREM ScansAreBounded == Spec => []ScanBoundedByCapacity
  BY Invariance, PTL DEF IInv

-------------------------------------------------------------------------------
(* The two-pass scan implements the atomic day of CountryTickModel. *)

\* A scan runs to the end of its vector, and what it has not seen is what is behind the
\* iterator.
InBuffer == AtWork => iter # OutOfBuffer
Ahead    == AtWork => unseen = {Vector[i] : i \in iter .. Len(Vector)}

\* The deletion list holds entries of the vector: those discarded, and those that expired
\* today, which have fired in the order of the vector.
OfVector       == AtWork => Doomed \subseteq ToSet(Vector)
ExpiredToday   == \A e \in Doomed : e \notin discarded => delay[e] <= 0
FiredInOrder   ==
    AtWork => fired = Keep(fired, Entry \ Doomed) \o Keep(Vector, Doomed \ discarded)

\* The invariant the refinement needs.
JInv == IInv /\ InBuffer /\ Ahead /\ OfVector /\ ExpiredToday /\ FiredInOrder

\* There is one country.
LEMMA Single ==
    ASSUME N = 1, TypeOK
    PROVE  /\ country = 1 /\ Country = {1} /\ Vector = queue[1]
           /\ Vector \in Seq(Entry) /\ Len(Vector) \in Nat /\ Place(1) = 1 .. Len(Vector)
           /\ DOMAIN Vector = 1 .. Len(Vector)
           /\ \A x : x \in ToSet(Vector) <=> \E i \in 1 .. Len(Vector) : Vector[i] = x
  <1>1. Country = {1}
    BY DEF Country
  <1>2. country = 1 /\ queue[1] \in Seq(Entry)
    BY <1>1 DEF TypeOK
  <1>3. Vector = queue[1]
    BY <1>2 DEF Vector
  <1>4. \A x : x \in ToSet(queue[1]) <=> \E i \in 1 .. Len(queue[1]) : queue[1][i] = x
    BY <1>2, ToSetMembers
  <1> QED
    BY <1>1, <1>2, <1>3, <1>4 DEF Place

\* The entries of the vector: listed for deletion, or pending.
LEMMA VectorEntries ==
    ASSUME N = 1, IInv
    PROVE  /\ \A i, j \in 1 .. Len(Vector) : Vector[i] = Vector[j] => i = j
           /\ \A i \in 1 .. Len(Vector) :
                 Vector[i] \notin Doomed =>
                     /\ Vector[i] \notin ToSet(fired) /\ Vector[i] \notin discarded
                     /\ pc # "fire" => delay[Vector[i]] > 0
                     /\ pc = "fire" /\ Vector[i] = edi => delay[Vector[i]] = 0
  <1>1. Vector = queue[1] /\ Place(1) = 1 .. Len(Vector) /\ 1 \in Country
    BY Single DEF IInv
  <1>2. \A i, j \in 1 .. Len(Vector) : Vector[i] = Vector[j] => i = j
    BY <1>1, OnePlace
  <1>3. ASSUME NEW i \in 1 .. Len(Vector), Vector[i] \notin Doomed
        PROVE  Vector[i] \notin ToSet(fired) /\ Vector[i] \notin discarded
    BY <1>1, <1>3, EntryFacts DEF Doomed
  <1>4. ASSUME NEW i \in 1 .. Len(Vector), Vector[i] \notin Doomed
        PROVE  /\ pc # "fire" => delay[Vector[i]] > 0
               /\ pc = "fire" /\ Vector[i] = edi => delay[Vector[i]] = 0
    BY <1>1, <1>4 DEF IInv, TimersRun, Doomed
  <1> QED
    BY <1>2, <1>3, <1>4

LEMMA JInit == N = 1 /\ Init => JInv
  <1> SUFFICES ASSUME N = 1, Init PROVE JInv
    OBVIOUS
  <1>1. IInv
    BY InitInvariant
  <1>2. ~AtWork /\ doomed = <<>>
    BY DEF Init, AtWork
  <1>3. Doomed = {}
    BY <1>2 DEF Doomed, ToSet
  <1> QED
    BY <1>1, <1>2, <1>3 DEF JInv, InBuffer, Ahead, OfVector, ExpiredToday, FiredInOrder

\* Nothing is listed when a day begins.
LEMMA JStartDay ==
    ASSUME N = 1, JInv, IInv', StartDay
    PROVE  JInv'
  <1>1. /\ pc = "idle" /\ pc' = "scan" /\ iter' = 1 /\ country' = 1
        /\ unseen' = ToSet(queue[1])
        /\ UNCHANGED <<queue, delay, doomed, fired, discarded>>
    BY DEF StartDay, Enter, Begin
  <1>2. doomed = <<>> /\ Doomed = {} /\ Doomed' = {}
    BY <1>1 DEF JInv, IInv, Resting, Doomed, ToSet
  <1>3. Vector' = queue[1] /\ queue[1] \in Seq(Entry) /\ fired \in Seq(Entry)
    BY <1>1, Single DEF JInv, IInv, TypeOK, Vector
  <1>4. InBuffer'
    BY <1>1 DEF InBuffer, OutOfBuffer
  <1>5. Ahead'
    BY <1>1, <1>3, ToSetMembers DEF Ahead
  <1>6. OfVector' /\ ExpiredToday'
    BY <1>2 DEF OfVector, ExpiredToday
  <1>7. FiredInOrder'
    <2>1. Keep(fired, Entry) = fired
      BY <1>3, KeepAll
    <2>2. Keep(queue[1], {}) = <<>>
      BY <1>3, KeepNone
    <2>3. Entry \ {} = Entry /\ {} \ discarded = {} /\ fired \o <<>> = fired
      BY <1>3
    <2>4. fired = Keep(fired, Entry \ {}) \o Keep(queue[1], {} \ discarded)
      BY <2>1, <2>2, <2>3
    <2> QED
      BY <1>1, <1>2, <1>3, <2>4 DEF FiredInOrder
  <1> QED
    BY <1>4, <1>5, <1>6, <1>7 DEF JInv

\* The scan goes past the entry it loads.
LEMMA JLoad ==
    ASSUME N = 1, JInv, NEW e \in Entry, Load(e), UNCHANGED <<queue, country>>,
           pc' \in {"scan", "fire"}
    PROVE  /\ InBuffer' /\ Ahead' /\ Vector' = Vector
           /\ iter \in 1 .. Len(Vector) /\ e = Vector[iter] /\ e \in unseen
           /\ e \in ToSet(Vector) /\ e \notin Doomed /\ e \notin discarded
           /\ e \notin ToSet(fired)
           /\ AtWork /\ AtWork'
  <1>1. /\ pc = "scan" /\ iter \in DOMAIN Vector /\ e = Vector[iter]
        /\ iter' = iter + 1 /\ unseen' = unseen \ {e}
    BY DEF Load
  <1>2. /\ Vector \in Seq(Entry) /\ DOMAIN Vector = 1 .. Len(Vector) /\ Len(Vector) \in Nat
        /\ \A x : x \in ToSet(Vector) <=> \E i \in 1 .. Len(Vector) : Vector[i] = x
    BY Single DEF JInv, IInv
  <1>3. Vector' = Vector /\ AtWork /\ AtWork'
    BY <1>1 DEF Vector, AtWork
  <1>4. iter \in 1 .. Len(Vector) /\ iter \in Nat /\ iter' # OutOfBuffer
    BY <1>1, <1>2 DEF OutOfBuffer
  <1>5. unseen = {Vector[i] : i \in iter .. Len(Vector)}
    BY <1>3 DEF JInv, Ahead
  <1>6. e \in unseen
    BY <1>1, <1>2, <1>4, <1>5
  <1>7. \A i, j \in 1 .. Len(Vector) : Vector[i] = Vector[j] => i = j
    BY VectorEntries DEF JInv
  <1>8. unseen' = {Vector[i] : i \in iter + 1 .. Len(Vector)}
    <2>1. \A i \in iter + 1 .. Len(Vector) : i \in 1 .. Len(Vector) /\ i # iter
      BY <1>2, <1>4
    <2>2. \A i \in iter + 1 .. Len(Vector) : Vector[i] \in unseen /\ Vector[i] # e
      BY <1>1, <1>2, <1>4, <1>5, <1>7, <2>1
    <2>3. \A i \in iter .. Len(Vector) : Vector[i] # e => i \in iter + 1 .. Len(Vector)
      BY <1>1, <1>2, <1>4
    <2> QED
      BY <1>1, <1>5, <2>2, <2>3
  <1>9. e \notin Doomed /\ e \in Pending
    BY LoadFacts DEF JInv, Doomed
  <1>10. e \notin ToSet(fired) /\ e \notin discarded
    BY <1>9 DEF JInv, IInv, ExactlyOnce
  <1> QED
    BY <1>1, <1>2, <1>3, <1>4, <1>6, <1>8, <1>9, <1>10 DEF InBuffer, Ahead

\* What is let through does not change when the entry that is listed is not in the list,
\* or is let through by neither.
LEMMA ListingKeeps ==
    ASSUME NEW z \in Seq(Entry), NEW e \in Entry, e \notin ToSet(z)
    PROVE  Keep(z, Entry \ (Doomed \cup {e})) = Keep(z, Entry \ Doomed)
  <1> DEFINE D == Entry \ (Doomed \cup {e})
             C == Entry \ Doomed
  <1>1. \A i \in 1 .. Len(z) : z[i] \in ToSet(z) /\ z[i] # e
    BY ToSetMembers
  <1>2. Alike(z, D, C)
    BY <1>1 DEF Alike
  <1> HIDE DEF D, C
  <1>3. Keep(z, D) = Keep(z, C)
    BY <1>2, KeepSame
  <1> QED
    BY <1>3 DEF D, C

LEMMA JDiscard ==
    ASSUME N = 1, JInv, IInv', Discard
    PROVE  JInv'
  <1>1. PICK e \in Entry :
            /\ Load(e) /\ doomed' = Append(doomed, e) /\ discarded' = discarded \cup {e}
            /\ UNCHANGED <<queue, capacity, delay, pc, country, edi, fired>>
    BY DEF Discard
  <1>2. pc' \in {"scan", "fire"}
    BY <1>1 DEF Load
  <1>3. /\ InBuffer' /\ Ahead' /\ Vector' = Vector
        /\ e \in ToSet(Vector) /\ e \notin Doomed /\ e \notin discarded
        /\ e \notin ToSet(fired)
        /\ AtWork /\ AtWork'
    BY <1>1, <1>2, JLoad
  <1>4. Doomed' = Doomed \cup {e}
    <2>1. doomed \in Seq(Entry)
      BY DEF JInv, IInv, TypeOK
    <2>2. ToSet(Append(doomed, e)) = ToSet(doomed) \cup {e}
      BY <2>1, AppendMembers
    <2> QED
      BY <1>1, <2>2 DEF Doomed
  <1>5. OfVector' /\ ExpiredToday'
    BY <1>1, <1>3, <1>4 DEF JInv, OfVector, ExpiredToday
  <1>6. FiredInOrder'
    <2>1. fired = Keep(fired, Entry \ Doomed) \o Keep(Vector, Doomed \ discarded)
      BY <1>3 DEF JInv, FiredInOrder
    <2>2. Doomed' \ discarded' = Doomed \ discarded
      BY <1>1, <1>3, <1>4
    <2>3. Keep(fired, Entry \ (Doomed \cup {e})) = Keep(fired, Entry \ Doomed)
      BY <1>3, ListingKeeps DEF JInv, IInv, TypeOK
    <2>4. fired' = Keep(fired', Entry \ Doomed') \o Keep(Vector', Doomed' \ discarded')
      BY <1>1, <1>3, <1>4, <2>1, <2>2, <2>3
    <2> QED
      BY <2>4 DEF FiredInOrder
  <1> QED
    BY <1>3, <1>5, <1>6 DEF JInv

LEMMA JCountDown ==
    ASSUME N = 1, JInv, IInv', CountDown
    PROVE  JInv'
  <1>1. PICK e \in Entry :
            /\ Load(e) /\ delay' = [delay EXCEPT ![e] = @ - 1]
            /\ IF Expired(delay[e] - 1) THEN pc' = "fire" /\ edi' = e
                                        ELSE UNCHANGED <<pc, edi>>
            /\ UNCHANGED <<queue, country, doomed, fired, discarded>>
    BY DEF CountDown
  <1>2. pc' \in {"scan", "fire"}
    BY <1>1 DEF Load
  <1>3. /\ InBuffer' /\ Ahead' /\ Vector' = Vector
        /\ e \notin Doomed /\ AtWork /\ AtWork'
    BY <1>1, <1>2, JLoad
  <1>4. Doomed' = Doomed
    BY <1>1 DEF Doomed
  <1>5. OfVector' /\ FiredInOrder'
    BY <1>1, <1>3, <1>4 DEF JInv, OfVector, FiredInOrder
  <1>6. ExpiredToday'
    <2>1. Doomed \subseteq Entry /\ delay \in [Entry -> Int]
      BY ToSetMembers DEF JInv, IInv, TypeOK, Doomed
    <2>2. \A x \in Doomed : delay'[x] = delay[x]
      BY <1>1, <1>3, <2>1
    <2> QED
      BY <1>1, <1>4, <2>2 DEF JInv, ExpiredToday
  <1> QED
    BY <1>3, <1>5, <1>6 DEF JInv

\* The event that fires is behind all that fired today.
LEMMA JFired ==
    ASSUME N = 1, JInv, IInv', Fired
    PROVE  JInv'
  <1>1. /\ pc = "fire" /\ pc' = "scan" /\ fired' = Append(fired, edi)
        /\ doomed' = Append(doomed, edi)
        /\ UNCHANGED <<queue, delay, country, iter, discarded, unseen>>
    BY DEF Fired
  <1>2. /\ Vector \in Seq(Entry) /\ Place(1) = 1 .. Len(Vector) /\ country = 1
        /\ DOMAIN Vector = 1 .. Len(Vector) /\ Len(Vector) \in Nat
        /\ \A x : x \in ToSet(Vector) <=> \E i \in 1 .. Len(Vector) : Vector[i] = x
    BY Single DEF JInv, IInv
  <1>3. PICK p \in 1 .. Len(Vector) : FiresAt(p)
    BY <1>1, <1>2 DEF JInv, IInv, Firing
  <1>4. /\ Vector[p] = edi /\ edi \notin Doomed /\ edi \in Entry /\ edi \in ToSet(Vector)
        /\ \A i \in 1 .. Len(Vector) : Vector[i] \in Doomed => i < p
    BY <1>2, <1>3 DEF FiresAt, Doomed
  <1>5. /\ \A i, j \in 1 .. Len(Vector) : Vector[i] = Vector[j] => i = j
        /\ edi \notin ToSet(fired) /\ edi \notin discarded /\ delay[edi] = 0
    BY <1>1, <1>4, VectorEntries DEF JInv
  <1>6. AtWork /\ AtWork' /\ Vector' = Vector
    BY <1>1 DEF AtWork, Vector
  <1>7. Doomed' = Doomed \cup {edi}
    <2>1. doomed \in Seq(Entry)
      BY DEF JInv, IInv, TypeOK
    <2>2. ToSet(Append(doomed, edi)) = ToSet(doomed) \cup {edi}
      BY <1>4, <2>1, AppendMembers
    <2> QED
      BY <1>1, <2>2 DEF Doomed
  <1>8. InBuffer' /\ Ahead'
    BY <1>1, <1>6 DEF JInv, InBuffer, Ahead
  <1>9. OfVector' /\ ExpiredToday'
    BY <1>1, <1>4, <1>5, <1>6, <1>7 DEF JInv, OfVector, ExpiredToday
  <1>10. FiredInOrder'
    <2> DEFINE D == Doomed \ discarded
               C == Entry \ Doomed
               B == Entry \ Doomed'
               a == Keep(fired, C)
               v == Keep(Vector, D)
    <2>1. fired = a \o v
      BY <1>6 DEF JInv, FiredInOrder
    <2>2. fired \in Seq(Entry) /\ a \in Seq(Entry) /\ v \in Seq(Entry)
      <3>1. fired \in Seq(Entry)
        BY DEF JInv, IInv, TypeOK
      <3> HIDE DEF C, D
      <3> QED
        BY <1>2, <3>1, KeepType
    <2>3. Keep(fired, B) = a
      <3>1. Keep(fired, Entry \ (Doomed \cup {edi})) = Keep(fired, Entry \ Doomed)
        BY <1>4, <1>5, <2>2, ListingKeeps
      <3> QED
        BY <1>7, <3>1
    <2>4. Keep(Append(fired, edi), B) = a
      <3>1. edi \notin B
        BY <1>7
      <3> HIDE DEF B, a
      <3>2. Keep(Append(fired, edi), B) = WithIf(Keep(fired, B), edi, B)
        BY <1>4, <2>2, KeepOneMore
      <3> QED
        BY <2>3, <3>1, <3>2 DEF WithIf
    <2>5. Keep(Vector, D \cup {edi}) = Append(v, edi)
      <3>1. Behind(Vector, D, edi, p)
        BY <1>4, <1>5 DEF Behind
      <3> HIDE DEF D
      <3> QED
        BY <1>2, <1>4, <3>1, KeepLast
    <2>6. Doomed' \ discarded' = D \cup {edi}
      BY <1>1, <1>5, <1>7
    <2>7. Append(fired, edi) = a \o Append(v, edi)
      <3> HIDE DEF a, v
      <3>1. a \o Append(v, edi) = Append(a \o v, edi)
        BY <1>4, <2>2, AppendBehind
      <3> QED
        BY <2>1, <3>1
    <2>8. fired' = Keep(fired', B) \o Keep(Vector', Doomed' \ discarded')
      BY <1>1, <1>6, <2>4, <2>5, <2>6, <2>7
    <2> QED
      BY <2>8 DEF FiredInOrder
  <1> QED
    BY <1>8, <1>9, <1>10 DEF JInv

\* Outside the scan only the timers of the doomed matter.
LEMMA JRest ==
    ASSUME N = 1, ~Reentrant, JInv, IInv', [Next]_vars, ~AtWork',
           ~Discard, ~CountDown, ~Fired, ~StartDay
    PROVE  JInv'
  <1>1. InBuffer' /\ Ahead' /\ OfVector' /\ FiredInOrder'
    BY DEF InBuffer, Ahead, OfVector, FiredInOrder
  <1>2. doomed \in Seq(Entry)
    BY DEF JInv, IInv, TypeOK
  <1>3. ExpiredToday'
    <2>1. CASE Queue
      <3>1. pc' = "idle"
        BY <2>1 DEF Queue, AddDelayedEvent
      <3>2. Doomed' = {}
        BY <3>1 DEF IInv, Resting, Doomed, ToSet
      <3> QED
        BY <3>2 DEF ExpiredToday
    <2>2. CASE FireQueues
      BY <2>2 DEF FireQueues
    <2>3. CASE Erase
      <3>1. doomed # <<>> /\ doomed' = Tail(doomed) /\ UNCHANGED <<delay, discarded>>
        BY <2>3 DEF Erase
      <3>3. Doomed' \subseteq Doomed
        BY <1>2, <3>1, TailMembers DEF Doomed
      <3> QED
        BY <3>1, <3>3 DEF JInv, ExpiredToday
    <2>4. CASE EndScan \/ NextCountry \/ EndDay
      <3>1. UNCHANGED <<doomed, delay, discarded>>
        BY <2>4 DEF EndScan, NextCountry, EndDay
      <3> QED
        BY <3>1 DEF JInv, ExpiredToday, Doomed
    <2>5. CASE UNCHANGED vars
      BY <2>5 DEF JInv, ExpiredToday, Doomed, vars, program
    <2> QED
      BY <2>1, <2>2, <2>3, <2>4, <2>5 DEF Next, Tick
  <1> QED
    BY <1>1, <1>3 DEF JInv

\* With one country and without re-entrance a scan sees its whole vector, and what it
\* fires it fires in order.
LEMMA JInvariance == ASSUME N = 1, ~Reentrant PROVE Spec => []JInv
  <1>1. Init => JInv
    BY JInit
  <1>2. JInv /\ [Next]_vars /\ IInv' => JInv'
    <2> SUFFICES ASSUME JInv, [Next]_vars, IInv' PROVE JInv'
      OBVIOUS
    <2>1. CASE StartDay
      BY <2>1, JStartDay
    <2>2. CASE Discard
      BY <2>2, JDiscard
    <2>3. CASE CountDown
      BY <2>3, JCountDown
    <2>4. CASE Fired
      BY <2>4, JFired
    <2>5. CASE ~AtWork'
      BY <2>1, <2>2, <2>3, <2>4, <2>5, JRest
    <2>6. CASE UNCHANGED vars
      BY <2>6 DEF vars, program, history, JInv, InBuffer, Ahead, OfVector, ExpiredToday,
         FiredInOrder, AtWork, Doomed, Vector
    <2>7. CASE Queue \/ FireQueues \/ EndScan \/ Erase \/ NextCountry \/ EndDay
      <3>1. CASE Queue \/ EndScan \/ Erase \/ EndDay
        BY <2>5, <3>1 DEF Queue, AddDelayedEvent, EndScan, Erase, EndDay, AtWork
      <3>2. CASE FireQueues
        BY <3>2 DEF FireQueues
      <3>3. CASE NextCountry
        BY <3>3, Single DEF NextCountry, JInv, IInv
      <3> QED
        BY <2>7, <3>1, <3>2, <3>3
    <2> QED
      BY <2>1, <2>2, <2>3, <2>4, <2>6, <2>7 DEF Next, Tick
  <1> QED
    BY <1>1, <1>2, Invariance, PTL DEF Spec

\* The model cuts lists down with the operator the mapping uses.
LEMMA ModelKeeps == \A s, D : Model!Keep(s, D) = Keep(s, D)
  BY Zenon DEF Model!Keep, Keep

\* Lists mapped alike are the same, and the model's ids of a list are its entries.
LEMMA MappedAlike ==
    ASSUME NEW f, NEW g, NEW z \in Seq(Entry), \A i \in 1 .. Len(z) : f[z[i]] = g[z[i]]
    PROVE  Mapped(f, z) = Mapped(g, z)
  <1>1. DOMAIN z = 1 .. Len(z)
    OBVIOUS
  <1> QED
    BY <1>1 DEF Mapped

LEMMA IdsOfMapped ==
    ASSUME NEW f, NEW z \in Seq(Entry), \A i \in 1 .. Len(z) : f[z[i]].id = z[i]
    PROVE  Model!Ids(Mapped(f, z)) = z
  <1>1. DOMAIN z = 1 .. Len(z) /\ z = [i \in 1 .. Len(z) |-> z[i]]
    OBVIOUS
  <1>2. DOMAIN Mapped(f, z) = DOMAIN z /\ \A i \in DOMAIN z : Mapped(f, z)[i] = f[z[i]]
    BY DEF Mapped
  <1>3. \A i \in 1 .. Len(z) : Mapped(f, z)[i].id = z[i]
    BY <1>1, <1>2
  <1>4. Model!Ids(Mapped(f, z)) = [i \in 1 .. Len(z) |-> Mapped(f, z)[i].id]
    BY <1>1, <1>2 DEF Model!Ids
  <1>5. [i \in 1 .. Len(z) |-> Mapped(f, z)[i].id] = [i \in 1 .. Len(z) |-> z[i]]
    BY <1>3
  <1> QED
    BY <1>1, <1>4, <1>5

Timed == [id : Entry, delay : Int]

LEMMA EntriesOfTheDay ==
    ASSUME TypeOK
    PROVE  /\ Morning \in [Entry -> Timed] /\ Evening \in [Entry -> Timed]
           /\ \A e \in Entry : Morning[e].id = e /\ Evening[e].id = e
                               /\ Evening[e].delay = delay[e]
  <1>1. delay \in [Entry -> Int]
    BY DEF TypeOK
  <1>2. \A e \in Entry : /\ [id |-> e, delay |-> delay[e]] \in Timed
                         /\ [id |-> e, delay |-> IF e \in Counted THEN delay[e] + 1
                                                                  ELSE delay[e]] \in Timed
    BY <1>1 DEF Timed
  <1> QED
    BY <1>1, <1>2 DEF Morning, Evening

LEMMA MappedByDayGrows ==
    ASSUME NEW h \in [Entry -> Timed], NEW z \in Seq(Entry), NEW e \in Entry
    PROVE  Mapped(h, Append(z, e)) = Append(Mapped(h, z), h[e])
  BY MappedGrows

\* The model starts empty.
LEMMA InitMaps == N = 1 /\ Init => Model!Init
  <1> SUFFICES ASSUME N = 1, Init PROVE Model!Init
    OBVIOUS
  <1>1. ~AtWork /\ fired = <<>> /\ discarded = {} /\ Vector = <<>>
    BY DEF Init, AtWork, Vector, Country
  <1>2. Mapped(Evening, Keep(Vector, Entry \ Doomed)) = <<>>
    BY <1>1, KeepNothing DEF Mapped
  <1> QED
    BY <1>1, <1>2 DEF ModelVec, ModelFired, ModelDiscarded, Model!Init

\* With nothing listed the model has the whole vector.
LEMMA NothingListed ==
    ASSUME NEW z \in Seq(Entry), NEW f
    PROVE  Mapped(f, Keep(z, Entry \ {})) = Mapped(f, z)
  <1>1. Entry \ {} = Entry /\ Keep(z, Entry) = z
    BY KeepAll
  <1> QED
    BY <1>1

\* To queue an event is to add it to the model's list.
LEMMA QueueMaps ==
    ASSUME N = 1, IInv, Queue
    PROVE  \E e \in Entry, d \in Delays : Model!Add(e, d)
  <1>1. PICK e \in Entry, d \in Delays : AddDelayedEvent(1, e, d)
    BY Single DEF Queue, IInv
  <1>2. /\ pc = "idle" /\ pc' = "idle" /\ queue' = [queue EXCEPT ![1] = Append(@, e)]
        /\ delay' = [delay EXCEPT ![e] = d] /\ d > 0 /\ ~Created(e)
        /\ UNCHANGED <<country, doomed, fired, discarded>>
    BY <1>1 DEF Queue, AddDelayedEvent, Queueable
  <1> DEFINE V == Vector
             t == Append(V, e)
             g == Evening'
             x == [id |-> e, delay |-> d]
  <1>3. /\ V = queue[1] /\ V \in Seq(Entry) /\ country = 1
        /\ \A y : y \in ToSet(V) <=> \E i \in 1 .. Len(V) : V[i] = y
    BY Single DEF IInv
  <1>4. Doomed = {} /\ Doomed' = {}
    BY <1>2 DEF IInv, Resting, Doomed, ToSet
  <1>5. Vector' = t
    <2>1. 1 \in Country /\ queue \in [Country -> Seq(Entry)]
      BY Single DEF IInv, TypeOK
    <2> QED
      BY <1>2, <1>3, <2>1 DEF Vector
  <1>6. delay \in [Entry -> Int] /\ d \in Int
    BY CountryQueueAssumption DEF CountryQueueAssumption, IInv, TypeOK
  <1>7. Evening' = [y \in Entry |-> [id |-> y, delay |-> delay'[y]]]
    BY DEF Evening
  <1>8. delay' \in [Entry -> Int]
    BY <1>2, <1>6
  <1>9. g \in [Entry -> Timed] /\ g[e] = x
    <2>1. \A y \in Entry : [id |-> y, delay |-> delay'[y]] \in Timed
      BY <1>8 DEF Timed
    <2>2. delay'[e] = d
      BY <1>2, <1>6
    <2> QED
      BY <1>7, <2>1, <2>2
  <1>10. e \notin ToSet(V) /\ e \notin ToSet(fired) /\ e \notin discarded
    <2>1. e \notin Pending /\ e \notin ToSet(fired) /\ e \notin discarded
      BY <1>2 DEF IInv, ExactlyOnce
    <2>2. ToSet(V) \subseteq Pending
      BY <1>3, <1>4, Single DEF Pending, Doomed, IInv
    <2> QED
      BY <2>1, <2>2
  <1>11. \A i \in 1 .. Len(V) : g[V[i]] = Evening[V[i]]
    <2> SUFFICES ASSUME NEW i \in 1 .. Len(V) PROVE g[V[i]] = Evening[V[i]]
      OBVIOUS
    <2>1. V[i] \in Entry /\ V[i] # e
      BY <1>3, <1>10
    <2>2. delay'[V[i]] = delay[V[i]]
      BY <1>2, <1>6, <2>1
    <2> QED
      BY <1>7, <2>1, <2>2 DEF Evening
  <1> HIDE DEF V, x
  <1>12. ModelVec = Mapped(Evening, V)
    <2>1. ModelVec = Mapped(Evening, Keep(V, Entry \ {}))
      BY <1>2, <1>4 DEF ModelVec, AtWork, V
    <2> QED
      BY <1>3, <2>1, NothingListed
  <1>13. ModelVec' = Mapped(g, t)
    <2>1. ModelVec' = Mapped(g, Keep(t, Entry \ {}))
      BY <1>2, <1>4, <1>5 DEF ModelVec, AtWork
    <2>2. t \in Seq(Entry)
      BY <1>3
    <2> HIDE DEF t, g
    <2> QED
      BY <2>1, <2>2, NothingListed
  <1>14. Mapped(g, t) = Append(Mapped(g, V), x)
    <2>1. g \in [Entry -> Timed]
      BY <1>9
    <2>2. V \in Seq(Entry)
      BY <1>3
    <2> HIDE DEF g
    <2>3. Mapped(g, Append(V, e)) = Append(Mapped(g, V), g[e])
      BY <2>1, <2>2, MappedByDayGrows
    <2> QED
      BY <1>9, <2>3
  <1>15. Mapped(g, V) = Mapped(Evening, V)
    <2> HIDE DEF g
    <2> QED
      BY <1>3, <1>11, MappedAlike
  <1>16. ModelVec' = Append(ModelVec, x)
    BY <1>12, <1>13, <1>14, <1>15
  <1>17. Model!Ids(ModelVec) = V
    <2>1. \A i \in 1 .. Len(V) : V[i] \in Entry
      BY <1>3
    <2>2. \A i \in 1 .. Len(V) : Evening[V[i]].id = V[i]
      BY <2>1, EntriesOfTheDay DEF IInv
    <2> QED
      BY <1>3, <1>12, <2>2, IdsOfMapped
  <1>18. /\ ModelFired = fired /\ ModelFired' = fired
         /\ ModelDiscarded = discarded /\ ModelDiscarded' = discarded
    BY <1>2 DEF ModelFired, ModelDiscarded, AtWork
  <1>19. Model!ToSet(Model!Ids(ModelVec)) = ToSet(V) /\ Model!ToSet(ModelFired) = ToSet(fired)
    BY <1>17, <1>18 DEF Model!ToSet, ToSet
  <1>20. Model!Add(e, d)
    BY <1>2, <1>10, <1>16, <1>18, <1>19 DEF Model!Add, x
  <1> QED
    BY <1>20

\* A scan that begins leaves the morning as it is.
LEMMA StartDayMaps ==
    ASSUME N = 1, JInv, StartDay
    PROVE  UNCHANGED Model!vars
  <1>1. /\ pc = "idle" /\ pc' = "scan" /\ country' = 1 /\ unseen' = ToSet(queue[1])
        /\ UNCHANGED <<queue, delay, doomed, fired, discarded>>
    BY DEF StartDay, Enter
  <1> DEFINE V == Vector
             g == Morning'
  <1>2. V = queue[1] /\ V \in Seq(Entry) /\ Vector' = V
    BY <1>1, Single DEF JInv, IInv, Vector
  <1>3. Doomed = {} /\ Doomed' = {}
    BY <1>1 DEF JInv, IInv, Resting, Doomed, ToSet
  <1>4. Counted' = {}
    BY <1>1, <1>2 DEF Counted
  <1>5. \A y \in Entry : g[y] = Evening[y]
    BY <1>1, <1>4 DEF Morning, Evening
  <1>6. \A i \in 1 .. Len(V) : g[V[i]] = Evening[V[i]]
    <2>1. \A i \in 1 .. Len(V) : V[i] \in Entry
      BY <1>2
    <2> QED
      BY <1>5, <2>1
  <1> HIDE DEF V
  <1>7. ModelVec = Mapped(Evening, V)
    <2>1. ModelVec = Mapped(Evening, Keep(V, Entry \ {}))
      BY <1>1, <1>3 DEF ModelVec, AtWork, V
    <2> QED
      BY <1>2, <2>1, NothingListed
  <1>8. ModelVec' = Mapped(g, V)
    BY <1>1, <1>2 DEF ModelVec, AtWork
  <1>9. Mapped(g, V) = Mapped(Evening, V)
    <2> HIDE DEF g
    <2> QED
      BY <1>2, <1>6, MappedAlike
  <1>10. ModelFired' = ModelFired
    <2>1. fired \in Seq(Entry)
      BY DEF JInv, IInv, TypeOK
    <2>2. Entry \ {} = Entry /\ Keep(fired, Entry) = fired
      BY <2>1, KeepAll
    <2>3. ModelFired = fired /\ ModelFired' = Keep(fired, Entry \ {})
      BY <1>1, <1>3 DEF ModelFired, AtWork
    <2> QED
      BY <2>2, <2>3
  <1>11. ModelDiscarded' = ModelDiscarded
    BY <1>1, <1>3 DEF ModelDiscarded, AtWork
  <1> QED
    BY <1>7, <1>8, <1>9, <1>10, <1>11 DEF Model!vars

\* An entry the scan discards, counts down or fires still looks as it did in the morning.
LEMMA DiscardMaps ==
    ASSUME N = 1, JInv, Discard
    PROVE  UNCHANGED Model!vars
  <1>1. PICK e \in Entry :
            /\ Load(e) /\ doomed' = Append(doomed, e) /\ discarded' = discarded \cup {e}
            /\ UNCHANGED <<queue, capacity, delay, pc, country, edi, fired>>
    BY DEF Discard
  <1>2. pc' \in {"scan", "fire"} /\ unseen' = unseen \ {e}
    BY <1>1 DEF Load
  <1>3. /\ Vector' = Vector /\ e \in unseen
        /\ e \in ToSet(Vector) /\ e \notin Doomed /\ e \notin discarded
        /\ e \notin ToSet(fired)
        /\ AtWork /\ AtWork'
    BY <1>1, <1>2, JLoad
  <1>4. Doomed' = Doomed \cup {e}
    <2>1. doomed \in Seq(Entry)
      BY DEF JInv, IInv, TypeOK
    <2>2. ToSet(Append(doomed, e)) = ToSet(doomed) \cup {e}
      BY <2>1, AppendMembers
    <2> QED
      BY <1>1, <2>2 DEF Doomed
  <1>5. Counted' = Counted
    BY <1>1, <1>2, <1>3 DEF Counted
  <1>6. ModelVec' = ModelVec
    <2>1. Morning' = Morning
      BY <1>1, <1>5 DEF Morning
    <2> QED
      BY <1>3, <2>1 DEF ModelVec
  <1>7. ModelFired' = ModelFired
    <2>1. Keep(fired, Entry \ (Doomed \cup {e})) = Keep(fired, Entry \ Doomed)
      BY <1>3, ListingKeeps DEF JInv, IInv, TypeOK
    <2> QED
      BY <1>1, <1>3, <1>4, <2>1 DEF ModelFired
  <1>8. ModelDiscarded' = ModelDiscarded
    <2>1. discarded' \ Doomed' = discarded \ Doomed
      BY <1>1, <1>3, <1>4
    <2> QED
      BY <1>3, <2>1 DEF ModelDiscarded
  <1> QED
    BY <1>6, <1>7, <1>8 DEF Model!vars

LEMMA CountDownMaps ==
    ASSUME N = 1, JInv, CountDown
    PROVE  UNCHANGED Model!vars
  <1>1. PICK e \in Entry :
            /\ Load(e) /\ delay' = [delay EXCEPT ![e] = @ - 1]
            /\ IF Expired(delay[e] - 1) THEN pc' = "fire" /\ edi' = e
                                        ELSE UNCHANGED <<pc, edi>>
            /\ UNCHANGED <<queue, country, doomed, fired, discarded>>
    BY DEF CountDown
  <1>2. pc' \in {"scan", "fire"} /\ unseen' = unseen \ {e}
    BY <1>1 DEF Load
  <1>3. /\ Vector' = Vector /\ e \in unseen /\ e \in ToSet(Vector)
        /\ e \notin discarded /\ AtWork /\ AtWork'
    BY <1>1, <1>2, JLoad
  <1>4. Doomed' = Doomed
    BY <1>1 DEF Doomed
  <1>5. e \notin Counted /\ Counted' = Counted \cup {e}
    BY <1>1, <1>2, <1>3 DEF Counted
  <1>6. delay \in [Entry -> Int]
    BY DEF JInv, IInv, TypeOK
  <1>7. Morning' = Morning
    <2> SUFFICES ASSUME NEW y \in Entry
                 PROVE  (IF y \in Counted' THEN delay'[y] + 1 ELSE delay'[y])
                           = IF y \in Counted THEN delay[y] + 1 ELSE delay[y]
      BY DEF Morning
    <2>1. CASE y = e
      BY <1>1, <1>5, <1>6, <2>1
    <2>2. CASE y # e
      BY <1>1, <1>5, <1>6, <2>2
    <2> QED
      BY <2>1, <2>2
  <1>8. ModelVec' = ModelVec
    BY <1>3, <1>7 DEF ModelVec
  <1>9. ModelFired' = ModelFired /\ ModelDiscarded' = ModelDiscarded
    BY <1>1, <1>3, <1>4 DEF ModelFired, ModelDiscarded
  <1> QED
    BY <1>8, <1>9 DEF Model!vars

LEMMA FiredMaps ==
    ASSUME N = 1, JInv, Fired
    PROVE  UNCHANGED Model!vars
  <1>1. /\ pc = "fire" /\ pc' = "scan" /\ fired' = Append(fired, edi)
        /\ doomed' = Append(doomed, edi)
        /\ UNCHANGED <<queue, delay, country, iter, discarded, unseen>>
    BY DEF Fired
  <1>2. Vector \in Seq(Entry) /\ Place(1) = 1 .. Len(Vector) /\ country = 1
    BY Single DEF JInv, IInv
  <1>3. PICK p \in 1 .. Len(Vector) : FiresAt(p)
    BY <1>1, <1>2 DEF JInv, IInv, Firing
  <1>4. Vector[p] = edi /\ edi \notin Doomed /\ edi \in Entry
    BY <1>2, <1>3 DEF FiresAt, Doomed
  <1>5. edi \notin ToSet(fired) /\ edi \notin discarded
    BY <1>4, VectorEntries DEF JInv
  <1>6. doomed \in Seq(Entry) /\ fired \in Seq(Entry)
    BY DEF JInv, IInv, TypeOK
  <1>7. Doomed' = Doomed \cup {edi}
    <2>1. ToSet(Append(doomed, edi)) = ToSet(doomed) \cup {edi}
      BY <1>4, <1>6, AppendMembers
    <2> QED
      BY <1>1, <2>1 DEF Doomed
  <1>8. AtWork /\ AtWork' /\ Vector' = Vector
    BY <1>1 DEF AtWork, Vector
  <1>9. ModelVec' = ModelVec
    BY <1>1, <1>8 DEF ModelVec, Morning, Counted
  <1>10. ModelFired' = ModelFired
    <2> DEFINE B == Entry \ (Doomed \cup {edi})
    <2>1. Keep(fired, B) = Keep(fired, Entry \ Doomed)
      BY <1>4, <1>5, <1>6, ListingKeeps
    <2>2. edi \notin B
      OBVIOUS
    <2> HIDE DEF B
    <2>3. Keep(Append(fired, edi), B) = WithIf(Keep(fired, B), edi, B)
      BY <1>4, <1>6, KeepOneMore
    <2>4. Keep(Append(fired, edi), B) = Keep(fired, Entry \ Doomed)
      BY <2>1, <2>2, <2>3 DEF WithIf
    <2> QED
      BY <1>1, <1>7, <1>8, <2>4 DEF ModelFired, B
  <1>11. ModelDiscarded' = ModelDiscarded
    <2>1. discarded' \ Doomed' = discarded \ Doomed
      BY <1>1, <1>5, <1>7
    <2> QED
      BY <1>8, <2>1 DEF ModelDiscarded
  <1> QED
    BY <1>9, <1>10, <1>11 DEF Model!vars

\* To erase what is listed changes nothing of the list without it.
LEMMA EraseMaps ==
    ASSUME N = 1, JInv, Erase
    PROVE  UNCHANGED Model!vars
  <1>1. /\ pc = "erase" /\ doomed # <<>> /\ doomed' = Tail(doomed)
        /\ UNCHANGED <<pc, country, delay, fired, discarded>>
    BY DEF Erase
  <1>2. /\ Vector \in Seq(Entry) /\ country = 1 /\ Vector = queue[1]
        /\ DOMAIN Vector = 1 .. Len(Vector) /\ Len(Vector) \in Nat
        /\ \A x : x \in ToSet(Vector) <=> \E i \in 1 .. Len(Vector) : Vector[i] = x
    BY Single DEF JInv, IInv
  <1>3. PICK p \in 1 .. Len(Vector) :
            /\ Vector[p] = Head(doomed)
            /\ queue' = [queue EXCEPT ![country] = RemoveAt(@, p)]
    BY <1>2 DEF Erase
  <1> DEFINE V == Vector
             W == RemoveAt(V, p)
             C == Entry \ Doomed
             E == Entry \ Doomed'
  <1>4. Vector' = W
    <2>1. 1 \in Country /\ queue \in [Country -> Seq(Entry)]
      BY Single DEF JInv, IInv, TypeOK
    <2> QED
      BY <1>1, <1>2, <1>3, <2>1 DEF Vector
  <1>5. doomed \in Seq(Entry)
    BY DEF JInv, IInv, TypeOK
  <1>6. Doomed = Doomed' \cup {Head(doomed)}
    BY <1>1, <1>5, TailMembers DEF Doomed
  <1>7. V[p] \notin C
    BY <1>3, <1>6
  <1>8. /\ \A i, j \in 1 .. Len(V) : V[i] = V[j] => i = j
    BY VectorEntries DEF JInv
  <1>9. /\ W \in Seq(Entry) /\ Len(W) = Len(V) - 1
        /\ \A j \in 1 .. Len(V) - 1 : W[j] = IF j < p THEN V[j] ELSE V[j + 1]
    BY <1>2, RemoveAtShifts
  <1> HIDE DEF V, W
  <1>10. \A j \in 1 .. Len(W) : W[j] # V[p]
    <2> SUFFICES ASSUME NEW j \in 1 .. Len(W) PROVE W[j] # V[p]
      OBVIOUS
    <2>1. PICK i \in 1 .. Len(V) : i = IF j < p THEN j ELSE j + 1
      BY <1>2, <1>9 DEF V
    <2>2. W[j] = V[i] /\ i # p
      BY <1>2, <1>9, <2>1 DEF V
    <2> QED
      BY <1>8, <2>2 DEF V
  <1>11. Alike(W, C, E)
    <2> SUFFICES ASSUME NEW j \in 1 .. Len(W) PROVE W[j] \in C <=> W[j] \in E
      BY DEF Alike
    <2>1. W[j] # Head(doomed)
      BY <1>3, <1>10 DEF V
    <2> QED
      BY <1>6, <2>1
  <1> HIDE DEF C, E
  <1>12. Keep(W, E) = Keep(W, C)
    BY <1>9, <1>11, KeepSame
  <1>13. Keep(W, C) = Keep(V, C)
    BY <1>2, <1>7, KeepErased DEF V, W
  <1>14. Evening' = Evening /\ ~AtWork /\ ~AtWork'
    BY <1>1 DEF Evening, AtWork
  <1>15. ModelVec' = ModelVec
    BY <1>4, <1>12, <1>13, <1>14 DEF ModelVec, C, E, V
  <1> QED
    BY <1>1, <1>14, <1>15 DEF ModelFired, ModelDiscarded, Model!vars

LEMMA EndDayMaps ==
    ASSUME N = 1, JInv, EndDay
    PROVE  UNCHANGED Model!vars
  <1>1. /\ pc = "erase" /\ pc' = "idle" /\ country' = 1
        /\ UNCHANGED <<queue, delay, doomed, fired, discarded>>
    BY DEF EndDay
  <1>2. Vector' = Vector
    BY <1>1, Single DEF JInv, IInv, Vector
  <1>3. ~AtWork /\ ~AtWork' /\ Evening' = Evening /\ Doomed' = Doomed
    BY <1>1 DEF AtWork, Evening, Doomed
  <1> QED
    BY <1>1, <1>2, <1>3 DEF ModelVec, ModelFired, ModelDiscarded, Model!vars

\* To cut down a mapped list by what its elements are mapped to.
LEMMA MappedPart ==
    ASSUME NEW f \in [Entry -> Timed], NEW z \in Seq(Entry), NEW D, NEW Y,
           \A i \in 1 .. Len(z) : f[z[i]] \in Y <=> z[i] \in D
    PROVE  Keep(Mapped(f, z), Y) = Mapped(f, Keep(z, D))
  <1> DEFINE X == TakenInto(Entry, f, Y)
  <1>1. Keep(Mapped(f, z), Y) = Mapped(f, Keep(z, X))
    BY KeepMapped
  <1>2. Alike(z, X, D)
    <2> SUFFICES ASSUME NEW i \in 1 .. Len(z) PROVE z[i] \in X <=> z[i] \in D
      BY DEF Alike
    <2>1. z[i] \in Entry
      OBVIOUS
    <2> QED
      BY <2>1 DEF TakenInto
  <1> HIDE DEF X
  <1>3. Keep(z, X) = Keep(z, D)
    BY <1>2, KeepSame
  <1> QED
    BY <1>1, <1>3

LEMMA InMapped ==
    ASSUME NEW f, NEW z \in Seq(Entry)
    PROVE  \A i \in 1 .. Len(z) : f[z[i]] \in Model!ToSet(Mapped(f, z))
  <1>1. DOMAIN z = 1 .. Len(z)
    OBVIOUS
  <1> QED
    BY <1>1 DEF Mapped, Model!ToSet

\* What is left of a list after those invalid are gone.
LEMMA ValidOnes ==
    ASSUME NEW z \in Seq(Entry), NEW D
    PROVE  /\ Keep(z, D) \in Seq(Entry)
           /\ \A i \in 1 .. Len(Keep(z, D)) :
                 /\ Keep(z, D)[i] \in Entry /\ Keep(z, D)[i] \in D
                 /\ \E j \in 1 .. Len(z) : z[j] = Keep(z, D)[i]
  <1> DEFINE P == {z[j] : j \in 1 .. Len(z)}
             w == Keep(z, D)
  <1>1. z \in Seq(P)
    <2>1. z = [i \in 1 .. Len(z) |-> z[i]] /\ Len(z) \in Nat
      OBVIOUS
    <2>2. \A i \in 1 .. Len(z) : z[i] \in P
      OBVIOUS
    <2> HIDE DEF P
    <2> QED
      BY <2>1, <2>2
  <1> HIDE DEF P
  <1>2. w \in Seq(P)
    BY <1>1, KeepType
  <1>3. w \in Seq(Entry) /\ w \in Seq(D)
    BY KeepType
  <1> HIDE DEF w
  <1>4. \A i \in 1 .. Len(w) : w[i] \in P /\ w[i] \in Entry /\ w[i] \in D
    BY <1>2, <1>3
  <1> QED
    BY <1>3, <1>4 DEF w, P

\* The scan that ends is the day: those discarded since the morning were the invalid ones.
LEMMA EndScanMaps ==
    ASSUME N = 1, JInv, EndScan
    PROVE  Model!Tick(Doomed \cap discarded)
  <1> DEFINE V == Vector
             I == Doomed \cap discarded
             C == Entry \ I
             E == Entry \ Doomed
             F == Doomed \ discarded
             W == Keep(V, C)
  <1>1. /\ pc = "scan" /\ pc' = "erase" /\ iter \notin DOMAIN Vector /\ AtWork /\ ~AtWork'
        /\ UNCHANGED <<queue, delay, country, doomed, fired, discarded>>
    BY DEF EndScan, AtWork
  <1>2. /\ V \in Seq(Entry) /\ DOMAIN V = 1 .. Len(V) /\ Len(V) \in Nat
        /\ \A x : x \in ToSet(V) <=> \E i \in 1 .. Len(V) : V[i] = x
    BY Single DEF JInv, IInv
  <1>3. unseen = {}
    <2>1. iter \in Nat /\ iter # 0 /\ unseen = {V[i] : i \in iter .. Len(V)}
      BY <1>1 DEF JInv, IInv, TypeOK, InBuffer, Ahead, OutOfBuffer
    <2>2. iter > Len(V)
      BY <1>1, <1>2, <2>1
    <2> QED
      BY <1>2, <2>1, <2>2
  <1>4. /\ Morning \in [Entry -> Timed]
        /\ \A e \in Entry : Morning[e].id = e
    BY EntriesOfTheDay DEF JInv, IInv
  <1>5. /\ Evening \in [Entry -> Timed]
        /\ \A e \in Entry : Evening[e].id = e /\ Evening[e].delay = delay[e]
    BY EntriesOfTheDay DEF JInv, IInv
  <1>6. delay \in [Entry -> Int] /\ doomed \in Seq(Entry)
    BY DEF JInv, IInv, TypeOK
  <1>7. Doomed \subseteq Entry
    BY <1>6, ToSetMembers DEF Doomed
  <1>8. /\ W \in Seq(Entry)
        /\ \A i \in 1 .. Len(W) :
              W[i] \in Entry /\ W[i] \in C /\ \E j \in 1 .. Len(V) : V[j] = W[i]
    <2> HIDE DEF V, C
    <2> QED
      BY <1>2, ValidOnes
  <1>9. \A i \in 1 .. Len(V) :
           V[i] \notin Doomed => V[i] \notin discarded /\ delay[V[i]] > 0
    BY <1>1, VectorEntries DEF JInv
  <1>10. ToSet(V) \ discarded = Counted
    BY <1>3 DEF Counted
  <1> HIDE DEF V, W
  <1>11. ASSUME NEW i \in 1 .. Len(W)
         PROVE  /\ W[i] \in Entry /\ W[i] \in Counted /\ W[i] \notin discarded
                /\ delay[W[i]] \in Int
                /\ W[i] \in E <=> delay[W[i]] > 0
                /\ W[i] \in F <=> delay[W[i]] <= 0
    <2>1. PICK j \in 1 .. Len(V) : V[j] = W[i]
      BY <1>8
    <2>2. W[i] \in Entry /\ W[i] \in ToSet(V) /\ ~(W[i] \in Doomed /\ W[i] \in discarded)
      BY <1>2, <1>8, <2>1
    <2>3. W[i] \notin discarded
      BY <1>9, <2>1, <2>2
    <2>4. delay[W[i]] \in Int
      BY <1>6, <2>2
    <2>5. W[i] \in Doomed => delay[W[i]] <= 0
      BY <2>3 DEF JInv, ExpiredToday
    <2>6. W[i] \notin Doomed => delay[W[i]] > 0
      BY <1>9, <2>1
    <2> QED
      BY <1>10, <2>2, <2>3, <2>4, <2>5, <2>6
  <1> DEFINE X == {x \in Model!ToSet(ModelVec) : x.id \notin I}
             valid == Keep(ModelVec, X)
  <1>12. ModelVec = Mapped(Morning, V)
    BY <1>1 DEF ModelVec, V
  <1>13. valid = Mapped(Morning, W)
    <2>1. \A i \in 1 .. Len(V) : Morning[V[i]] \in X <=> V[i] \in C
      <3> SUFFICES ASSUME NEW i \in 1 .. Len(V) PROVE Morning[V[i]] \in X <=> V[i] \in C
        OBVIOUS
      <3>1. V[i] \in Entry
        BY <1>2
      <3>2. Morning[V[i]].id = V[i]
        BY <1>4, <3>1
      <3>3. Morning[V[i]] \in Model!ToSet(ModelVec)
        BY <1>2, <1>12, InMapped
      <3> QED
        BY <3>1, <3>2, <3>3
    <2> HIDE DEF X, C
    <2>2. Keep(Mapped(Morning, V), X) = Mapped(Morning, Keep(V, C))
      BY <1>2, <1>4, <2>1, MappedPart
    <2> QED
      BY <1>12, <2>2 DEF W
  <1> DEFINE counted == [i \in DOMAIN valid |-> [valid[i] EXCEPT !.delay = @ - 1]]
  <1>14. counted = Mapped(Evening, W)
    <2>1. DOMAIN W = 1 .. Len(W)
      BY <1>8
    <2>2. DOMAIN valid = DOMAIN W /\ \A i \in DOMAIN W : valid[i] = Morning[W[i]]
      BY <1>13 DEF Mapped
    <2>3. ASSUME NEW i \in 1 .. Len(W)
          PROVE  [Morning[W[i]] EXCEPT !.delay = @ - 1] = Evening[W[i]]
      <3>1. Morning[W[i]] = [id |-> W[i], delay |-> delay[W[i]] + 1]
        BY <1>11 DEF Morning
      <3>2. Evening[W[i]] = [id |-> W[i], delay |-> delay[W[i]]]
        BY <1>11 DEF Evening
      <3>3. delay[W[i]] \in Int
        BY <1>11
      <3> QED
        BY <3>1, <3>2, <3>3
    <2> HIDE DEF valid
    <2>4. counted = [i \in 1 .. Len(W) |-> Evening[W[i]]]
      BY <2>1, <2>2, <2>3
    <2> QED
      BY <2>1, <2>4 DEF Mapped
  <1> HIDE DEF X, valid
  <1> DEFINE Y == {x \in Model!ToSet(counted) : x.delay > 0}
             Z == {x \in Model!ToSet(counted) : x.delay <= 0}
  <1> HIDE DEF counted
  <1>15. \A i \in 1 .. Len(W) : /\ Evening[W[i]] \in Model!ToSet(counted)
                                /\ Evening[W[i]].delay = delay[W[i]]
    BY <1>5, <1>8, <1>14, InMapped
  <1>16. Keep(counted, Y) = Mapped(Evening, Keep(V, E))
    <2>1. \A i \in 1 .. Len(W) : Evening[W[i]] \in Y <=> W[i] \in E
      <3> HIDE DEF E
      <3> QED
        BY <1>11, <1>15
    <2>2. C \cap E = E
      OBVIOUS
    <2> HIDE DEF Y, E, C
    <2>3. Keep(Mapped(Evening, W), Y) = Mapped(Evening, Keep(W, E))
      BY <1>5, <1>8, <2>1, MappedPart
    <2>4. Keep(W, E) = Keep(V, E)
      BY <1>2, <2>2, KeepTwice DEF W
    <2> QED
      BY <1>14, <2>3, <2>4
  <1>17. Model!Ids(Keep(counted, Z)) = Keep(V, F)
    <2>1. \A i \in 1 .. Len(W) : Evening[W[i]] \in Z <=> W[i] \in F
      <3> HIDE DEF F
      <3> QED
        BY <1>11, <1>15
    <2>2. C \cap F = F
      BY <1>7
    <2> HIDE DEF Z, F, C
    <2>3. Keep(Mapped(Evening, W), Z) = Mapped(Evening, Keep(W, F))
      BY <1>5, <1>8, <2>1, MappedPart
    <2>4. Keep(W, F) = Keep(V, F) /\ Keep(V, F) \in Seq(Entry)
      BY <1>2, <2>2, KeepTwice, KeepType DEF W
    <2>5. Model!Ids(Mapped(Evening, Keep(V, F))) = Keep(V, F)
      <3> DEFINE q == Keep(V, F)
      <3> HIDE DEF q
      <3>1. q \in Seq(Entry)
        BY <2>4 DEF q
      <3>2. \A i \in 1 .. Len(q) : Evening[q[i]].id = q[i]
        BY <1>5, <3>1
      <3>3. Model!Ids(Mapped(Evening, q)) = q
        BY <3>1, <3>2, IdsOfMapped
      <3> QED
        BY <3>3 DEF q
    <2> QED
      BY <1>14, <2>3, <2>4, <2>5
  <1>18. Vector' = V /\ Evening' = Evening /\ Doomed' = Doomed
    BY <1>1 DEF V, Vector, Evening, Doomed
  <1>19. ModelVec' = Keep(counted, Y)
    BY <1>1, <1>16, <1>18 DEF ModelVec
  <1>20. ModelFired' = ModelFired \o Model!Ids(Keep(counted, Z))
    <2>1. fired = Keep(fired, E) \o Keep(V, F)
      BY <1>1 DEF JInv, FiredInOrder, V
    <2> QED
      BY <1>1, <1>17, <2>1 DEF ModelFired
  <1>21. ModelDiscarded' = ModelDiscarded \cup I
    BY <1>1 DEF ModelDiscarded
  <1> HIDE DEF I, Y, Z
  <1>22. /\ ModelVec' = Model!Keep(counted, Y)
         /\ ModelFired' = ModelFired \o Model!Ids(Model!Keep(counted, Z))
         /\ counted = [i \in DOMAIN Model!Keep(ModelVec, X) |->
                          [Model!Keep(ModelVec, X)[i] EXCEPT !.delay = @ - 1]]
    <2>1. Model!Keep(counted, Y) = Keep(counted, Y) /\ Model!Keep(counted, Z) = Keep(counted, Z)
          /\ Model!Keep(ModelVec, X) = valid
      BY ModelKeeps DEF valid
    <2> QED
      BY <1>19, <1>20, <2>1 DEF counted
  <1>23. Model!Tick(I)
    BY <1>21, <1>22, Zenon DEF Model!Tick, X, Y, Z
  <1> QED
    BY <1>23 DEF I

LEMMA InvalidAreQueued ==
    ASSUME N = 1, JInv, EndScan
    PROVE  Doomed \cap discarded \in SUBSET Model!ToSet(Model!Ids(ModelVec))
  <1>1. AtWork
    BY DEF EndScan, AtWork
  <1>2. Vector \in Seq(Entry) /\ ModelVec = Mapped(Morning, Vector)
    BY <1>1, Single DEF JInv, IInv, ModelVec
  <1>3. \A i \in 1 .. Len(Vector) : Morning[Vector[i]].id = Vector[i]
    BY <1>2, EntriesOfTheDay DEF JInv, IInv
  <1>4. Model!Ids(ModelVec) = Vector
    BY <1>2, <1>3, IdsOfMapped
  <1>5. Model!ToSet(Vector) = ToSet(Vector)
    BY DEF Model!ToSet, ToSet
  <1> QED
    BY <1>1, <1>4, <1>5 DEF JInv, OfVector

LEMMA StepMaps ==
    ASSUME N = 1, ~Reentrant, JInv, [Next]_vars
    PROVE  [Model!Next]_(Model!vars)
  <1>1. CASE Queue
    BY <1>1, QueueMaps DEF JInv, Model!Next
  <1>2. CASE FireQueues
    BY <1>2 DEF FireQueues
  <1>3. CASE StartDay
    BY <1>3, StartDayMaps
  <1>4. CASE Discard
    BY <1>4, DiscardMaps
  <1>5. CASE CountDown
    BY <1>5, CountDownMaps
  <1>6. CASE Fired
    BY <1>6, FiredMaps
  <1>7. CASE EndScan
    BY <1>7, EndScanMaps, InvalidAreQueued DEF Model!Next
  <1>8. CASE Erase
    BY <1>8, EraseMaps
  <1>9. CASE NextCountry
    BY <1>9, Single DEF JInv, IInv, NextCountry
  <1>10. CASE EndDay
    BY <1>10, EndDayMaps
  <1>11. CASE UNCHANGED vars
    BY <1>11 DEF vars, program, history, Model!vars, ModelVec, ModelFired, ModelDiscarded,
               AtWork, Doomed, Morning, Evening, Counted, Vector
  <1> QED
    BY <1>1, <1>2, <1>3, <1>4, <1>5, <1>6, <1>7, <1>8, <1>9, <1>10, <1>11 DEF Next, Tick

\* A country whose fired events queue nothing goes through its vector, its deletion list
\* and the erasures as if every day were one step of the reference model.
THEOREM ScanIsTheModelsDay == ASSUME N = 1, ~Reentrant PROVE Spec => ImplementsTickModel
  <1>1. JInv /\ [Next]_vars => [Model!Next]_(Model!vars)
    BY StepMaps
  <1> QED
    BY <1>1, InitMaps, JInvariance, PTL DEF Spec, Model!Spec, ImplementsTickModel
===============================================================================
