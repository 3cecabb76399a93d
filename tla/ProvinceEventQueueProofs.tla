----------------------- MODULE ProvinceEventQueueProofs -----------------------
(***************************************************************************)
(* Theorems of ProvinceEventQueue for any set of entries, any delays and   *)
(* with or without re-entrance.  The argument is a budget of days that     *)
(* every queued entry carries: see InBudget.                               *)
(*                                                                         *)
(* Without re-entrance the loop implements ProvinceTickModel.  A scan that *)
(* has begun is mapped to what it will come to, which no step of it        *)
(* changes: the reference model's loop is a function of the list it is     *)
(* given, it exists because every turn brings it nearer to the end of the  *)
(* list, and one turn of it is one Evaluate, or an Evaluate and the        *)
(* FireAndErase that follows.                                              *)
(***************************************************************************)
EXTENDS ProvinceEventQueueRefinement, CollectionLemmas

USE DEF Expired, Begin

-------------------------------------------------------------------------------
(* The inductive invariant. *)

NoDuplicates == \A i, j \in 1 .. Len(queue) : queue[i] = queue[j] => i = j

\* The entry being fired is still in the vector, right behind the iterator
\* unless the buffer has moved.
FiringInQueue ==
    pc = "fire" => \E p \in 1 .. Len(queue) : queue[p] = ebx /\ iter \in {0, p + 1}

\* Position i will be, or would have been, evaluated by the scan in progress.
Waiting(i) ==
    \/ pc = "scan" /\ iter # OutOfBuffer /\ iter <= i
    \/ pc = "fire" /\ \E p \in 1 .. Len(queue) : queue[p] = ebx /\ p < i

\* The timer only reaches zero at the entry that is being fired.
TimersRun ==
    \A i \in 1 .. Len(queue) :
        IF pc = "fire" /\ queue[i] = ebx THEN delay[queue[i]] = 0
                                         ELSE delay[queue[i]] > 0

\* Days waited, days left and places left to move up never add up to more than
\* what the entry was queued with, but for the day that has begun and that the
\* scan still owes it; and days are not counted twice.
Owed(i) == IF Waiting(i) THEN 1 ELSE 0
Budget(waited, left, place, term, front, owed) ==
    /\ waited + left + (place - 1) <= term + front + owed
    /\ term - 1 + owed <= waited + left
InBudget ==
    \A i \in 1 .. Len(queue) :
        LET e == queue[i]
        IN  Budget(age[e], delay[e], i, asked[e], ahead[e], Owed(i))

Unborn == \A e \in Entry : ~Created(e) => age[e] = 0

IInv == /\ TypeOK
        /\ NoDuplicates
        /\ ExactlyOnce
        /\ FiringInQueue
        /\ TimersRun
        /\ InBudget
        /\ Unborn
        /\ LatenessBounded
        /\ NeverEarly

-------------------------------------------------------------------------------
(* It holds initially and every action preserves it. *)

LEMMA InitInvariant == Init => IInv
  <1> SUFFICES ASSUME Init PROVE IInv
    OBVIOUS
  <1>1. Len(queue) = 0 /\ Len(fired) = 0 /\ ToSet(queue) = {} /\ ToSet(fired) = {}
    BY DEF Init, ToSet
  <1>2. TypeOK
    BY DEF Init, TypeOK, OutOfBuffer
  <1>3. NoDuplicates /\ FiringInQueue /\ TimersRun /\ InBudget
    BY <1>1 DEF Init, NoDuplicates, FiringInQueue, TimersRun, InBudget
  <1>4. ExactlyOnce
    <2>1. /\ \A i, j \in DOMAIN queue : queue[i] = queue[j] => i = j
          /\ \A i, j \in DOMAIN fired : fired[i] = fired[j] => i = j
      BY DEF Init
    <2> QED
      BY <1>1, <2>1 DEF Init, ExactlyOnce, Created
  <1>5. Unborn /\ LatenessBounded /\ NeverEarly
    BY <1>1 DEF Init, Unborn, LatenessBounded, NeverEarly
  <1> QED
    BY <1>2, <1>3, <1>4, <1>5 DEF IInv

\* The four ways a step moves a budget: a day begins, an entry is counted down,
\* an entry moves up, an entry moves up and loses its evaluation of the day.
LEMMA BudgetSteps ==
    ASSUME NEW waited \in Int, NEW left \in Int, NEW place \in Int,
           NEW term \in Int, NEW front \in Int
    PROVE  /\ Budget(waited, left, place, term, front, 0)
                 => Budget(waited + 1, left, place, term, front, 1)
           /\ Budget(waited, left, place, term, front, 1)
                 => Budget(waited, left - 1, place, term, front, 0)
           /\ \A owed \in {0, 1} :
                 Budget(waited, left, place + 1, term, front, owed)
                     => Budget(waited, left, place, term, front, owed)
           /\ Budget(waited, left, place + 1, term, front, 1)
                 => Budget(waited, left, place, term, front, 0)
  BY DEF Budget

\* What the invariant says of the entry at one position.
LEMMA EntryFacts ==
    ASSUME IInv, NEW i \in 1 .. Len(queue)
    PROVE  /\ queue[i] \in Entry /\ queue[i] \in ToSet(queue)
           /\ queue[i] \notin ToSet(fired)
           /\ age[queue[i]] \in Nat /\ asked[queue[i]] \in Nat
           /\ ahead[queue[i]] \in Nat /\ delay[queue[i]] \in Int
           /\ Budget(age[queue[i]], delay[queue[i]], i,
                     asked[queue[i]], ahead[queue[i]], Owed(i))
           /\ Owed(i) \in {0, 1}
           /\ pc # "fire" => delay[queue[i]] > 0
  <1>1. queue[i] \in Entry /\ queue[i] \in ToSet(queue)
    BY ToSetMembers DEF IInv, TypeOK
  <1>2. /\ age[queue[i]] \in Nat /\ asked[queue[i]] \in Nat
        /\ ahead[queue[i]] \in Nat /\ delay[queue[i]] \in Int
    BY <1>1 DEF IInv, TypeOK
  <1>3. queue[i] \notin ToSet(fired)
    BY <1>1 DEF IInv, ExactlyOnce
  <1>4. /\ Budget(age[queue[i]], delay[queue[i]], i,
                  asked[queue[i]], ahead[queue[i]], Owed(i))
        /\ Owed(i) \in {0, 1}
    BY DEF IInv, InBudget, Owed
  <1>5. pc # "fire" => delay[queue[i]] > 0
    BY DEF IInv, TimersRun
  <1> QED
    BY <1>1, <1>2, <1>3, <1>4, <1>5

\* push_back puts the new entry behind all others, with its whole budget.
LEMMA AddPreserves ==
    ASSUME IInv, NEW e \in Entry, NEW d \in Delays, AddDelayedEvent(e, d),
           pc \in {"idle", "fire"}
    PROVE  IInv'
  <1> USE ProvinceQueueAssumption DEF OutOfBuffer
  <1> DEFINE n == Len(queue)
  <1>1. /\ queue' \in Seq(Entry) /\ Len(queue') = n + 1
        /\ \A i \in 1 .. n : queue'[i] = queue[i]
        /\ queue'[n + 1] = e
        /\ ToSet(queue') = ToSet(queue) \cup {e}
    BY AppendMembers DEF IInv, TypeOK, AddDelayedEvent
  <1>2. d \in Nat /\ d > 0
    BY DEF AddDelayedEvent, Queueable
  <1>3. e \notin ToSet(queue) /\ e \notin ToSet(fired) /\ age[e] = 0
    BY DEF AddDelayedEvent, IInv, ExactlyOnce, Unborn
  <1>4. /\ \A i \in 1 .. n : queue[i] \in Entry /\ queue[i] # e
        /\ \A x : x \in ToSet(fired) => x \in Entry /\ x # e
    BY <1>3, ToSetMembers DEF IInv, TypeOK
  <1>5. TypeOK'
    <2>1. capacity' \in Nat /\ iter' \in Nat
      <3>1. capacity' \in {capacity, Grown(capacity)} /\ iter' \in {iter, 0}
        BY DEF AddDelayedEvent
      <3>2. capacity \in Nat /\ iter \in Nat
        BY DEF IInv, TypeOK
      <3>3. Grown(capacity) \in Nat
        BY <3>2 DEF Grown
      <3> QED
        BY <3>1, <3>2, <3>3
    <2>2. /\ delay' \in [Entry -> Int] /\ asked' \in [Entry -> Nat]
          /\ ahead' \in [Entry -> Nat]
      BY <1>2 DEF IInv, TypeOK, AddDelayedEvent
    <2>3. UNCHANGED <<pc, ebx, fired, age, seen, skipped>>
      BY DEF AddDelayedEvent
    <2> QED
      BY <1>1, <2>1, <2>2, <2>3 DEF IInv, TypeOK
  <1>6. NoDuplicates'
    BY <1>1, <1>4 DEF IInv, NoDuplicates
  <1>7. ExactlyOnce'
    <2>1. \A i, j \in DOMAIN queue' : queue'[i] = queue'[j] => i = j
      BY <1>1, <1>6 DEF NoDuplicates
    <2>2. fired' = fired
      BY DEF AddDelayedEvent
    <2>3. ToSet(queue') \cap ToSet(fired') = {}
      BY <1>1, <1>3, <2>2 DEF IInv, ExactlyOnce
    <2>4. ASSUME NEW x \in Entry
          PROVE  Created(x)' <=> x \in ToSet(queue') \cup ToSet(fired')
      <3>1. CASE x = e
        BY <1>1, <1>2, <3>1 DEF IInv, TypeOK, AddDelayedEvent, Created
      <3>2. CASE x # e
        <4>1. asked'[x] = asked[x]
          BY <3>2 DEF IInv, TypeOK, AddDelayedEvent
        <4> QED
          BY <1>1, <2>2, <3>2, <4>1 DEF IInv, ExactlyOnce, Created
      <3> QED
        BY <3>1, <3>2
    <2> QED
      BY <2>1, <2>2, <2>3, <2>4 DEF IInv, ExactlyOnce
  <1>8. FiringInQueue'
    BY <1>1 DEF IInv, FiringInQueue, AddDelayedEvent
  <1>9. TimersRun'
    <2>1. pc = "fire" => ebx # e
      BY <1>4 DEF IInv, FiringInQueue
    <2>2. /\ delay'[e] = d
          /\ \A i \in 1 .. n : delay'[queue[i]] = delay[queue[i]]
          /\ pc' = pc /\ ebx' = ebx
      BY <1>4 DEF IInv, TypeOK, AddDelayedEvent
    <2> QED
      BY <1>1, <1>2, <1>4, <2>1, <2>2 DEF IInv, TimersRun
  <1>10. InBudget'
    <2> SUFFICES ASSUME NEW i \in 1 .. n + 1
                 PROVE  Budget(age'[queue'[i]], delay'[queue'[i]], i,
                               asked'[queue'[i]], ahead'[queue'[i]], Owed(i)')
      BY <1>1 DEF InBudget
    <2>1. CASE i \in 1 .. n
      <3>1. Waiting(i)' <=> Waiting(i)
        BY <1>1, <1>4, <2>1 DEF IInv, FiringInQueue, Waiting, AddDelayedEvent
      <3>2. /\ queue'[i] = queue[i] /\ queue[i] \in Entry
            /\ age'[queue[i]] = age[queue[i]]
            /\ delay'[queue[i]] = delay[queue[i]]
            /\ asked'[queue[i]] = asked[queue[i]]
            /\ ahead'[queue[i]] = ahead[queue[i]]
        BY <1>1, <1>4, <2>1 DEF IInv, TypeOK, AddDelayedEvent
      <3> QED
        BY <2>1, <3>1, <3>2, EntryFacts DEF Budget, Owed
    <2>2. CASE i = n + 1
      <3>1. /\ queue'[i] = e /\ age'[e] = 0 /\ delay'[e] = d
            /\ asked'[e] = d /\ ahead'[e] = n /\ n \in Nat
        BY <1>1, <1>3, <2>2 DEF IInv, TypeOK, AddDelayedEvent
      <3>2. Owed(i)' \in {0, 1}
        BY DEF Owed
      <3> QED
        BY <1>2, <2>2, <3>1, <3>2 DEF Budget
    <2> QED
      BY <2>1, <2>2
  <1>11. Unborn'
    BY <1>2 DEF IInv, TypeOK, Unborn, AddDelayedEvent, Created
  <1>12. LatenessBounded' /\ NeverEarly'
    BY <1>4 DEF IInv, TypeOK, LatenessBounded, NeverEarly, AddDelayedEvent
  <1> QED
    BY <1>5, <1>6, <1>7, <1>8, <1>9, <1>10, <1>11, <1>12 DEF IInv

\* Beginning a day charges it to every entry and owes it one evaluation.
LEMMA StartScanPreserves == IInv /\ StartScan => IInv'
  <1> SUFFICES ASSUME IInv, StartScan PROVE IInv'
    OBVIOUS
  <1> USE DEF OutOfBuffer
  <1>1. /\ UNCHANGED <<queue, capacity, delay, ebx, fired, asked, ahead, skipped>>
        /\ pc = "idle" /\ pc' = "scan" /\ iter' = 1 /\ seen' = {}
    BY DEF StartScan
  <1>2. /\ age' \in [Entry -> Nat]
        /\ \A e \in Entry : age'[e] = IF e \in ToSet(queue) THEN age[e] + 1 ELSE age[e]
    BY DEF IInv, TypeOK, StartScan, Pending
  <1>3. TypeOK'
    BY <1>1, <1>2 DEF IInv, TypeOK
  <1>4. NoDuplicates' /\ FiringInQueue'
    BY <1>1 DEF IInv, NoDuplicates, FiringInQueue
  <1>5. ExactlyOnce'
    BY <1>1 DEF IInv, ExactlyOnce, Created
  <1>6. TimersRun'
    BY <1>1 DEF IInv, TimersRun
  <1>7. InBudget'
    <2> SUFFICES ASSUME NEW i \in 1 .. Len(queue)
                 PROVE  Budget(age'[queue[i]], delay'[queue[i]], i,
                               asked'[queue[i]], ahead'[queue[i]], Owed(i)')
      BY <1>1 DEF InBudget
    <2>1. Owed(i) = 0 /\ Owed(i)' = 1
      BY <1>1 DEF Owed, Waiting
    <2>2. age'[queue[i]] = age[queue[i]] + 1
      BY <1>2, EntryFacts
    <2>3. /\ Budget(age[queue[i]], delay[queue[i]], i,
                    asked[queue[i]], ahead[queue[i]], Owed(i))
          /\ age[queue[i]] \in Nat /\ asked[queue[i]] \in Nat
          /\ ahead[queue[i]] \in Nat /\ delay[queue[i]] \in Int
          /\ i \in Nat
      BY EntryFacts
    <2>4. delay' = delay /\ asked' = asked /\ ahead' = ahead
      BY <1>1
    <2>5. Budget(age[queue[i]] + 1, delay[queue[i]], i,
                 asked[queue[i]], ahead[queue[i]], 1)
      <3>1. Budget(age[queue[i]], delay[queue[i]], i,
                 asked[queue[i]], ahead[queue[i]], 0)
        BY <2>1, <2>3
      <3>2. /\ age[queue[i]] \in Int /\ asked[queue[i]] \in Int
          /\ ahead[queue[i]] \in Int /\ delay[queue[i]] \in Int
          /\ i \in Int
        BY <2>3
      <3> QED
        BY <3>1, <3>2, BudgetSteps
    <2> QED
      BY <2>1, <2>2, <2>4, <2>5
  <1>8. Unborn'
    BY <1>1, <1>2 DEF IInv, Unborn, ExactlyOnce, Created
  <1>9. LatenessBounded' /\ NeverEarly'
    <2>1. \A e \in ToSet(fired) : e \in Entry /\ e \notin ToSet(queue)
      BY ToSetMembers DEF IInv, TypeOK, ExactlyOnce
    <2> QED
      BY <1>1, <1>2, <2>1 DEF IInv, LatenessBounded, NeverEarly
  <1> QED
    BY <1>3, <1>4, <1>5, <1>6, <1>7, <1>8, <1>9 DEF IInv

\* Counting an entry down pays the day it was owed.
LEMMA EvaluatePreserves == IInv /\ Evaluate => IInv'
  <1> SUFFICES ASSUME IInv, Evaluate PROVE IInv'
    OBVIOUS
  <1> USE DEF OutOfBuffer
  <1> DEFINE x == queue[iter]
  <1>1. /\ UNCHANGED <<queue, capacity, fired, asked, ahead, age, skipped>>
        /\ pc = "scan" /\ iter \in 1 .. Len(queue) /\ iter' = iter + 1
        /\ ebx' = x /\ x \in Entry
        /\ pc' = IF delay[x] - 1 > 0 THEN "scan" ELSE "fire"
        /\ seen' = seen \cup {x}
    BY DEF IInv, TypeOK, Evaluate
  <1>2. /\ delay' \in [Entry -> Int]
        /\ delay'[x] = delay[x] - 1
        /\ \A e \in Entry : e # x => delay'[e] = delay[e]
        /\ delay[x] \in Int
    BY <1>1 DEF IInv, TypeOK, Evaluate
  <1>3. /\ delay[x] > 0
        /\ \A i \in 1 .. Len(queue) : queue[i] = x => i = iter
    BY <1>1, EntryFacts DEF IInv, NoDuplicates
  <1> HIDE DEF x
  <1>4. TypeOK'
    <2>1. ebx' \in Entry \cup {None} /\ pc' \in {"idle", "scan", "fire"}
      BY <1>1
    <2>2. iter' \in Nat /\ seen' \subseteq Entry
      BY <1>1 DEF IInv, TypeOK
    <2> QED
      BY <1>1, <1>2, <2>1, <2>2 DEF IInv, TypeOK
  <1>5. NoDuplicates' /\ Unborn' /\ LatenessBounded' /\ NeverEarly'
    BY <1>1 DEF IInv, NoDuplicates, Unborn, LatenessBounded, NeverEarly, Created
  <1>6. ExactlyOnce'
    BY <1>1 DEF IInv, ExactlyOnce, Created
  <1>7. FiringInQueue'
    BY <1>1 DEF FiringInQueue, x
  <1>8. TimersRun'
    <2> SUFFICES ASSUME NEW i \in 1 .. Len(queue)
                 PROVE  IF pc' = "fire" /\ queue[i] = x THEN delay'[queue[i]] = 0
                                                       ELSE delay'[queue[i]] > 0
      BY <1>1 DEF TimersRun
    <2>1. CASE queue[i] = x
      BY <1>1, <1>2, <1>3, <2>1
    <2>2. CASE queue[i] # x
      BY <1>1, <1>2, <2>2, EntryFacts
    <2> QED
      BY <2>1, <2>2
  <1>9. InBudget'
    <2> SUFFICES ASSUME NEW i \in 1 .. Len(queue)
                 PROVE  Budget(age'[queue[i]], delay'[queue[i]], i,
                               asked'[queue[i]], ahead'[queue[i]], Owed(i)')
      BY <1>1 DEF InBudget
    <2>1. Waiting(i) <=> iter <= i
      BY <1>1 DEF Waiting
    <2>2. Waiting(i)' <=> iter + 1 <= i
      BY <1>1, <1>3 DEF Waiting, x
    <2>3. CASE i = iter
      <3>1. Owed(i) = 1 /\ Owed(i)' = 0 /\ queue[i] = x
        BY <1>1, <2>1, <2>2, <2>3 DEF Owed, x
      <3>2. delay'[queue[i]] = delay[queue[i]] - 1
        BY <1>2, <3>1
      <3>3. /\ Budget(age[queue[i]], delay[queue[i]], i,
                      asked[queue[i]], ahead[queue[i]], Owed(i))
            /\ age[queue[i]] \in Nat /\ asked[queue[i]] \in Nat
            /\ ahead[queue[i]] \in Nat /\ delay[queue[i]] \in Int
            /\ i \in Nat
        BY EntryFacts
      <3>4. Budget(age[queue[i]], delay[queue[i]] - 1, i,
                   asked[queue[i]], ahead[queue[i]], 0)
        <4>1. Budget(age[queue[i]], delay[queue[i]], i,
                     asked[queue[i]], ahead[queue[i]], 1)
          BY <3>1, <3>3
        <4>2. /\ age[queue[i]] \in Int /\ asked[queue[i]] \in Int
              /\ ahead[queue[i]] \in Int /\ delay[queue[i]] \in Int
              /\ i \in Int
          BY <3>3
        <4> QED
          BY <4>1, <4>2, BudgetSteps
      <3> QED
        BY <1>1, <3>1, <3>2, <3>4
    <2>4. CASE i # iter
      <3>1. delay'[queue[i]] = delay[queue[i]]
        BY <1>2, <1>3, <2>4, EntryFacts
      <3>2. Owed(i)' = Owed(i)
        BY <1>1, <2>1, <2>2, <2>4 DEF Owed
      <3> QED
        BY <1>1, <3>1, <3>2, EntryFacts DEF Budget
    <2> QED
      BY <2>3, <2>4
  <1> QED
    BY <1>4, <1>5, <1>6, <1>7, <1>8, <1>9 DEF IInv

\* Closing the gap moves everything behind the fired entry up by one place,
\* which pays for the evaluation the scan will not make.
LEMMA FireAndErasePreserves == IInv /\ FireAndErase => IInv'
  <1> SUFFICES ASSUME IInv, FireAndErase PROVE IInv'
    OBVIOUS
  <1> USE DEF OutOfBuffer
  <1>1. PICK p \in 1 .. Len(queue) : queue[p] = ebx /\ queue' = RemoveAt(queue, p)
    BY DEF IInv, TypeOK, FireAndErase
  <1>2. /\ UNCHANGED <<capacity, delay, iter, asked, ahead, age, seen, skipped>>
        /\ pc = "fire" /\ pc' = "scan" /\ ebx' = None
        /\ fired' = Append(fired, ebx)
    BY DEF FireAndErase
  <1>3. /\ queue' \in Seq(Entry)
        /\ Len(queue') = Len(queue) - 1
        /\ \A j \in 1 .. Len(queue) - 1 :
              queue'[j] = IF j < p THEN queue[j] ELSE queue[j + 1]
    BY <1>1, RemoveAtShifts DEF IInv, TypeOK
  <1>4. ToSet(queue') = ToSet(queue) \ {ebx}
    BY <1>1, RemoveAtMembers DEF IInv, TypeOK, NoDuplicates
  <1>5. ebx \in Entry /\ ebx \in ToSet(queue) /\ ebx \notin ToSet(fired)
    BY <1>1, EntryFacts
  <1>6. /\ fired' \in Seq(Entry) /\ Len(fired') = Len(fired) + 1
        /\ \A i \in 1 .. Len(fired) : fired'[i] = fired[i]
        /\ fired'[Len(fired) + 1] = ebx
        /\ ToSet(fired') = ToSet(fired) \cup {ebx}
    <2>1. fired \in Seq(Entry)
      BY DEF IInv, TypeOK
    <2> QED
      BY <1>2, <1>5, <2>1, AppendMembers
  <1>7. iter \in {0, p + 1}
    BY <1>1, <1>2 DEF IInv, FiringInQueue, NoDuplicates
  <1>8. TypeOK'
    BY <1>2, <1>3, <1>6 DEF IInv, TypeOK
  <1>9. NoDuplicates'
    BY <1>3 DEF IInv, NoDuplicates
  <1>10. ExactlyOnce'
    <2>1. \A i, j \in DOMAIN queue' : queue'[i] = queue'[j] => i = j
      BY <1>3, <1>9 DEF NoDuplicates
    <2>2. \A i, j \in DOMAIN fired' : fired'[i] = fired'[j] => i = j
      <3>1. \A i \in 1 .. Len(fired) : fired[i] # ebx
        BY <1>5, ToSetMembers DEF IInv, TypeOK
      <3>2. /\ DOMAIN fired = 1 .. Len(fired) /\ Len(fired) \in Nat
            /\ DOMAIN fired' = 1 .. Len(fired) + 1
        BY <1>6 DEF IInv, TypeOK
      <3>3. \A i, j \in 1 .. Len(fired) : fired[i] = fired[j] => i = j
        BY <3>2 DEF IInv, ExactlyOnce
      <3> QED
        BY <1>6, <3>1, <3>2, <3>3
    <2>3. ToSet(queue') \cap ToSet(fired') = {}
      BY <1>4, <1>6 DEF IInv, ExactlyOnce
    <2>4. \A e \in Entry :
              Created(e)' <=> e \in ToSet(queue') \cup ToSet(fired')
      BY <1>2, <1>4, <1>5, <1>6 DEF IInv, ExactlyOnce, Created
    <2> QED
      BY <2>1, <2>2, <2>3, <2>4 DEF ExactlyOnce
  <1>11. FiringInQueue'
    BY <1>2 DEF FiringInQueue
  <1>12. ASSUME NEW j \in 1 .. Len(queue')
         PROVE  \E i \in 1 .. Len(queue) :
                   /\ queue'[j] = queue[i]
                   /\ i # p
                   /\ i = IF j < p THEN j ELSE j + 1
    <2>1. CASE j < p
      BY <1>3, <2>1
    <2>2. CASE ~(j < p)
      BY <1>3, <2>2
    <2> QED
      BY <2>1, <2>2
  <1>13. TimersRun'
    <2> SUFFICES ASSUME NEW j \in 1 .. Len(queue')
                 PROVE  delay[queue'[j]] > 0
      BY <1>2 DEF TimersRun
    <2>1. PICK i \in 1 .. Len(queue) : queue'[j] = queue[i] /\ i # p
      BY <1>12
    <2>2. queue[i] # ebx
      BY <1>1, <2>1 DEF IInv, NoDuplicates
    <2> QED
      BY <2>1, <2>2 DEF IInv, TimersRun
  <1>14. InBudget'
    <2> SUFFICES ASSUME NEW j \in 1 .. Len(queue')
                 PROVE  Budget(age[queue'[j]], delay[queue'[j]], j,
                               asked[queue'[j]], ahead[queue'[j]], Owed(j)')
      BY <1>2 DEF InBudget
    <2>1. PICK i \in 1 .. Len(queue) : /\ queue'[j] = queue[i] /\ i # p
                                       /\ i = IF j < p THEN j ELSE j + 1
      BY <1>12
    <2> DEFINE e == queue[i]
    <2>2. /\ age[e] \in Int /\ asked[e] \in Int /\ ahead[e] \in Int
          /\ delay[e] \in Int /\ i \in Int /\ j \in Int
      BY EntryFacts
    <2>3. Budget(age[e], delay[e], i, asked[e], ahead[e], Owed(i))
      BY EntryFacts
    <2>4. Owed(i) = IF p < i THEN 1 ELSE 0
      BY <1>1, <1>2 DEF Owed, Waiting, IInv, NoDuplicates
    <2>5. Owed(j)' = IF iter # 0 /\ iter <= j THEN 1 ELSE 0
      BY <1>2 DEF Owed, Waiting
    <2>6. CASE j < p
      <3>1. i = j /\ Owed(i) = 0 /\ Owed(j)' = 0
        BY <1>7, <2>1, <2>4, <2>5, <2>6
      <3> QED
        BY <2>1, <2>3, <3>1
    <2>7. CASE ~(j < p)
      <3>1. i = j + 1 /\ Owed(i) = 1 /\ Owed(j)' \in {0, 1}
        BY <2>1, <2>4, <2>5, <2>7
      <3>2. Budget(age[e], delay[e], j + 1, asked[e], ahead[e], 1)
        BY <2>3, <3>1
      <3>3. /\ Budget(age[e], delay[e], j, asked[e], ahead[e], 1)
            /\ Budget(age[e], delay[e], j, asked[e], ahead[e], 0)
        BY <2>2, <3>2, BudgetSteps
      <3> QED
        BY <2>1, <3>1, <3>3
    <2> QED
      BY <2>6, <2>7
  <1>15. Unborn'
    BY <1>2 DEF IInv, Unborn, Created
  <1>16. LatenessBounded' /\ NeverEarly'
    <2>1. /\ age[ebx] <= asked[ebx] + ahead[ebx]
          /\ asked[ebx] <= age[ebx] + 1
      <3>1. Owed(p) = 0
        BY <1>1, <1>2 DEF Owed, Waiting, IInv, NoDuplicates
      <3>2. delay[ebx] = 0
        BY <1>1, <1>2 DEF IInv, TimersRun
      <3>3. Budget(age[ebx], 0, p, asked[ebx], ahead[ebx], 0)
        BY <1>1, <3>1, <3>2, EntryFacts
      <3>4. age[ebx] \in Nat /\ asked[ebx] \in Nat /\ ahead[ebx] \in Nat
        BY <1>5 DEF IInv, TypeOK
      <3> QED
        BY <3>3, <3>4 DEF Budget
    <2> QED
      BY <1>2, <1>6, <2>1 DEF IInv, LatenessBounded, NeverEarly
  <1> QED
    BY <1>8, <1>9, <1>10, <1>11, <1>13, <1>14, <1>15, <1>16 DEF IInv

\* Leaving the loop forgives the evaluations it still owed only when none is
\* owed: every position is behind the iterator, or the buffer has moved.
LEMMA EndScanPreserves == IInv /\ EndScan => IInv'
  <1> SUFFICES ASSUME IInv, EndScan PROVE IInv'
    OBVIOUS
  <1> USE DEF OutOfBuffer
  <1>1. /\ UNCHANGED <<queue, capacity, delay, ebx, fired, asked, ahead, age, seen>>
        /\ pc = "scan" /\ pc' = "idle" /\ iter' = 0
        /\ iter \notin 1 .. Len(queue)
        /\ skipped' = ToSet(queue) \ seen
    BY DEF EndScan, Pending, IInv, TypeOK
  <1>2. TypeOK'
    <2>1. skipped' \subseteq Entry
      BY <1>1, ToSetMembers DEF IInv, TypeOK
    <2> QED
      BY <1>1, <2>1 DEF IInv, TypeOK
  <1>3. NoDuplicates' /\ FiringInQueue' /\ Unborn' /\ LatenessBounded' /\ NeverEarly'
    BY <1>1 DEF IInv, NoDuplicates, FiringInQueue, Unborn, LatenessBounded,
       NeverEarly, Created
  <1>4. ExactlyOnce'
    BY <1>1 DEF IInv, ExactlyOnce, Created
  <1>5. TimersRun'
    BY <1>1 DEF IInv, TimersRun
  <1>6. InBudget'
    <2> SUFFICES ASSUME NEW i \in 1 .. Len(queue)
                 PROVE  Owed(i)' = Owed(i)
      BY <1>1 DEF IInv, InBudget
    <2>1. ~Waiting(i) /\ ~Waiting(i)'
      BY <1>1 DEF Waiting, IInv, TypeOK
    <2> QED
      BY <2>1 DEF Owed
  <1> QED
    BY <1>2, <1>3, <1>4, <1>5, <1>6 DEF IInv

\* The invariant of the province queue.
THEOREM Invariance == Spec => []IInv
  <1>1. IInv /\ [Next]_vars => IInv'
    <2> SUFFICES ASSUME IInv, [Next]_vars PROVE IInv'
      OBVIOUS
    <2>1. CASE Queue
      BY <2>1, AddPreserves DEF Queue
    <2>2. CASE FireQueues
      BY <2>2, AddPreserves DEF FireQueues
    <2>3. CASE StartScan
      BY <2>3, StartScanPreserves
    <2>4. CASE Evaluate
      BY <2>4, EvaluatePreserves
    <2>5. CASE FireAndErase
      BY <2>5, FireAndErasePreserves
    <2>6. CASE EndScan
      BY <2>6, EndScanPreserves
    <2>7. CASE UNCHANGED vars
      BY <2>7 DEF vars, program, history, IInv, TypeOK, NoDuplicates, ExactlyOnce,
         FiringInQueue, TimersRun, InBudget, Owed, Waiting, Unborn,
         LatenessBounded, NeverEarly, Created
    <2> QED
      BY <2>1, <2>2, <2>3, <2>4, <2>5, <2>6, <2>7 DEF Next, Tick
  <1> QED
    BY <1>1, InitInvariant, PTL DEF Spec

-------------------------------------------------------------------------------
(* The results. *)

\* Every variable keeps its type.
THEOREM TypeCorrect == Spec => []TypeOK
  BY Invariance, PTL DEF IInv

\* The in-place erasure loses no event and fires none twice.
THEOREM NothingLost == Spec => []ExactlyOnce
  BY Invariance, PTL DEF IInv

\* However often an event is skipped, it fires at most as many days late as there
\* were entries ahead of it when it was queued, and never more than one day early.
THEOREM OnTime == Spec => []FiresOnTime
  BY Invariance, PTL DEF IInv, FiresOnTime

\* Between two daily updates every queued event has days left.
THEOREM NoExpiredEntryWaits == Spec => []NothingExpiredOvernight
  <1>1. IInv => NothingExpiredOvernight
    BY ToSetMembers DEF IInv, TypeOK, TimersRun, NothingExpiredOvernight, Pending
  <1> QED
    BY <1>1, Invariance, PTL

-------------------------------------------------------------------------------
(* The loop implements the atomic day of ProvinceTickModel. *)

\* A turn of the reference model's loop keeps its list a list, and brings it nearer to
\* its end.
LEMMA TurnGoesOn ==
    ASSUME NEW E, NEW s \in Progress(E), s.at <= Len(s.vec)
    PROVE  /\ Turn(s) \in Progress(E)
           /\ Turn(s).at = s.at + 1
           /\ Len(Turn(s).vec) <= Len(s.vec)
  <1> DEFINE k     == s.at
             R     == Timed(E)
             w     == EntryLess(s.vec, k)
             ended == w[k].delay <= 0
  <1>1. s.vec \in Seq(R) /\ k \in 1 .. Len(s.vec) /\ s.fired \in Seq(E) /\ k + 1 \in Nat \ {0}
    BY DEF Progress
  <1>2. s.vec[k] \in R
    <2> HIDE DEF k, R
    <2> QED
      BY <1>1
  <1>3. w \in Seq(R) /\ Len(w) = Len(s.vec) /\ w[k] \in R
    BY <1>1, <1>2 DEF Timed, EntryLess
  <1>4. Turn(s) = [at    |-> k + 1,
                   vec   |-> IF ended THEN RemoveAt(w, k) ELSE w,
                   fired |-> IF ended THEN Append(s.fired, w[k].id) ELSE s.fired]
    BY DEF Turn
  <1> HIDE DEF w, ended, k, R
  <1>5. RemoveAt(w, k) \in Seq(R) /\ Len(RemoveAt(w, k)) = Len(w) - 1
    BY <1>1, <1>3, RemoveAtShifts
  <1>6. Append(s.fired, w[k].id) \in Seq(E)
    BY <1>1, <1>3 DEF R, Timed
  <1> QED
    BY <1>1, <1>3, <1>4, <1>5, <1>6 DEF Progress, R, k

\* The scan is that loop: it ends behind the list, and a turn changes nothing of what it
\* will come to.
Looping(g, E) ==
    g = [s \in Progress(E) |-> IF s.at > Len(s.vec) THEN s ELSE g[Turn(s)]]

LEMMA ScanLoops ==
    ASSUME NEW E, NEW s \in Progress(E)
    PROVE  Scan(E, s.at, s.vec, s.fired) =
             IF s.at > Len(s.vec) THEN s
             ELSE Scan(E, Turn(s).at, Turn(s).vec, Turn(s).fired)
  <1> DEFINE P == Progress(E)
             F == {x \in P : x.at > Len(x.vec)}
             T == [x \in P |-> IF x \in F THEN x ELSE Turn(x)]
             m == [x \in P |-> IF x \in F THEN 0 ELSE Len(x.vec) + 1 - x.at]
             h == CHOOSE g : Looping(g, E)
  <1>1. \A x \in P : x.at \in Nat /\ x.at > 0 /\ Len(x.vec) \in Nat
    BY DEF Progress
  <1>2. ASSUME NEW x \in P, x \notin F
        PROVE  Turn(x) \in P /\ Turn(x).at = x.at + 1 /\ Len(Turn(x).vec) <= Len(x.vec)
    BY <1>1, <1>2, TurnGoesOn
  <1>3. T \in [P -> P]
    BY <1>2
  <1>4. m \in [P -> Nat]
    BY <1>1
  <1>5. ASSUME NEW x \in P \ F PROVE m[T[x]] < m[x]
    <2>1. T[x] = Turn(x) /\ T[x] \in P
      BY <1>2, <1>5
    <2>2. m[x] = Len(x.vec) + 1 - x.at /\ x.at <= Len(x.vec)
      BY <1>1, <1>5
    <2>3. T[x].at = x.at + 1 /\ Len(T[x].vec) <= Len(x.vec)
      BY <1>2, <1>5, <2>1
    <2>4. m[T[x]] = IF T[x] \in F THEN 0 ELSE Len(T[x].vec) + 1 - T[x].at
      BY <2>1
    <2>5. /\ Len(x.vec) \in Nat /\ x.at \in Nat
          /\ Len(T[x].vec) \in Nat /\ T[x].at \in Nat
      BY <1>1, <1>5, <2>1
    <2>6. PICK y, long, far, len, at :
             /\ y = T[x] /\ long = Len(x.vec) /\ far = x.at
             /\ len = Len(T[x].vec) /\ at = T[x].at
      OBVIOUS
    <2> HIDE DEF m, T, P, F
    <2>7. /\ long \in Nat /\ far \in Nat /\ len \in Nat /\ at \in Nat
          /\ m[x] = long + 1 - far /\ far <= long /\ at = far + 1 /\ len <= long
          /\ m[y] = IF y \in F THEN 0 ELSE len + 1 - at
      BY <2>2, <2>3, <2>4, <2>5, <2>6
    <2>8. m[y] < m[x]
      BY <2>7
    <2> QED
      BY <2>6, <2>8
  <1>6. PICK g \in [P -> P] : Loops(g, P, F, T)
    <2> HIDE DEF P, F, T, m
    <2> QED
      BY <1>3, <1>4, <1>5, LoopEnds
  <1>7. Looping(g, E)
    <2>1. ASSUME NEW x \in P PROVE g[x] = IF x.at > Len(x.vec) THEN x ELSE g[Turn(x)]
      BY <1>6 DEF Loops
    <2> QED
      BY <1>6, <2>1 DEF Looping
  <1>8. Looping(h, E)
    BY <1>7
  <1>9. \A i, v, f : Scan(E, i, v, f) = h[[at |-> i, vec |-> v, fired |-> f]]
    BY DEF Scan, Looping
  <1> HIDE DEF h, F, T, m
  <1>10. \A x \in P : x = [at |-> x.at, vec |-> x.vec, fired |-> x.fired]
    BY DEF Progress
  <1>11. \A x \in P : Scan(E, x.at, x.vec, x.fired) = h[x]
    BY <1>9, <1>10
  <1>12. h[s] = IF s.at > Len(s.vec) THEN s ELSE h[Turn(s)]
    BY <1>8 DEF Looping
  <1>13. s.at <= Len(s.vec) => Turn(s) \in P
    BY TurnGoesOn
  <1> QED
    BY <1>1, <1>11, <1>12, <1>13

\* While an event fires nothing moves the buffer, when it may not queue another.
InBuffer == pc \in {"scan", "fire"} => iter # OutOfBuffer

\* The invariant the refinement needs.
JInv == IInv /\ InBuffer

\* Without re-entrance the iterator stays in the buffer.
LEMMA JInvariance == ASSUME ~Reentrant PROVE Spec => []JInv
  <1>1. Init => InBuffer
    BY DEF Init, InBuffer
  <1>2. IInv /\ InBuffer /\ [Next]_vars => InBuffer'
    <2> SUFFICES ASSUME IInv, InBuffer, [Next]_vars PROVE InBuffer'
      OBVIOUS
    <2> USE DEF InBuffer, OutOfBuffer
    <2>1. iter \in Nat
      BY DEF IInv, TypeOK
    <2>2. CASE Queue
      BY <2>2 DEF Queue, AddDelayedEvent
    <2>3. CASE FireQueues
      BY <2>3 DEF FireQueues
    <2>4. CASE StartScan
      BY <2>4 DEF StartScan
    <2>5. CASE Evaluate
      BY <2>1, <2>5 DEF Evaluate
    <2>6. CASE FireAndErase
      BY <2>6 DEF FireAndErase
    <2>7. CASE EndScan
      BY <2>7 DEF EndScan
    <2>8. CASE UNCHANGED vars
      BY <2>8 DEF vars, program, history
    <2> QED
      BY <2>2, <2>3, <2>4, <2>5, <2>6, <2>7, <2>8 DEF Next, Tick
  <1> QED
    BY <1>1, <1>2, Invariance, PTL DEF Spec, JInv

\* The model of the day scans with the operator the mapping uses.
LEMMA ModelScans ==
    /\ \A i, v, f : Model!Scan(Entry, i, v, f) = Scan(Entry, i, v, f)
  BY DEF Model!Scan, Scan, Model!Progress, Progress, Model!Timed, Timed, Model!EntryLess, EntryLess, Model!Turn, Turn,
     Model!RemoveAt, RemoveAt

\* The model's list, entry by entry.
IsList(l, q, t, E) ==
    /\ l \in Seq(Timed(E)) /\ Len(l) = Len(q)
    /\ \A i \in 1 .. Len(q) : l[i] = [id |-> q[i], delay |-> t[q[i]]]

LEMMA ListedEntries ==
    ASSUME NEW E, NEW q \in Seq(E), NEW t \in [E -> Int]
    PROVE  IsList(Listed(q, t), q, t, E)
  <1>1. DOMAIN q = 1 .. Len(q) /\ Len(q) \in Nat
    OBVIOUS
  <1>2. \A i \in 1 .. Len(q) : [id |-> q[i], delay |-> t[q[i]]] \in Timed(E)
    BY DEF Timed
  <1> QED
    BY <1>1, <1>2 DEF Listed, IsList

\* One day less on the timer of x.
DayLess(t, x) == [t EXCEPT ![x] = @ - 1]

LEMMA DayAndBack ==
    ASSUME NEW E, NEW t \in [E -> Int], NEW x \in E
    PROVE  /\ DayLess(t, x) \in [E -> Int] /\ DayLess(t, x)[x] = t[x] - 1
           /\ DayMore(DayLess(t, x), x) = t
           /\ DayMore(t, x) \in [E -> Int]
           /\ t = DayLess(DayMore(t, x), x)
  <1> DEFINE d == DayLess(t, x)
             u == DayMore(t, x)
  <1>1. d \in [E -> Int] /\ d[x] = t[x] - 1 /\ \A y \in E : y # x => d[y] = t[y]
    BY DEF DayLess
  <1>2. u \in [E -> Int] /\ u[x] = t[x] + 1 /\ \A y \in E : y # x => u[y] = t[y]
    BY DEF DayMore
  <1>3. DayMore(d, x) = t
    <2> USE DEF DayMore
    <2> HIDE DEF d
    <2>1. \A y \in E : [d EXCEPT ![x] = @ + 1][y] = t[y]
      BY <1>1
    <2>2. [d EXCEPT ![x] = @ + 1] \in [E -> Int]
      BY <1>1
    <2> QED
      BY <2>1, <2>2
  <1>4. t = DayLess(u, x)
    <2> HIDE DEF u
    <2>1. \A y \in E : [u EXCEPT ![x] = @ - 1][y] = t[y]
      BY <1>2
    <2>2. [u EXCEPT ![x] = @ - 1] \in [E -> Int]
      BY <1>2
    <2>3. [u EXCEPT ![x] = @ - 1] = t
      BY <2>1, <2>2
    <2> QED
      BY <2>3 DEF DayLess
  <1> QED
    BY <1>1, <1>2, <1>3, <1>4

\* Counting down the timer of the entry at one position, of a queue without repetitions,
\* changes that position of the list only.
Distinct(q) == \A i, j \in 1 .. Len(q) : q[i] = q[j] => i = j

LEMMA CountingDown ==
    ASSUME NEW E, NEW q \in Seq(E), NEW t \in [E -> Int], NEW k \in 1 .. Len(q),
           Distinct(q)
    PROVE  Listed(q, DayLess(t, q[k])) = EntryLess(Listed(q, t), k)
  <1> USE DEF DayLess, Distinct
  <1> DEFINE u == DayLess(t, q[k])
             v == Listed(q, t)
             w == Listed(q, u)
  <1>1. IsList(v, q, t, E) /\ IsList(w, q, u, E)
    <2>1. u \in [E -> Int]
      OBVIOUS
    <2> HIDE DEF u
    <2> QED
      BY <2>1, ListedEntries
  <1> HIDE DEF v, w
  <1>2. w[k] = [v[k] EXCEPT !.delay = @ - 1]
    <2>1. u[q[k]] = t[q[k]] - 1 /\ q[k] \in E
      OBVIOUS
    <2>2. PICK x, m, n : x = q[k] /\ m = t[q[k]] /\ n = u[q[k]]
      OBVIOUS
    <2>3. v[k] = [id |-> x, delay |-> m] /\ w[k] = [id |-> x, delay |-> n] /\ n = m - 1
      BY <1>1, <2>1, <2>2 DEF IsList
    <2>4. [[id |-> x, delay |-> m] EXCEPT !.delay = @ - 1] = [id |-> x, delay |-> n]
      BY <2>3
    <2> QED
      BY <2>3, <2>4
  <1>3. ASSUME NEW i \in 1 .. Len(q), i # k PROVE w[i] = v[i]
    <2>1. q[i] # q[k] /\ q[i] \in E
      BY <1>3
    <2>2. u[q[i]] = t[q[i]]
      BY <2>1
    <2>3. PICK x, m, n : x = q[i] /\ m = t[q[i]] /\ n = u[q[i]]
      OBVIOUS
    <2>4. v[i] = [id |-> x, delay |-> m] /\ w[i] = [id |-> x, delay |-> n] /\ n = m
      BY <1>1, <2>2, <2>3 DEF IsList
    <2> QED
      BY <2>4
  <1>4. DOMAIN v = 1 .. Len(q) /\ DOMAIN w = 1 .. Len(q)
    BY <1>1 DEF IsList
  <1>5. w = [i \in 1 .. Len(q) |-> w[i]] /\ v = [i \in 1 .. Len(q) |-> v[i]]
    <2> DEFINE R == Timed(E)
    <2>1. v \in Seq(R) /\ w \in Seq(R) /\ Len(v) = Len(q) /\ Len(w) = Len(q)
      BY <1>1 DEF IsList
    <2> HIDE DEF R
    <2>2. w = [i \in 1 .. Len(w) |-> w[i]] /\ v = [i \in 1 .. Len(v) |-> v[i]]
      BY <2>1
    <2> QED
      BY <2>1, <2>2
  <1>6. w = [v EXCEPT ![k] = [v[k] EXCEPT !.delay = @ - 1]]
    BY <1>2, <1>3, <1>4, <1>5
  <1> QED
    BY <1>6 DEF v, w, EntryLess

\* Erasing an entry of the queue erases it from the list.
LEMMA ListedErases ==
    ASSUME NEW E, NEW q \in Seq(E), NEW t \in [E -> Int], NEW k \in 1 .. Len(q)
    PROVE  Listed(RemoveAt(q, k), t) = RemoveAt(Listed(q, t), k)
  <1> DEFINE R == Timed(E)
             v == Listed(q, t)
             p == RemoveAt(q, k)
             a == Listed(p, t)
             b == RemoveAt(v, k)
  <1>1. IsList(v, q, t, E) /\ Len(q) \in Nat
    BY ListedEntries
  <1>2. /\ p \in Seq(E) /\ Len(p) = Len(q) - 1
        /\ \A j \in 1 .. Len(q) - 1 : p[j] = IF j < k THEN q[j] ELSE q[j + 1]
    BY RemoveAtShifts
  <1>3. IsList(a, p, t, E)
    BY <1>2, ListedEntries
  <1> HIDE DEF v, p, a
  <1>4. v \in Seq(R) /\ Len(v) = Len(q)
    BY <1>1 DEF IsList
  <1> HIDE DEF R
  <1>5. /\ b \in Seq(R) /\ Len(b) = Len(v) - 1
        /\ \A j \in 1 .. Len(v) - 1 : b[j] = IF j < k THEN v[j] ELSE v[j + 1]
    BY <1>4, RemoveAtShifts
  <1> HIDE DEF b
  <1>6. ASSUME NEW j \in 1 .. Len(q) - 1 PROVE a[j] = b[j]
    <2>1. a[j] = [id |-> p[j], delay |-> t[p[j]]]
      BY <1>2, <1>3 DEF IsList
    <2>2. PICK i \in 1 .. Len(q) : i = IF j < k THEN j ELSE j + 1
      BY <1>1
    <2>3. p[j] = q[i] /\ b[j] = v[i]
      BY <1>2, <1>4, <1>5, <2>2
    <2>4. v[i] = [id |-> q[i], delay |-> t[q[i]]]
      BY <1>1 DEF IsList
    <2> QED
      BY <2>1, <2>3, <2>4
  <1>7. a \in Seq(R) /\ Len(a) = Len(q) - 1 /\ Len(b) = Len(q) - 1
    BY <1>2, <1>3, <1>4, <1>5 DEF IsList, R
  <1>8. a = b
    <2>1. a = [j \in 1 .. Len(a) |-> a[j]] /\ b = [j \in 1 .. Len(b) |-> b[j]]
      BY <1>5, <1>7
    <2> QED
      BY <1>6, <1>7, <2>1
  <1> QED
    BY <1>8 DEF a, b, p, v

\* What is left of a scan, behind the list and within it.
LEMMA ScanIsOver ==
    ASSUME NEW E, NEW i \in Nat, i > 0, NEW v \in Seq(Timed(E)),
           NEW f \in Seq(E), i > Len(v)
    PROVE  Scan(E, i, v, f) = [at |-> i, vec |-> v, fired |-> f]
  <1> DEFINE s == [at |-> i, vec |-> v, fired |-> f]
  <1>1. s \in Progress(E) /\ s.at = i /\ s.vec = v /\ s.fired = f
    BY DEF Progress
  <1> HIDE DEF s
  <1>2. Scan(E, s.at, s.vec, s.fired) = s
    BY <1>1, ScanLoops
  <1> QED
    BY <1>1, <1>2 DEF s

AfterTurn(E, i, w, f) ==
    IF w[i].delay <= 0 THEN Scan(E, i + 1, RemoveAt(w, i), Append(f, w[i].id))
                       ELSE Scan(E, i + 1, w, f)

LEMMA ScanGoesOn ==
    ASSUME NEW E, NEW i \in Nat, NEW v \in Seq(Timed(E)),
           NEW f \in Seq(E), i > 0, i <= Len(v)
    PROVE  Scan(E, i, v, f) = AfterTurn(E, i, EntryLess(v, i), f)
  <1> DEFINE s == [at |-> i, vec |-> v, fired |-> f]
             w == EntryLess(v, i)
  <1>1. s \in Progress(E) /\ s.at = i /\ s.vec = v /\ s.fired = f
    BY DEF Progress
  <1>2. Turn(s) = [at    |-> i + 1,
                   vec   |-> IF w[i].delay <= 0 THEN RemoveAt(w, i) ELSE w,
                   fired |-> IF w[i].delay <= 0 THEN Append(f, w[i].id) ELSE f]
    <2>1. EntryLess(s.vec, s.at) = w
      BY <1>1
    <2> HIDE DEF s, w
    <2> QED
      BY <1>1, <2>1 DEF Turn
  <1> HIDE DEF s
  <1>3. Scan(E, s.at, s.vec, s.fired) = Scan(E, Turn(s).at, Turn(s).vec, Turn(s).fired)
    <2>1. ~(s.at > Len(s.vec))
      BY <1>1
    <2> QED
      BY <1>1, <2>1, ScanLoops
  <1> QED
    BY <1>1, <1>2, <1>3 DEF AfterTurn

\* Under the mapping the model starts empty.
LEMMA InitMaps == Init => Model!Init
  <1> SUFFICES ASSUME Init PROVE Model!Init
    OBVIOUS
  <1>1. Outcome = [vec |-> Listed(queue, delay), fired |-> fired]
    BY DEF Init, Outcome
  <1>2. Listed(queue, delay) = <<>>
    BY DEF Init, Listed
  <1> QED
    BY <1>1, <1>2 DEF Init, Model!Init

\* What the mapping shows in each place of the loop.
LEMMA Shown ==
    /\ pc = "idle" => Outcome = [vec |-> Listed(queue, delay), fired |-> fired]
    /\ pc = "scan" => Outcome = Scan(Entry, iter, Listed(queue, delay), fired)
    /\ pc = "fire" => Outcome = Scan(Entry, iter - 1,
                                     Listed(queue, DayMore(delay, ebx)), fired)
  BY DEF Outcome

\* To queue an event is to add it to the model's list.
LEMMA QueueMaps == IInv /\ Queue => \E e \in Entry, d \in Delays : Model!Add(e, d)
  <1> SUFFICES ASSUME IInv, Queue PROVE \E e \in Entry, d \in Delays : Model!Add(e, d)
    OBVIOUS
  <1>1. PICK e \in Entry, d \in Delays : AddDelayedEvent(e, d)
    BY DEF Queue
  <1>2. pc = "idle" /\ pc' = "idle" /\ fired' = fired /\ queue' = Append(queue, e)
        /\ delay' = [delay EXCEPT ![e] = d] /\ d > 0 /\ ~Created(e)
    BY <1>1 DEF Queue, AddDelayedEvent, Queueable
  <1>3. Outcome.vec = Listed(queue, delay) /\ Outcome.fired = fired
    BY <1>2, Shown
  <1>4. Outcome'.vec = Listed(queue', delay') /\ Outcome'.fired = fired
    BY <1>2 DEF Outcome
  <1>5. /\ queue \in Seq(Entry) /\ queue' \in Seq(Entry) /\ Len(queue') = Len(queue) + 1
        /\ \A i \in 1 .. Len(queue) : queue'[i] = queue[i]
        /\ queue'[Len(queue) + 1] = e
    BY <1>2, AppendMembers DEF IInv, TypeOK
  <1>6. delay \in [Entry -> Int] /\ delay' \in [Entry -> Int] /\ d \in Int
    BY <1>2, ProvinceQueueAssumption DEF IInv, TypeOK
  <1>7. e \notin ToSet(queue) /\ e \notin ToSet(fired)
    BY <1>2 DEF IInv, ExactlyOnce
  <1>8. \A i \in 1 .. Len(queue) : queue[i] # e
    BY <1>5, <1>7, ToSetMembers
  <1> DEFINE v == Listed(queue, delay)
             w == Listed(queue', delay')
             R == Timed(Entry)
             x == [id |-> e, delay |-> d]
  <1>9. IsList(v, queue, delay, Entry) /\ IsList(w, queue', delay', Entry)
    BY <1>5, <1>6, ListedEntries
  <1> HIDE DEF v, w
  <1>10. v \in Seq(R) /\ w \in Seq(R) /\ x \in R /\ Len(v) = Len(queue) /\ Len(w) = Len(v) + 1
    BY <1>5, <1>6, <1>9 DEF IsList, Timed
  <1>11. ASSUME NEW i \in 1 .. Len(v) PROVE w[i] = v[i] /\ v[i].id # e
    <2>1. i \in 1 .. Len(queue) /\ i \in 1 .. Len(queue') /\ queue'[i] = queue[i]
      BY <1>5, <1>10
    <2>2. queue[i] # e /\ queue[i] \in Entry
      BY <1>5, <1>8, <2>1
    <2>3. delay'[queue[i]] = delay[queue[i]]
      BY <1>2, <1>6, <2>2
    <2>4. PICK y, m : y = queue[i] /\ m = delay[queue[i]]
      OBVIOUS
    <2>5. v[i] = [id |-> y, delay |-> m] /\ w[i] = [id |-> y, delay |-> m]
      BY <1>9, <2>1, <2>3, <2>4 DEF IsList
    <2> QED
      BY <2>2, <2>4, <2>5
  <1>12. w[Len(v) + 1] = x
    <2>1. PICK n : n = Len(v) + 1
      OBVIOUS
    <2>2. n \in 1 .. Len(queue') /\ queue'[n] = e
      BY <1>5, <1>10, <2>1
    <2>3. delay'[e] = d
      BY <1>2, <1>6
    <2>4. w[n] = [id |-> queue'[n], delay |-> delay'[queue'[n]]]
      BY <1>9, <2>2 DEF IsList
    <2> QED
      BY <2>1, <2>2, <2>3, <2>4
  <1> HIDE DEF R, x
  <1>13. w = Append(v, x)
    <2>1. w = [i \in 1 .. Len(v) + 1 |-> w[i]]
      BY <1>10
    <2>2. /\ Append(v, x) \in Seq(R) /\ Len(Append(v, x)) = Len(v) + 1
          /\ \A i \in 1 .. Len(v) : Append(v, x)[i] = v[i]
          /\ Append(v, x)[Len(v) + 1] = x
      BY <1>10, AppendMembers
    <2>3. Append(v, x) = [i \in 1 .. Len(v) + 1 |-> Append(v, x)[i]]
      <3> DEFINE b == Append(v, x)
      <3>1. b \in Seq(R) /\ Len(b) = Len(v) + 1
        BY <2>2
      <3> HIDE DEF b
      <3>2. b = [i \in 1 .. Len(b) |-> b[i]]
        BY <3>1
      <3>3. b = [i \in 1 .. Len(v) + 1 |-> b[i]]
        BY <3>1, <3>2
      <3> QED
        BY <3>3 DEF b
    <2>4. \A i \in 1 .. Len(v) + 1 : w[i] = Append(v, x)[i]
      BY <1>10, <1>11, <1>12, <2>2
    <2> QED
      BY <2>1, <2>3, <2>4
  <1>14. \A i \in DOMAIN fired : fired[i] # e
    BY <1>7, ToSetMembers DEF IInv, TypeOK
  <1>15. \A i \in DOMAIN v : v[i].id # e
    BY <1>10, <1>11
  <1>16. Model!Add(e, d)
    BY <1>2, <1>3, <1>4, <1>13, <1>14, <1>15 DEF Model!Add, v, w, x
  <1> QED
    BY <1>16

\* The day happens when the scan begins.
LEMMA StartScanMaps == StartScan => Model!Tick
  <1> SUFFICES ASSUME StartScan PROVE Model!Tick
    OBVIOUS
  <1>1. /\ pc = "idle" /\ pc' = "scan" /\ iter' = 1
        /\ queue' = queue /\ delay' = delay /\ fired' = fired
    BY DEF StartScan
  <1>2. Outcome.vec = Listed(queue, delay) /\ Outcome.fired = fired
    BY <1>1, Shown
  <1>3. Outcome' = Scan(Entry, 1, Listed(queue, delay), fired)
    BY <1>1 DEF Outcome
  <1> QED
    BY <1>2, <1>3, ModelScans DEF Model!Tick

\* One turn of the loop changes nothing of what the scan comes to.
LEMMA EvaluateMaps == JInv /\ Evaluate => Outcome' = Outcome
  <1> SUFFICES ASSUME JInv, Evaluate PROVE Outcome' = Outcome
    OBVIOUS
  <1> DEFINE x == queue[iter]
             u == DayLess(delay, x)
             v == Listed(queue, delay)
             w == Listed(queue, u)
  <1>1. /\ pc = "scan" /\ iter \in 1 .. Len(queue) /\ iter' = iter + 1 /\ ebx' = x
        /\ queue' = queue /\ fired' = fired /\ delay' = u
        /\ pc' = IF delay[x] - 1 <= 0 THEN "fire" ELSE "scan"
    BY DEF Evaluate, JInv, IInv, TypeOK, DayLess
  <1>2. /\ queue \in Seq(Entry) /\ fired \in Seq(Entry) /\ delay \in [Entry -> Int]
        /\ x \in Entry /\ delay[x] \in Int
        /\ \A i, j \in 1 .. Len(queue) : queue[i] = queue[j] => i = j
    <2>1. queue \in Seq(Entry) /\ fired \in Seq(Entry) /\ delay \in [Entry -> Int]
      BY DEF JInv, IInv, TypeOK
    <2>2. x \in Entry /\ delay[x] \in Int
      BY <1>1, <2>1
    <2>3. \A i, j \in 1 .. Len(queue) : queue[i] = queue[j] => i = j
      BY DEF JInv, IInv, NoDuplicates
    <2> QED
      BY <2>1, <2>2, <2>3
  <1>3. /\ u \in [Entry -> Int] /\ u[x] = delay[x] - 1
        /\ DayMore(u, x) = delay
    <2> HIDE DEF x
    <2> QED
      BY <1>2, DayAndBack
  <1>4. Outcome = Scan(Entry, iter, v, fired)
    BY <1>1, Shown
  <1>5. CASE pc' = "fire"
    <2>1. Outcome' = Scan(Entry, iter' - 1, Listed(queue', DayMore(delay', ebx')), fired')
      BY <1>5 DEF Outcome
    <2>3. iter' - 1 = iter
      BY <1>1
    <2> HIDE DEF u, x
    <2>4. Listed(queue', DayMore(delay', ebx')) = v
      BY <1>1, <1>3
    <2> QED
      BY <1>1, <1>4, <2>1, <2>3, <2>4
  <1>6. CASE pc' = "scan"
    <2>1. Outcome' = Scan(Entry, iter + 1, w, fired)
      BY <1>1, <1>6 DEF Outcome
    <2>2. u[x] > 0
      BY <1>1, <1>2, <1>3, <1>6
    <2>3. w = EntryLess(v, iter)
      <3>1. u = DayLess(delay, queue[iter])
        OBVIOUS
      <3> HIDE DEF u, x
      <3>2. Listed(queue, DayLess(delay, queue[iter])) = EntryLess(v, iter)
        BY <1>1, <1>2, CountingDown DEF Distinct
      <3> QED
        BY <3>1, <3>2
    <2>4. IsList(v, queue, delay, Entry) /\ IsList(w, queue, u, Entry)
      BY <1>2, <1>3, ListedEntries
    <2> HIDE DEF u, v, w
    <2>5. v \in Seq(Timed(Entry)) /\ Len(v) = Len(queue)
      BY <2>4 DEF IsList
    <2>6. w[iter].delay = u[x]
      <3>1. w[iter] = [id |-> x, delay |-> u[x]]
        BY <1>1, <2>4 DEF IsList
      <3> QED
        BY <3>1
    <2>7. iter \in Nat /\ iter > 0 /\ iter <= Len(v)
      BY <1>1, <1>2, <2>5
    <2>8. Scan(Entry, iter, v, fired) = AfterTurn(Entry, iter, w, fired)
      BY <1>2, <2>3, <2>5, <2>7, ScanGoesOn
    <2>9. ~(w[iter].delay <= 0)
      BY <1>2, <1>3, <2>2, <2>6
    <2> QED
      BY <1>4, <2>1, <2>8, <2>9 DEF AfterTurn
  <1> QED
    BY <1>1, <1>5, <1>6

\* Firing finishes the turn that found the entry expired.
LEMMA FireAndEraseMaps == JInv /\ FireAndErase => Outcome' = Outcome
  <1> SUFFICES ASSUME JInv, FireAndErase PROVE Outcome' = Outcome
    OBVIOUS
  <1> DEFINE t == DayMore(delay, ebx)
             v == Listed(queue, t)
             w == Listed(queue, delay)
  <1>1. PICK p \in 1 .. Len(queue) : queue[p] = ebx /\ queue' = RemoveAt(queue, p)
    BY DEF JInv, IInv, TypeOK, FireAndErase
  <1>2. /\ pc = "fire" /\ pc' = "scan" /\ iter' = iter /\ delay' = delay
        /\ fired' = Append(fired, ebx)
    BY DEF FireAndErase
  <1>3. /\ queue \in Seq(Entry) /\ fired \in Seq(Entry) /\ delay \in [Entry -> Int]
        /\ ebx \in Entry
        /\ \A i, j \in 1 .. Len(queue) : queue[i] = queue[j] => i = j
    BY <1>1 DEF JInv, IInv, TypeOK, NoDuplicates
  <1>4. delay[ebx] = 0
    BY <1>1, <1>2 DEF JInv, IInv, TimersRun
  <1>5. iter = p + 1
    <2>1. PICK r \in 1 .. Len(queue) : queue[r] = ebx /\ iter \in {0, r + 1}
      BY <1>2 DEF JInv, IInv, FiringInQueue
    <2>2. r = p
      BY <1>1, <1>3, <2>1
    <2> QED
      BY <1>2, <2>1, <2>2 DEF JInv, InBuffer, OutOfBuffer
  <1>6. t \in [Entry -> Int] /\ delay = DayLess(t, queue[p])
    BY <1>1, <1>3, DayAndBack
  <1>7. Outcome = Scan(Entry, p, v, fired)
    <2>1. iter - 1 = p
      BY <1>5
    <2> QED
      BY <1>2, <2>1, Shown
  <1>8. Outcome' = Scan(Entry, p + 1, Listed(RemoveAt(queue, p), delay), Append(fired, ebx))
    BY <1>1, <1>2, <1>5 DEF Outcome
  <1> HIDE DEF t
  <1>9. w = EntryLess(v, p)
    <2>1. Listed(queue, DayLess(t, queue[p])) = EntryLess(v, p)
      BY <1>3, <1>6, CountingDown DEF Distinct
    <2> QED
      BY <1>6, <2>1
  <1>10. Listed(RemoveAt(queue, p), delay) = RemoveAt(w, p)
    BY <1>3, ListedErases
  <1>11. IsList(v, queue, t, Entry) /\ IsList(w, queue, delay, Entry)
    BY <1>3, <1>6, ListedEntries
  <1> HIDE DEF v, w
  <1>12. w[p].delay = 0 /\ w[p].id = ebx
    <2>1. w[p] = [id |-> ebx, delay |-> delay[ebx]]
      BY <1>1, <1>11 DEF IsList
    <2> QED
      BY <1>4, <2>1
  <1>13. v \in Seq(Timed(Entry)) /\ Len(v) = Len(queue)
    BY <1>11 DEF IsList
  <1>14. p \in Nat /\ p > 0 /\ p <= Len(v)
    BY <1>3, <1>13
  <1>15. Scan(Entry, p, v, fired) = AfterTurn(Entry, p, w, fired)
    BY <1>3, <1>9, <1>13, <1>14, ScanGoesOn
  <1> QED
    BY <1>7, <1>8, <1>10, <1>12, <1>15 DEF AfterTurn

\* Leaving the loop behind the last entry adds nothing.
LEMMA EndScanMaps ==
    JInv /\ EndScan => Outcome'.vec = Outcome.vec /\ Outcome'.fired = Outcome.fired
  <1> SUFFICES ASSUME JInv, EndScan
               PROVE  Outcome'.vec = Outcome.vec /\ Outcome'.fired = Outcome.fired
    OBVIOUS
  <1> DEFINE v == Listed(queue, delay)
  <1>1. /\ pc = "scan" /\ pc' = "idle" /\ iter \notin DOMAIN queue
        /\ queue' = queue /\ delay' = delay /\ fired' = fired
    BY DEF EndScan
  <1>2. /\ queue \in Seq(Entry) /\ fired \in Seq(Entry) /\ delay \in [Entry -> Int]
        /\ iter \in Nat /\ iter # 0
    BY <1>1 DEF JInv, IInv, TypeOK, InBuffer, OutOfBuffer
  <1>3. Outcome = Scan(Entry, iter, v, fired)
    BY <1>1, Shown
  <1>4. Outcome' = [vec |-> v, fired |-> fired]
    BY <1>1 DEF Outcome
  <1>5. IsList(v, queue, delay, Entry)
    BY <1>2, ListedEntries
  <1> HIDE DEF v
  <1>6. v \in Seq(Timed(Entry)) /\ Len(v) = Len(queue)
    BY <1>5 DEF IsList
  <1>7. iter > 0 /\ iter > Len(v)
    BY <1>1, <1>2, <1>6
  <1>8. Scan(Entry, iter, v, fired) = [at |-> iter, vec |-> v, fired |-> fired]
    BY <1>2, <1>6, <1>7, ScanIsOver
  <1> QED
    BY <1>3, <1>4, <1>8

\* A province whose fired events queue nothing on it goes through its loop as if every
\* day were one step of the reference model.
THEOREM LoopIsTheModelsDay == ASSUME ~Reentrant PROVE Spec => ImplementsTickModel
  <1>1. JInv /\ [Next]_vars => [Model!Next]_(Model!vars)
    <2> SUFFICES ASSUME JInv, [Next]_vars PROVE [Model!Next]_(Model!vars)
      OBVIOUS
    <2>1. CASE Queue
      BY <2>1, QueueMaps DEF JInv, Model!Next
    <2>2. CASE FireQueues
      BY <2>2 DEF FireQueues
    <2>3. CASE StartScan
      BY <2>3, StartScanMaps DEF Model!Next
    <2>4. CASE Evaluate
      BY <2>4, EvaluateMaps DEF Model!vars
    <2>5. CASE FireAndErase
      BY <2>5, FireAndEraseMaps DEF Model!vars
    <2>6. CASE EndScan
      BY <2>6, EndScanMaps DEF Model!vars
    <2>7. CASE UNCHANGED vars
      BY <2>7 DEF vars, program, history, Model!vars, Outcome
    <2> QED
      BY <2>1, <2>2, <2>3, <2>4, <2>5, <2>6, <2>7 DEF Next, Tick
  <1> QED
    BY <1>1, InitMaps, JInvariance, PTL DEF Spec, Model!Spec, ImplementsTickModel
===============================================================================
