-------------------------- MODULE ProvinceEventQueue --------------------------
(***************************************************************************)
(* The delayed-event vector of a province (province + 0x384) and the loop  *)
(* CProvince::ProcessDelayedEvents (0x004B1E16..0x004B1FA5) that scans it  *)
(* once a day.                                                             *)
(*                                                                         *)
(* The loop keeps an iterator on its stack frame, advances it BEFORE it    *)
(* looks at the entry's timer, fires the entry when the timer expires and  *)
(* then erases it in place: the entry behind it slides under the iterator  *)
(* and this day's scan never sees it.  What a fired event does is script:  *)
(* it may queue another event on the very vector that is being scanned,    *)
(* and a push_back that outgrows the buffer leaves the iterator pointing   *)
(* into freed memory, outside [begin, end).                                *)
(*                                                                         *)
(* An entry is one CDelayedEvent; entries are never reused, so that what   *)
(* happened to each of them can be told apart.  age, asked, ahead, seen    *)
(* and skipped are history variables: the program does not keep them.      *)
(***************************************************************************)
EXTENDS Integers, Sequences, SequencesExt

CONSTANTS Entry,       \* the CDelayedEvent objects
          None,        \* no object in the register
          Delays,      \* the delays that scripts ask for
          Reentrant    \* may a fired event queue onto this province?

ASSUME ProvinceQueueAssumption ==
    /\ None \notin Entry
    /\ Delays \subseteq Int
    /\ Reentrant \in BOOLEAN

VARIABLES
    queue,     \* [begin, end): the vector of CDelayedEvent pointers
    capacity,  \* entries the buffer has room for
    delay,     \* CDelayedEvent + 0x54, by entry
    pc,        \* where the daily update is in the loop
    iter,      \* [esp + 0x28], as an index of queue; 0 is out of the buffer
    ebx,       \* the entry the loop has loaded
    fired,     \* the entries fired so far, in firing order
    asked,     \* history: the delay an entry was queued with, 0 before that
    ahead,     \* history: how many entries were ahead of it then
    age,       \* history: the daily scans begun since
    seen,      \* history: the entries this day's scan has evaluated
    skipped    \* history: the entries the last whole scan left unevaluated

program == <<queue, capacity, delay, pc, iter, ebx, fired>>
history == <<asked, ahead, age, seen, skipped>>
vars == <<program, history>>

OutOfBuffer == 0

\* CDelayedEvent objects that were created and have not fired yet.
Pending == ToSet(queue)
Created(e) == asked[e] # 0

\* An entry may be pushed only with a positive delay: the script command fires
\* the event at once otherwise, and does nothing for an event it does not find.
Queueable(d) == d > 0

\* The timer says that the event is due (the jg at 0x004B1E4E falls through).
\* Mutant: a day too late.
ExpiredLate(days)  == days < 0
Expired(days)      == days <= 0

\* Where the scan begins.
Begin == 1

\* std::vector growth by half, by at least one entry.
Grown(n) == IF n \div 2 > 1 THEN n + n \div 2 ELSE n + 1

-------------------------------------------------------------------------------

Init == /\ queue = <<>>
        /\ capacity = 0
        /\ delay = [e \in Entry |-> 0]
        /\ pc = "idle"
        /\ iter = OutOfBuffer
        /\ ebx = None
        /\ fired = <<>>
        /\ asked = [e \in Entry |-> 0]
        /\ ahead = [e \in Entry |-> 0]
        /\ age = [e \in Entry |-> 0]
        /\ seen = {}
        /\ skipped = {}

\* CProvince::AddDelayedEvent: malloc, set the timer, push_back.
AddDelayedEvent(e, d) ==
    /\ ~Created(e)
    /\ Queueable(d)
    /\ queue' = Append(queue, e)
    /\ IF Len(queue) < capacity
          THEN UNCHANGED <<capacity, iter>>
          ELSE /\ capacity' = Grown(capacity)
               /\ iter' = OutOfBuffer
    /\ delay' = [delay EXCEPT ![e] = d]
    /\ asked' = [asked EXCEPT ![e] = d]
    /\ ahead' = [ahead EXCEPT ![e] = Len(queue)]
    /\ UNCHANGED <<pc, ebx, fired, age, seen, skipped>>

\* A script queues an event between two daily updates of this province.
Queue == pc = "idle" /\ \E e \in Entry, d \in Delays : AddDelayedEvent(e, d)

\* The effects of the event being fired queue another one.
FireQueues == /\ Reentrant
              /\ pc = "fire"
              /\ \E e \in Entry, d \in Delays : AddDelayedEvent(e, d)

\* The daily update of the province reaches the loop.
StartScan == /\ pc = "idle"
             /\ pc' = "scan"
             /\ iter' = Begin
             /\ age' = [e \in Entry |-> IF e \in Pending THEN age[e] + 1
                                                         ELSE age[e]]
             /\ seen' = {}
             /\ UNCHANGED <<queue, capacity, delay, ebx, fired,
                            asked, ahead, skipped>>

\* begin <= iter < end: load the entry, step the iterator, count one day down.
Evaluate == /\ pc = "scan"
            /\ iter \in DOMAIN queue
            /\ ebx' = queue[iter]
            /\ iter' = iter + 1
            /\ delay' = [delay EXCEPT ![queue[iter]] = @ - 1]
            /\ pc' = IF Expired(delay[queue[iter]] - 1) THEN "fire" ELSE "scan"
            /\ seen' = seen \cup {queue[iter]}
            /\ UNCHANGED <<queue, capacity, fired, asked, ahead, age, skipped>>

\* Mutants of FireAndErase: the entry stays in the vector; it is erased and never
\* fired; the iterator steps back with the entries.
FireOnly == /\ pc = "fire"
            /\ fired' = Append(fired, ebx)
            /\ pc' = "scan"
            /\ ebx' = None
            /\ UNCHANGED <<queue, capacity, delay, iter,
                           asked, ahead, age, seen, skipped>>
EraseUnfired == /\ pc = "fire"
                /\ \E i \in DOMAIN queue : /\ queue[i] = ebx
                                           /\ queue' = RemoveAt(queue, i)
                /\ pc' = "scan"
                /\ ebx' = None
                /\ UNCHANGED <<capacity, delay, iter, fired,
                               asked, ahead, age, seen, skipped>>
FireAndStepBack == /\ pc = "fire"
                   /\ queue' = RemoveAt(queue, iter - 1)
                   /\ fired' = Append(fired, ebx)
                   /\ iter' = iter - 1
                   /\ pc' = "scan"
                   /\ ebx' = None
                   /\ UNCHANGED <<capacity, delay,
                                  asked, ahead, age, seen, skipped>>

\* Event_Fire has returned: find the entry, close the gap, destroy the object.
FireAndErase == /\ pc = "fire"
                /\ \E i \in DOMAIN queue : /\ queue[i] = ebx
                                           /\ queue' = RemoveAt(queue, i)
                /\ fired' = Append(fired, ebx)
                /\ pc' = "scan"
                /\ ebx' = None
                /\ UNCHANGED <<capacity, delay, iter,
                               asked, ahead, age, seen, skipped>>

\* The iterator left [begin, end): the loop is over for the day.
EndScan == /\ pc = "scan"
           /\ iter \notin DOMAIN queue
           /\ pc' = "idle"
           /\ iter' = OutOfBuffer
           /\ skipped' = Pending \ seen
           /\ UNCHANGED <<queue, capacity, delay, ebx, fired,
                          asked, ahead, age, seen>>

Tick == StartScan \/ Evaluate \/ FireAndErase \/ EndScan
Next == Queue \/ FireQueues \/ Tick

Spec == Init /\ [][Next]_vars

\* The daily update runs as long as the game does.
FairSpec == Spec /\ WF_vars(Tick)

-------------------------------------------------------------------------------

TypeOK == /\ queue \in Seq(Entry)
          /\ capacity \in Nat
          /\ delay \in [Entry -> Int]
          /\ pc \in {"idle", "scan", "fire"}
          /\ iter \in Nat
          /\ ebx \in Entry \cup {None}
          /\ fired \in Seq(Entry)
          /\ asked \in [Entry -> Nat]
          /\ ahead \in [Entry -> Nat]
          /\ age \in [Entry -> Nat]
          /\ seen \subseteq Entry
          /\ skipped \subseteq Entry

\* No event is lost and none is delivered twice: an entry that was created is
\* either once in the vector or once among the fired, never both, whatever the
\* scan erases under its own iterator.
ExactlyOnce ==
    /\ \A i, j \in DOMAIN queue : queue[i] = queue[j] => i = j
    /\ \A i, j \in DOMAIN fired : fired[i] = fired[j] => i = j
    /\ ToSet(queue) \cap ToSet(fired) = {}
    /\ \A e \in Entry : Created(e) <=> e \in ToSet(queue) \cup ToSet(fired)

\* In-place erasure and early exits delay an event, but by no more days than
\* there were entries ahead of it when it was queued.
LatenessBounded ==
    \A e \in ToSet(fired) : age[e] <= asked[e] + ahead[e]

\* No event fires more than one day before it is due.  (One day is possible:
\* an event queued by a fired event is counted down by the scan in progress.)
NeverEarly == \A e \in ToSet(fired) : asked[e] <= age[e] + 1

\* A scan that is cut short, skips what slides under its iterator and is extended
\* by what it fires still keeps to the delays scripts asked for.
FiresOnTime == LatenessBounded /\ NeverEarly

\* The timer of an event that is still queued has time left whenever the scan
\* is not at work: an expired event never stays in the vector overnight.
NothingExpiredOvernight == pc = "idle" => \A e \in Pending : delay[e] > 0

\* PROVINCE-EVENT-DELAYED-TICK.md:40 and the docstring of the reference model:
\* the entry that slides under the iterator "is evaluated on the subsequent
\* day".
SkippedIsEvaluatedNextDay ==
    (pc = "scan" /\ iter \notin DOMAIN queue) =>
        skipped \cap Pending \subseteq seen

\* Every queued event eventually fires.
EventuallyFires ==
    \A e \in Entry : (e \in ToSet(queue)) ~> (e \in ToSet(fired))
===============================================================================
