--------------------------- MODULE CountryEventQueue --------------------------
(***************************************************************************)
(* The delayed-event vectors of the countries (country + 0x68) and the     *)
(* daily loop that scans them, CCountry::ProcessDelayedEvents              *)
(* (0x0050B5C8..0x0050B696), called for one country after the other.       *)
(*                                                                         *)
(* Unlike the province loop, this one leaves the vector alone while it     *)
(* scans: entries that fired, and entries whose target is not valid any    *)
(* more, go to a temporary list, and a second pass erases them.  What a    *)
(* fired event does is script.  It may queue an event on the country being *)
(* scanned (the scan then sees it on the same day, or ends early because   *)
(* the buffer has moved under its iterator), on one scanned earlier that   *)
(* day or on one still to come.                                            *)
(*                                                                         *)
(* asked, ahead, age, unseen and room are history variables.               *)
(***************************************************************************)
EXTENDS Integers, Sequences, SequencesExt

CONSTANTS N,          \* countries, updated in the order 1 .. N
          Entry,      \* the CDelayedEvent objects
          None,       \* no object in the register
          Delays,     \* the delays scripts ask for
          Reentrant   \* may a fired event queue others?

ASSUME CountryQueueAssumption ==
    /\ N \in Nat \ {0}
    /\ None \notin Entry
    /\ Delays \subseteq Int
    /\ Reentrant \in BOOLEAN

VARIABLES
    queue,      \* by country: the vector of CDelayedEvent pointers
    capacity,   \* by country: entries its buffer has room for
    delay,      \* CDelayedEvent + 0x54, by entry
    pc,         \* where the daily update is in the loop
    country,    \* ebx: the country being updated
    iter,       \* [ebp - 0x30], as an index of its vector; 0 is out of it
    edi,        \* the entry the loop has loaded
    doomed,     \* [ebp - 0x5c]: the temporary deletion list
    fired,      \* the entries fired so far, in firing order
    discarded,  \* the entries dropped with an invalid target
    asked,      \* history: the delay an entry was queued with, 0 before that
    ahead,      \* history: how many entries were ahead of it then
    age,        \* history: the days begun since
    unseen,     \* history: entries there when the scan began, not yet evaluated
    room        \* history: capacity of the vector when the scan began

program == <<queue, capacity, delay, pc, country, iter, edi, doomed, fired,
             discarded>>
history == <<asked, ahead, age, unseen, room>>
vars == <<program, history>>

Country == 1 .. N
OutOfBuffer == 0

Vector == queue[country]
Pending == (UNION {ToSet(queue[c]) : c \in Country}) \ ToSet(doomed)
Created(e) == asked[e] # 0

\* An entry may be pushed only with a positive delay: the script command fires
\* the event at once otherwise, and does nothing for an event it does not find.
Queueable(d) == d > 0

\* The timer says that the event is due (the jg at 0x0050B643 falls through).
\* Mutant: a day too late.
ExpiredLate(days)  == days < 0
Expired(days)      == days <= 0

\* Where a scan begins.
Begin == 1

\* Where an iterator points once the buffer it points into is freed.  Mutant:
\* it follows the entry to the new buffer.
FollowBuffer(i) == i
Freed(i)        == OutOfBuffer

\* std::vector growth by half, by at least one entry.
Grown(n) == IF n \div 2 > 1 THEN n + n \div 2 ELSE n + 1

-------------------------------------------------------------------------------

Init == /\ queue = [c \in Country |-> <<>>]
        /\ capacity = [c \in Country |-> 0]
        /\ delay = [e \in Entry |-> 0]
        /\ pc = "idle"
        /\ country = 1
        /\ iter = OutOfBuffer
        /\ edi = None
        /\ doomed = <<>>
        /\ fired = <<>>
        /\ discarded = {}
        /\ asked = [e \in Entry |-> 0]
        /\ ahead = [e \in Entry |-> 0]
        /\ age = [e \in Entry |-> 0]
        /\ unseen = {}
        /\ room = 0

\* CCountry::AddDelayedEvent: malloc, set the timer, push_back.
AddDelayedEvent(c, e, d) ==
    /\ ~Created(e)
    /\ Queueable(d)
    /\ queue' = [queue EXCEPT ![c] = Append(@, e)]
    /\ IF Len(queue[c]) < capacity[c]
          THEN UNCHANGED <<capacity, iter>>
          ELSE /\ capacity' = [capacity EXCEPT ![c] = Grown(@)]
               /\ iter' = IF c = country THEN Freed(iter) ELSE iter
    /\ delay' = [delay EXCEPT ![e] = d]
    /\ asked' = [asked EXCEPT ![e] = d]
    /\ ahead' = [ahead EXCEPT ![e] = Len(queue[c])]
    /\ UNCHANGED <<pc, country, edi, doomed, fired, discarded, age, unseen, room>>

\* A script queues an event between two days.
Queue == /\ pc = "idle"
         /\ \E c \in Country, e \in Entry, d \in Delays : AddDelayedEvent(c, e, d)

\* The effects of the event being fired queue another one, on any country.
FireQueues ==
    /\ Reentrant
    /\ pc = "fire"
    /\ \E c \in Country, e \in Entry, d \in Delays : AddDelayedEvent(c, e, d)

\* The loop of one country begins: iter := begin, deletion list empty.
Enter(c) == /\ country' = c
            /\ pc' = "scan"
            /\ iter' = Begin
            /\ unseen' = ToSet(queue[c])
            /\ room' = capacity[c]

\* A day begins with the first country.
StartDay == /\ pc = "idle"
            /\ Enter(1)
            /\ age' = [e \in Entry |-> IF e \in Pending THEN age[e] + 1
                                                        ELSE age[e]]
            /\ UNCHANGED <<queue, capacity, delay, edi, doomed, fired, discarded,
                           asked, ahead>>

\* begin <= iter < end: the entry is loaded and the iterator stepped.
Load(e) == /\ pc = "scan"
           /\ iter \in DOMAIN Vector
           /\ e = Vector[iter]
           /\ iter' = iter + 1
           /\ unseen' = unseen \ {e}

\* Mutant of Discard: the entry is not listed for deletion.
DiscardUnlisted == \E e \in Entry :
    /\ Load(e)
    /\ discarded' = discarded \cup {e}
    /\ UNCHANGED <<queue, capacity, delay, pc, country, edi, doomed, fired,
                   asked, ahead, age, room>>

\* The target check (0x008A58C0) fails: to be erased, neither counted nor fired.
Discard == \E e \in Entry :
    /\ Load(e)
    /\ doomed' = Append(doomed, e)
    /\ discarded' = discarded \cup {e}
    /\ UNCHANGED <<queue, capacity, delay, pc, country, edi, fired,
                   asked, ahead, age, room>>

\* The target is valid: one day less, and the event fires when none is left.
CountDown == \E e \in Entry :
    /\ Load(e)
    /\ delay' = [delay EXCEPT ![e] = @ - 1]
    /\ IF Expired(delay[e] - 1)
          THEN pc' = "fire" /\ edi' = e
          ELSE UNCHANGED <<pc, edi>>
    /\ UNCHANGED <<queue, capacity, country, doomed, fired, discarded,
                   asked, ahead, age, room>>

\* Mutants of Fired: the entry is not listed for deletion; the event is listed
\* and never fired.
FiredUnlisted == /\ pc = "fire"
                 /\ pc' = "scan"
                 /\ fired' = Append(fired, edi)
                 /\ edi' = None
                 /\ UNCHANGED <<queue, capacity, delay, country, iter, doomed,
                                discarded, asked, ahead, age, unseen, room>>
ListedUnfired == /\ pc = "fire"
                 /\ pc' = "scan"
                 /\ doomed' = Append(doomed, edi)
                 /\ edi' = None
                 /\ UNCHANGED <<queue, capacity, delay, country, iter, fired,
                                discarded, asked, ahead, age, unseen, room>>

\* CCountryEvent::Fire has returned: the entry goes to the deletion list.
Fired == /\ pc = "fire"
         /\ pc' = "scan"
         /\ fired' = Append(fired, edi)
         /\ doomed' = Append(doomed, edi)
         /\ edi' = None
         /\ UNCHANGED <<queue, capacity, delay, country, iter, discarded,
                        asked, ahead, age, unseen, room>>

\* The iterator left [begin, end).
EndScan == /\ pc = "scan"
           /\ iter \notin DOMAIN Vector
           /\ pc' = "erase"
           /\ iter' = OutOfBuffer
           /\ UNCHANGED <<queue, capacity, delay, country, edi, doomed, fired,
                          discarded, asked, ahead, age, unseen, room>>

\* One node of the deletion list: erase the pointer from the vector.
Erase == /\ pc = "erase"
         /\ doomed # <<>>
         /\ \E i \in DOMAIN Vector :
               /\ Vector[i] = Head(doomed)
               /\ queue' = [queue EXCEPT ![country] = RemoveAt(@, i)]
         /\ doomed' = Tail(doomed)
         /\ UNCHANGED <<capacity, delay, pc, country, iter, edi, fired, discarded,
                        asked, ahead, age, unseen, room>>

\* The list is destroyed and the update moves on to the next country.
NextCountry == /\ pc = "erase"
               /\ doomed = <<>>
               /\ country < N
               /\ Enter(country + 1)
               /\ UNCHANGED <<queue, capacity, delay, edi, doomed, fired,
                              discarded, asked, ahead, age>>

EndDay == /\ pc = "erase"
          /\ doomed = <<>>
          /\ country = N
          /\ pc' = "idle"
          /\ country' = 1
          /\ UNCHANGED <<queue, capacity, delay, iter, edi, doomed, fired,
                         discarded, asked, ahead, age, unseen, room>>

Tick == StartDay \/ Discard \/ CountDown \/ Fired \/ EndScan \/ Erase
            \/ NextCountry \/ EndDay
Next == Queue \/ FireQueues \/ Tick

Spec == Init /\ [][Next]_vars

\* Days go on as long as the game runs.
FairSpec == Spec /\ WF_vars(Tick)

-------------------------------------------------------------------------------

TypeOK == /\ queue \in [Country -> Seq(Entry)]
          /\ capacity \in [Country -> Nat]
          /\ delay \in [Entry -> Int]
          /\ pc \in {"idle", "scan", "fire", "erase"}
          /\ country \in Country
          /\ iter \in Nat
          /\ edi \in Entry \cup {None}
          /\ doomed \in Seq(Entry)
          /\ fired \in Seq(Entry)
          /\ discarded \subseteq Entry
          /\ asked \in [Entry -> Nat]
          /\ ahead \in [Entry -> Nat]
          /\ age \in [Entry -> Nat]
          /\ unseen \subseteq Entry
          /\ room \in Nat

\* No event is lost, none happens twice and none is both fired and discarded:
\* a created entry waits in exactly one vector, or fired once, or was discarded.
ExactlyOnce ==
    /\ \A c \in Country : \A i, j \in DOMAIN queue[c] :
          queue[c][i] = queue[c][j] => i = j
    /\ \A c, d \in Country : c # d => ToSet(queue[c]) \cap ToSet(queue[d]) = {}
    /\ \A i, j \in DOMAIN fired : fired[i] = fired[j] => i = j
    /\ ToSet(fired) \cap discarded = {}
    /\ Pending \cap (ToSet(fired) \cup discarded) = {}
    /\ \A e \in Entry :
          Created(e) <=> e \in Pending \cup ToSet(fired) \cup discarded

\* An event fires at most one day before it is due (when the fired event that
\* queued it leaves it to a scan of the same day).  A scan cut short by a moved
\* buffer delays an event, but by no more days than there were entries ahead of it
\* when it was queued.
FiresOnTime ==
    \A e \in ToSet(fired) : age[e] \in asked[e] - 1 .. asked[e] + ahead[e]

\* Events that queue one-day events cannot keep the scan of a day going: one
\* scan finishes no more entries than the buffer had room for at its start.
ScanBoundedByCapacity == pc \in {"scan", "fire"} => Len(doomed) <= room

\* Every queued event is eventually fired or discarded.
EventuallySettled ==
    \A e \in Entry : (e \in Pending) ~> (e \in ToSet(fired) \cup discarded)
===============================================================================
