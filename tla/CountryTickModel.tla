--------------------------- MODULE CountryTickModel ---------------------------
(***************************************************************************)
(* What a country's delayed-event queue promises for one day, as the       *)
(* reference model process_delayed_events_tick states it: one atomic step  *)
(* that sorts the entries into fired, discarded and remaining.             *)
(***************************************************************************)
EXTENDS Integers, Sequences, SequencesExt, Selection

CONSTANTS Entry, Delays

VARIABLES vec,        \* the list of [id, delay] entries
          fired,      \* the events fired so far, in order
          discarded   \* the events removed without firing

vars == <<vec, fired, discarded>>

Init == vec = <<>> /\ fired = <<>> /\ discarded = {}

Ids(entries) == [i \in DOMAIN entries |-> entries[i].id]

Add(e, d) == /\ d > 0
             /\ e \notin ToSet(Ids(vec)) \cup ToSet(fired) \cup discarded
             /\ vec' = Append(vec, [id |-> e, delay |-> d])
             /\ UNCHANGED <<fired, discarded>>

\* invalid: the entries whose is_valid is false on this day.
Tick(invalid) ==
    LET valid   == Keep(vec, {x \in ToSet(vec) : x.id \notin invalid})
        counted == [i \in DOMAIN valid |-> [valid[i] EXCEPT !.delay = @ - 1]]
    IN  /\ vec' = Keep(counted, {x \in ToSet(counted) : x.delay > 0})
        /\ fired' = fired \o Ids(Keep(counted, {x \in ToSet(counted) : x.delay <= 0}))
        /\ discarded' = discarded \cup invalid

Next == \/ \E invalid \in SUBSET ToSet(Ids(vec)) : Tick(invalid)
        \/ \E e \in Entry, d \in Delays : Add(e, d)

Spec == Init /\ [][Next]_vars
===============================================================================
