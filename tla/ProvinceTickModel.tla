--------------------------- MODULE ProvinceTickModel --------------------------
(***************************************************************************)
(* What a province's delayed-event queue promises for one day, as the      *)
(* reference model process_province_delayed_events_tick states it: the     *)
(* whole scan is one atomic step on a list of (event, days left) entries.  *)
(***************************************************************************)
EXTENDS Integers, Sequences, ProvinceScan

CONSTANTS Entry, Delays

VARIABLES vec,    \* the list of [id, delay] entries
          fired   \* the events fired so far, in order

vars == <<vec, fired>>

Init == vec = <<>> /\ fired = <<>>

Add(e, d) == /\ d > 0
             /\ \A i \in DOMAIN vec : vec[i].id # e
             /\ \A i \in DOMAIN fired : fired[i] # e
             /\ vec' = Append(vec, [id |-> e, delay |-> d])
             /\ UNCHANGED fired

Tick == LET day == Scan(Entry, 1, vec, fired)
        IN  vec' = day.vec /\ fired' = day.fired

Next == Tick \/ \E e \in Entry, d \in Delays : Add(e, d)

Spec == Init /\ [][Next]_vars
===============================================================================
