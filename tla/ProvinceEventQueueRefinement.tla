--------------------- MODULE ProvinceEventQueueRefinement ---------------------
(***************************************************************************)
(* The machine loop of ProvinceEventQueue implements the atomic day of     *)
(* ProvinceTickModel as long as a fired event queues nothing on the        *)
(* province it was queued on.  The day takes effect when the scan begins:  *)
(* while the loop runs, the abstract vector already is what the rest of    *)
(* the scan will leave.                                                    *)
(***************************************************************************)
EXTENDS ProvinceEventQueue, ProvinceScan

\* The model's list of a queue q whose entries have the timers d.
Listed(q, d) == [i \in DOMAIN q |-> [id |-> q[i], delay |-> d[q[i]]]]

\* The timers d before the entry e was counted down.
DayMore(d, e) == [d EXCEPT ![e] = @ + 1]

\* The outcome of finishing the scan in progress.  While an event fires, its
\* entry has been counted down and not erased yet, one step behind iter.
Outcome == CASE pc = "idle" -> [vec |-> Listed(queue, delay), fired |-> fired]
             [] pc = "scan" -> Scan(Entry, iter, Listed(queue, delay), fired)
             [] pc = "fire" ->
                  Scan(Entry, iter - 1,
                       Listed(queue, DayMore(delay, ebx)), fired)

Model == INSTANCE ProvinceTickModel
            WITH vec <- Outcome.vec, fired <- Outcome.fired

\* The loop over [begin, end) implements the reference model of the day.
ImplementsTickModel == Model!Spec

\* The delays of the repository's province test battery, cut to small ones.
BatteryDelays == {-1, 0, 1, 2, 3}
===============================================================================
