---------------------- MODULE CountryEventQueueRefinement ---------------------
(***************************************************************************)
(* The machine loop of CountryEventQueue implements the atomic day of      *)
(* CountryTickModel, for one country and as long as a fired event queues   *)
(* nothing.  The day takes effect when the scan ends: until then the       *)
(* entries the loop has counted down, fired or listed for deletion still   *)
(* look the way they did in the morning, and from then on the entries that *)
(* wait to be erased are already gone.                                     *)
(***************************************************************************)
EXTENDS CountryEventQueue, Selection

AtWork == pc \in {"scan", "fire"}
Doomed == ToSet(doomed)

\* Entries counted down by the scan in progress.
Counted == (ToSet(Vector) \ unseen) \ discarded

Morning == [e \in Entry |->
               [id |-> e, delay |-> IF e \in Counted THEN delay[e] + 1 ELSE delay[e]]]
Evening == [e \in Entry |-> [id |-> e, delay |-> delay[e]]]

\* The state of the reference model.
ModelVec == IF AtWork THEN Mapped(Morning, Vector)
                      ELSE Mapped(Evening, Keep(Vector, Entry \ Doomed))
ModelFired == IF AtWork THEN Keep(fired, Entry \ Doomed) ELSE fired
ModelDiscarded == IF AtWork THEN discarded \ Doomed ELSE discarded

Model == INSTANCE CountryTickModel
            WITH vec <- ModelVec, fired <- ModelFired, discarded <- ModelDiscarded

\* The two-pass scan implements the reference model of the day.
ImplementsTickModel == Model!Spec

\* The delays of the repository's country test battery, cut to small ones.
BatteryDelays == {0, 1, 2, 3}
===============================================================================
