----------------------------- MODULE ProvinceScan -----------------------------
(***************************************************************************)
(* The loop of process_province_delayed_events_tick as a function of the   *)
(* list it is given, for the atomic day of ProvinceTickModel and for the   *)
(* refinement that maps a scan in progress to its outcome.                 *)
(***************************************************************************)
EXTENDS Integers, Sequences, SequencesExt

\* A list of the entries E and their days, and how far a scan has come with one.
Timed(E) == [id : E, delay : Int]
Progress(E) == [at : Nat \ {0}, vec : Seq(Timed(E)), fired : Seq(E)]

\* One day less for the entry at position k.
EntryLess(v, k) == [v EXCEPT ![k].delay = @ - 1]

\* One turn of the loop: an expired entry is deleted in place and the index still
\* moves on, past the entry that took its position.
Turn(s) ==
    LET w     == EntryLess(s.vec, s.at)
        ended == w[s.at].delay <= 0
    IN  [at    |-> s.at + 1,
         vec   |-> IF ended THEN RemoveAt(w, s.at) ELSE w,
         fired |-> IF ended THEN Append(s.fired, w[s.at].id) ELSE s.fired]

\* The scan from index i on.
Scan(E, i, v, f) ==
    LET scan[s \in Progress(E)] == IF s.at > Len(s.vec) THEN s ELSE scan[Turn(s)]
    IN  scan[[at |-> i, vec |-> v, fired |-> f]]
===============================================================================
