------------------------------- MODULE Selection -------------------------------
(***************************************************************************)
(* What one pass over a list lets through: the step that adds an entry to  *)
(* the fired, the discarded or the remaining of process_delayed_events_tick *)
(* as its loop comes by.  SelectSeq with its test given as a set, so that  *)
(* its laws can be stated.                                                 *)
(***************************************************************************)
EXTENDS Integers, Sequences

\* The elements of s that are in D, in their order.
Keep(s, D) ==
    LET keep[n \in 0 .. Len(s)] ==
            IF n = 0 THEN <<>>
            ELSE IF s[n] \in D THEN Append(keep[n - 1], s[n])
            ELSE keep[n - 1]
    IN  keep[Len(s)]

\* A list with f applied to each of its elements.
Mapped(f, s) == [i \in DOMAIN s |-> f[s[i]]]
================================================================================
