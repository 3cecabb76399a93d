------------------------- MODULE MCProvinceEventQueue -------------------------
(* Small instances of ProvinceEventQueue. *)
EXTENDS ProvinceEventQueue, TLC

\* The mixture the province test battery of the repository uses: due now, due
\* tomorrow and later, plus delays that never reach the queue.
SmallDelays == {-1, 0, 1, 2}
TwoDelays == {1, 2}
===============================================================================
