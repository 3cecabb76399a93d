--------------------------- MODULE MCObjectRegistry ---------------------------
(* A small instance of ObjectRegistry. *)
EXTENDS ObjectRegistry

\* Two global dwords that are zero, and a key of a caller, in the table of automatic
\* keys and with an id that is drawn as well.  The counter starts at its end.
ZeroKey == <<0, 0>>
CallerKeys == {<<3, 1>>}
LastId == {3}
===============================================================================
