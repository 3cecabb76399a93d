-------------------------- MODULE MCCountryEventQueue -------------------------
(* Small instances of CountryEventQueue. *)
EXTENDS CountryEventQueue, TLC

\* Due at once (never queued), on the next day, and later.
ShortDelays == {0, 1, 2}
===============================================================================
