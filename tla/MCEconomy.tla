------------------------------- MODULE MCEconomy -------------------------------
(***************************************************************************)
(* A state of four places, two of them reserved, with two ordinary types,  *)
(* one that needs coast and one that needs a technology and a port among   *)
(* them, one type of each category and one of both.  Prices and outputs    *)
(* are of the size of the repository's fixtures, with the base price of    *)
(* its cheapest good; the market numbers are those of the game.            *)
(***************************************************************************)
EXTENDS Economy

Types  == {"cannery", "shipyard", "glass", "arms", "clipper", "ironclad"}
CatA   == {"arms", "ironclad"}
CatB   == {"clipper", "ironclad"}
Coast  == {"shipyard", "clipper"}
Tech   == {"glass", "ironclad"}
Port   == {"ironclad"}
Goods  == {"steel"}

\* A port at peace, before its technology, landlocked, and a colony.
Moments == {[colonial |-> FALSE, coast |-> TRUE,  tech |-> TRUE,  port |-> TRUE],
            [colonial |-> FALSE, coast |-> TRUE,  tech |-> FALSE, port |-> FALSE],
            [colonial |-> FALSE, coast |-> FALSE, tech |-> TRUE,  port |-> FALSE],
            [colonial |-> TRUE,  coast |-> TRUE,  tech |-> TRUE,  port |-> TRUE]}

MadeOf  == [t \in Types |-> "steel"]
Outputs == [t \in Types |-> IF t \in {"cannery", "arms"} THEN 1000 ELSE 16000]
Bases   == [g \in Goods |-> 3276]

\* A new game, and saves with the price at either limit.
Begins == {3276, MinPrice(3276), MaxPrice(3276)}

\* Supply from far below demand to twice the demand.
Asked == {32768, 40000, 500000}
===============================================================================
