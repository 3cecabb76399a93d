---------------------------- MODULE MCPopMigration ----------------------------
(* A small world: two provinces of one country and one of another, five types,   *)
(* three cultures in two groups.                                                 *)
EXTENDS PopMigration

World      == <<"a", "b", "c">>
Countries  == [p \in {"a", "b", "c"} |-> IF p = "c" THEN "Y" ELSE "X"]
Groups     == [c \in {"north", "south", "far"} |-> IF c = "far" THEN 9 ELSE 7]
Creeds     == {"old", "new"}
AllTypes   == <<"none", "farmer", "slave", "worker", "lord">>
Types      ==
    [none   |-> [level |-> 0,  limit |-> Unlimited, demotes |-> FALSE, barred |-> FALSE,
                 floor |-> 0, index |-> 0, real |-> FALSE],
     farmer |-> [level |-> 10, limit |-> Unlimited, demotes |-> FALSE, barred |-> FALSE,
                 floor |-> 0, index |-> 1, real |-> TRUE],
     slave  |-> [level |-> 5,  limit |-> Unlimited, demotes |-> FALSE, barred |-> TRUE,
                 floor |-> 0, index |-> 2, real |-> TRUE],
     worker |-> [level |-> 10, limit |-> 2, demotes |-> FALSE, barred |-> FALSE,
                 floor |-> 0, index |-> 1, real |-> TRUE],
     lord   |-> [level |-> 20, limit |-> Unlimited, demotes |-> TRUE, barred |-> FALSE,
                 floor |-> 2, index |-> 1, real |-> TRUE]]

P(type, culture, religion, size, balance) ==
    [type |-> type, culture |-> culture, religion |-> religion,
     size |-> size, balance |-> balance]

\* Lords and their likes in either country, a full POP, an empty one, a barred type,
\* neighbours that only a weaker pass accepts.
Starts == {
    [a |-> <<P("lord", "north", "old", 3, 5), P("slave", "north", "old", 1, 0)>>,
     b |-> <<P("farmer", "north", "old", 2, 1)>>,
     c |-> <<P("worker", "north", "old", 1, 1)>>],
    [a |-> <<P("farmer", "north", "old", 2, 5), P("farmer", "far", "old", 2, 2)>>,
     b |-> <<P("worker", "north", "new", 1, 0), P("farmer", "south", "old", 2, 0)>>,
     c |-> <<>>],
    [a |-> <<P("worker", "south", "new", 2, 3)>>,
     b |-> <<P("lord", "south", "new", 1, 4), P("worker", "far", "old", 0, 0)>>,
     c |-> <<P("farmer", "north", "new", 3, 0)>>]}
===============================================================================
