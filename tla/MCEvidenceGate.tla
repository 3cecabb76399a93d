---------------------------- MODULE MCEvidenceGate ----------------------------
(***************************************************************************)
(* Laboratories small enough to exhaust: each script on its own under one  *)
(* edit; scripts that share a model; a script run by hand beside the gate; *)
(* two gates; and each native bench next to a gate that has no script to   *)
(* run (the scripts and the bench share nothing but models).               *)
(***************************************************************************)
EXTENDS EvidenceGate

Lab(scripts, probe, n, m) ==
    [scripts |-> scripts, gates |-> {"first"}, hands |-> {}, bench |-> probe,
     mistaken |-> {}, fixed |-> {}, edits |-> n, faults |-> m]

Alone == {Lab(<<s>>, "none", 1, 0) : s \in DOMAIN Verifier}

\* Two early scripts that share a model, under a crash as well.
Together == {Lab(<<"verify_integer_helpers", "verify_distribution">>, "none", 1, 1)}

\* Two scripts that share a model and compare it in different ways, under an edit
\* and a repair.
Differently == {Lab(<<"verify_pop_set_size", "verify_pop_transfer_threshold">>, "none", 2, 0)}

\* A script run by hand before, after or beside the gate, on the pinned executable.
Beside(lab0) == [lab0 EXCEPT !.hands = {"second"}, !.fixed = {Executable}]

\* The script that writes a receipt before it judges it, mistaken at the start; the
\* one the gate does not know; and a short one under a crash.
ByHand == {[Beside(Lab(<<"verify_claims">>, "none", 1, 0)) EXCEPT !.mistaken = {"verify_claims"}],
           Beside(Lab(<<"verify_formation_combat_power">>, "none", 1, 0)),
           Beside(Lab(<<"emulate_null_release">>, "none", 1, 1))}

\* Two gates at once.
TwoGates == {[Lab(<<"emulate_null_release">>, "none", 1, 0)
                EXCEPT !.gates = {"first", "second"}, !.fixed = {Executable}]}

\* Benches: an edit, some under a fault, one of a source that was mistaken before.
Natively ==
    {Lab(<<>>, b, 1, 0) : b \in {"integer", "pop", "growth"}}
      \cup {Lab(<<>>, "elf32", 1, 1),
            [Lab(<<>>, "float", 1, 1) EXCEPT !.mistaken = {"float_model"}]}

MCLabs == Alone \cup Together \cup Differently \cup ByHand \cup TwoGates \cup Natively
==============================================================================
