----------------------------- MODULE EvidenceGate -----------------------------
(***************************************************************************)
(* The evidence gate (research/scripts/verify_grounding.py), the scripts   *)
(* it runs and the native bench whose receipt it cites.                    *)
(*                                                                         *)
(* Everything here is files.  People edit sources, mistakes included; the  *)
(* gate runs the verification scripts one after the other and stops at the *)
(* first that fails; each script leaves receipts; at the end the gate      *)
(* hashes sources and receipts into a report.  A native probe is built and *)
(* run by two scripts of its own, at another time, and its receipt is only *)
(* checked against the files it names.                                     *)
(*                                                                         *)
(* Nothing is locked: a script run by hand, or a second gate, may run      *)
(* beside a gate and write the same files.  An edit, a crash, a bench run  *)
(* or a step of another process can fall between any two steps of one.     *)
(*                                                                         *)
(* A file's content is a revision and the step its mistake would be found  *)
(* by ("none" when it has no mistake).  A SHA-256 is the content: two      *)
(* contents have the same hash exactly when they are equal.                *)
(***************************************************************************)
EXTENDS Verifiers, NativeBench, SequencesExt, Selection

CONSTANTS
    Process,    \* the processes that can run at once
    Labs        \* the laboratories to consider: their scripts (a sequence), the
                \* processes that run the gate and those that run scripts by hand,
                \* their bench (or "none"), the sources mistaken at the start, those
                \* that nobody edits, and how many edits and faults (crashes,
                \* timeouts) a behaviour has

ASSUME GateAssumption ==
    \A l \in Labs : /\ l.scripts \in Seq(DOMAIN Verifier)
                   /\ l.gates \subseteq Process /\ l.hands \subseteq Process
                   /\ l.bench \in {"none"} \cup DOMAIN Bench
                   /\ l.edits \in Nat /\ l.faults \in Nat

VARIABLES
    edits,      \* edits made so far
    run,        \* by process: a gate, or a script run by hand
    disk,       \* <<script, receipt>> -> the sources it was made from
    ledger,     \* script -> the sources of its last ledger entry
    report      \* grounding-gate.json

outside == <<lab, content, faults, native, bench>>
gateVars == <<edits, run, disk, ledger, report>>
vars == <<outside, gateVars>>

\* What a process keeps.  Of a gate also, as history: clean, nobody has edited
\* since it began; written, the receipts it has written and nobody has overwritten;
\* underway, the scripts that others had already loaded when it began; and beside,
\* those and the ones that others have loaded since.
Idle == [mode |-> "idle", todo |-> <<>>, step |-> 0, loaded |-> Nothing,
         book |-> Nothing, draft |-> Nothing,
         clean |-> TRUE, written |-> {}, underway |-> {}, beside |-> {}]

\* How a process ends: one that ran a script by hand does not come back.
Over(r) == [Idle EXCEPT !.mode = IF r.mode = "hand" THEN "ended" ELSE "idle"]

\* A gate runs its scripts, then hashes the sources, the receipts, looks at the native
\* receipt and writes the report.
IsGate(p) == run[p].mode \in {"gate", "hashing", "citing", "publishing"}

-----------------------------------------------------------------------------
(* Files *)

Executable == "v2game.exe"

\* What a script reads when it starts: itself, its models and the executable.
Inputs(s) == {s, Executable} \cup Verifier[s].models

BenchFiles(b) == IF b = "none" THEN {} ELSE Sources(Bench[b])

Files == UNION {Inputs(s) : s \in Range(lab.scripts)} \cup BenchFiles(lab.bench)

\* The mistakes a file can have, named by the step that finds them.  A mistake in
\* a model shows when the model is compared with the original code.
Mistakes(f) ==
    LET Comparisons == {"asserted", "counted", "noted"}
        StepsOf(s) == Range(Verifier[s].steps) \cap (Checks \cup {"noted"})
        Own     == IF f \in Range(lab.scripts) THEN StepsOf(f) \ {"profile"} ELSE {}
        AsModel == UNION {StepsOf(s) \cap Comparisons :
                            s \in {t \in Range(lab.scripts) : f \in Verifier[t].models}}
        Native  == IF f \in BenchFiles(lab.bench) \ {Executable} THEN {"probe"} ELSE {}
    IN  IF f = Executable THEN {"profile"} ELSE Own \cup AsModel \cup Native

-----------------------------------------------------------------------------
(* What the gate hashes *)

\* The models and tools the gate hashes besides the scripts it has run.
HashedModels ==
    { "rng_model", "integer_model", "distribution_model", "float_model",
      "pop_transfer_model", "pop_merge_model", "pop_selection_model",
      "pop_factory_selection_model", "price_clamp_model", "mtth_model", "ai_chance_model",
      "delayed_event_tick_model", "event_spawn_model", "province_event_spawn_model",
      "province_event_delayed_tick_model", "market_price_delta_model",
      "market_sensitivity_curve_model", "factory_production_model",
      "province_life_rating_model", "country_tax_revenue_model",
      "country_admin_modifier_model", "country_tariff_clamp_model",
      "promotion_quota_model", "pop_set_size_model", "pop_transfer_threshold_model",
      "country_category_spending_model", "country_infrastructure_model",
      "province_modifier_dispatch_model", "country_spending_clamp_model",
      "country_naval_base_model", "province_target_quota_model",
      "country_military_supply_model", "project_buffer_model",
      "state_factory_build_model", "regiment_max_morale_model",
      "army_average_morale_model", "army_supply_limit_model", "combat_force_ratio_model",
      "combat_frontage_model", "combat_reinforcement_model", "combat_dice_damage_model",
      "combat_target_acquisition_model", "combat_regiment_attack_model",
      "combat_line_consolidation_model", "combat_victory_stackwipe_model",
      "combat_reserve_priority_model", "combat_attacker_ratio_model",
      "army_supply_sufficiency_model", "naval_combat_ratio_model",
      "regiment_reinforce_model", "formation_total_strength_model",
      "province_troop_strength_model", "combat_casualty_commit_model",
      "subunit_census_model", "combatant_strength_model", "combatant_morale_model",
      "subunit_weight_model", "hostile_troop_model", "hostile_naval_direct_model",
      "navy_supply_limit_model", "navy_attrition_resupply_model",
      "formation_cohesion_model", "navy_daily_update_model", "unit_combat_power_model",
      "unit_full_combat_power_model", "formation_experience_max_strength_model",
      "formation_average_stats_model", "analyze_extended_float", "verify_grounding" }

\* The receipts the gate hashes, script by script.
Listed(s) ==
    IF s \in {"verify_rng", "verify_daily_rng", "verify_rng_restore", "verify_pop_schedule",
         "verify_pop_unlink", "verify_pop_destructor", "verify_object_registry",
         "verify_integer_helpers", "verify_distribution", "verify_pop_size",
         "verify_pop_transfer", "verify_pop_reuse", "verify_pop_append",
         "verify_goods_pool_copy", "verify_pop_merge", "verify_pop_selection",
         "verify_pop_factory_selection"}
      THEN {"reverify.json", "emulation.json"}
    ELSE CASE s = "verify_claims" -> {"verified.json", "negative-controls.json", "semantic-limit.json"}
           [] s = "emulate_null_release" -> {"crt-null-release.json"}
           [] s = "verify_calendar" -> {"reverify.json", "emulation.json", "model-proof.smt2"}
           [] s \in {"verify_tick_path", "verify_pop_update"} -> {"reverify.json", "cfg.json"}
           [] s = "inventory_rtti" -> {"reverify.json", "selected.json"}
           [] s \in {"verify_float_conversion", "verify_pop_optional", "verify_pop_factory",
                     "verify_pop_consumer"} -> {"reverify.json"}
           [] s = "verify_pop_growth" -> {"reverify.json", "capacity.json"}
           [] s = "verify_pop_vector_callers" ->
                {"reverify.json", "emulation.json", "call-reference-snapshot.json"}
           [] s = "verify_factory_internal_selector" ->
                {"reverify.json", "call-reference-snapshot.json"}
           [] OTHER -> {"reverify.json", "negative-controls.json", "emulation.json"}

Gated == Keep(lab.scripts, Range(GateScripts))

ListedReceipts == UNION {{s} \X Listed(s) : s \in Range(Gated)}

\* The models forgotten.
HashedScriptsOnly == Files \cap Range(GateScripts)

HashedSources == Files \cap (Range(GateScripts) \cup HashedModels)
-----------------------------------------------------------------------------
Init ==
    /\ lab \in Labs
    /\ \E wrong \in [lab.mistaken -> Checks \cup {"noted", "probe"}] :
         /\ \A f \in lab.mistaken : wrong[f] \in Mistakes(f)
         /\ content = [f \in Files |-> [rev     |-> 0,
                                       mistake |-> IF f \in lab.mistaken THEN wrong[f]
                                                   ELSE "none"]]
    /\ edits = 0 /\ faults = 0
    /\ run = [p \in Process |-> Idle]
    /\ disk = [a \in UNION {{s} \X (Range(Verifier[s].steps) \ (Checks \cup {"noted", "ledger"})) :
                              s \in Range(lab.scripts)} |-> Nothing]
    /\ ledger = [s \in Range(lab.scripts) |-> Nothing]
    /\ report = Nothing
    /\ native = NoProbe
    /\ bench = BenchIdle

\* Somebody saves a source file, at any moment.
Edit ==
    /\ edits < lab.edits
    /\ \E f \in Files \ lab.fixed : \E k \in Mistakes(f) \cup {"none"} :
         content' = [content EXCEPT ![f] = [rev |-> @.rev + 1, mistake |-> k]]
    /\ edits' = edits + 1
    /\ run' = [p \in Process |-> [run[p] EXCEPT !.clean = ~IsGate(p)]]
    /\ bench' = [bench EXCEPT !.clean = bench.at = "idle"]
    /\ UNCHANGED <<lab, faults, disk, ledger, report, native>>

-----------------------------------------------------------------------------
(* The gate and the scripts, process by process *)

Script(p) == Head(run[p].todo)
Steps(p) == Verifier[Script(p)].steps

\* A script that is running has read its sources.
Loaded(p) == run[p].todo # <<>> /\ run[p].step > 0

\* Only process p has taken a step.
Becomes(p, r) == run' = [run EXCEPT ![p] = r]

Underway(p) == {Script(q) : q \in {q \in Process \ {p} : Loaded(q)}}

\* A gate that runs only the scripts whose receipts are missing.
StartGateIncrementally(p) ==
    /\ run[p].mode = "idle" /\ p \in lab.gates
    /\ LET Lacks(s) == \E k \in Listed(s) : disk[<<s, k>>] = Nothing
       IN  Becomes(p, [Idle EXCEPT !.mode = "gate", !.todo = SelectSeq(Gated, Lacks),
                                   !.underway = Underway(p), !.beside = Underway(p)])
    /\ UNCHANGED <<outside, edits, disk, ledger, report>>

StartGate(p) ==
    /\ run[p].mode = "idle" /\ p \in lab.gates
    /\ Becomes(p, [Idle EXCEPT !.mode = "gate", !.todo = Gated,
                               !.underway = Underway(p), !.beside = Underway(p)])
    /\ UNCHANGED <<outside, edits, disk, ledger, report>>

\* A script run by hand, whatever else is running.
RunByHand(p) ==
    /\ run[p].mode = "idle" /\ p \in lab.hands
    /\ \E s \in Range(lab.scripts) : Becomes(p, [Idle EXCEPT !.mode = "hand", !.todo = <<s>>])
    /\ UNCHANGED <<outside, edits, disk, ledger, report>>

\* The process of the next script starts: Python reads its source, its models
\* and the executable.
Load(p) ==
    /\ run[p].todo # <<>> /\ run[p].step = 0
    /\ run' = [q \in Process |->
                 IF q = p THEN [run[p] EXCEPT !.step = 1, !.loaded = Snapshot(Inputs(Script(p)))]
                 ELSE IF IsGate(q) THEN [run[q] EXCEPT !.beside = @ \cup {Script(p)}]
                 ELSE run[q]]
    /\ UNCHANGED <<outside, edits, disk, ledger, report>>

\* After its last step a script ends with exit code zero.
Advanced(r) ==
    IF r.step < Len(Verifier[Head(r.todo)].steps)
      THEN [r EXCEPT !.step = @ + 1]
      ELSE [r EXCEPT !.step = 0, !.todo = Tail(@), !.loaded = Nothing, !.book = Nothing]

\* Without check=True the gate goes on to the next script.
FailedUnnoticed(r) ==
    IF r.mode = "gate" THEN [r EXCEPT !.step = 0, !.todo = Tail(@), !.loaded = Nothing] ELSE Over(r)

\* A script that raises ends with another exit code, and check=True makes the
\* gate raise too: it runs nothing more and writes no report.
Failed(r) == Over(r)

Running(p, kinds) == Loaded(p) /\ Steps(p)[run[p].step] \in kinds

Check(p) ==
    /\ Running(p, Checks \cup {"noted"})
    /\ LET k == Steps(p)[run[p].step]
       IN  Becomes(p, IF k \in Checks /\ Mistaken(run[p].loaded, k)
                        THEN Failed(run[p]) ELSE Advanced(run[p]))
    /\ UNCHANGED <<outside, edits, disk, ledger, report>>

\* One write_text, over whatever is there, whoever wrote it.
WriteReceipt(p) ==
    /\ Loaded(p)
    /\ LET a == <<Script(p), Steps(p)[run[p].step]>>
       IN  /\ a \in DOMAIN disk
           /\ disk' = [disk EXCEPT ![a] = run[p].loaded]
           /\ run' = [q \in Process |->
                        IF q # p THEN [run[q] EXCEPT !.written = @ \ {a}]
                        ELSE IF IsGate(p) THEN Advanced([run[p] EXCEPT !.written = @ \cup {a}])
                        ELSE Advanced(run[p])]
    /\ UNCHANGED <<outside, edits, ledger, report>>

\* The whole ledger is read, and written back with the script's own entry: what
\* another process saved in between is lost.
OpenLedger(p) ==
    /\ Running(p, {"ledger"}) /\ run[p].book = Nothing
    /\ Becomes(p, [run[p] EXCEPT !.book = ledger])
    /\ UNCHANGED <<outside, edits, disk, ledger, report>>

SaveLedger(p) ==
    /\ Running(p, {"ledger"}) /\ run[p].book # Nothing
    /\ ledger' = [run[p].book EXCEPT ![Script(p)] = run[p].loaded]
    /\ Becomes(p, Advanced(run[p]))
    /\ UNCHANGED <<outside, edits, disk, report>>

HandDone(p) ==
    /\ run[p].mode = "hand" /\ run[p].todo = <<>>
    /\ Becomes(p, Over(run[p]))
    /\ UNCHANGED <<outside, edits, disk, ledger, report>>

\* All scripts have passed: the gate hashes the sources.
HashSources(p) ==
    /\ run[p].mode = "gate" /\ run[p].todo = <<>>
    /\ Becomes(p, [run[p] EXCEPT !.mode = "hashing",
                                 !.draft = [sources |-> Snapshot(HashedSources)]])
    /\ UNCHANGED <<outside, edits, disk, ledger, report>>

\* Then the receipts, as they are by now.  A listed receipt that is not there raises.
HashReceipts(p) ==
    /\ run[p].mode = "hashing"
    /\ LET r == run[p]
       IN  Becomes(p,
             IF \E a \in ListedReceipts : a \notin DOMAIN disk \/ disk[a] = Nothing THEN Over(r)
             ELSE [r EXCEPT !.mode = "citing",
                     !.draft = [sources   |-> r.draft.sources,
                                artifacts |-> [a \in ListedReceipts |-> disk[a]],
                                fresh     |-> r.written,
                                underway  |-> r.underway,
                                beside    |-> r.beside]])
    /\ UNCHANGED <<outside, edits, disk, ledger, report>>

\* A receipt of the bench that says pass must hold still.
Cite(p) ==
    /\ run[p].mode = "citing"
    /\ Becomes(p, IF Cited /\ ~CitationHolds THEN Over(run[p])
                  ELSE LET d == run[p].draft
                       IN  [run[p] EXCEPT !.mode = "publishing",
                              !.draft = [sources |-> d.sources, artifacts |-> d.artifacts,
                                         fresh |-> d.fresh, underway |-> d.underway,
                                         beside |-> d.beside,
                                         native |-> IF Cited
                                                      THEN [receipt |-> native.receipt,
                                                            now     |-> Snapshot(B.bound)]
                                                      ELSE Nothing]])
    /\ UNCHANGED <<outside, edits, disk, ledger, report>>

Publish(p) ==
    /\ run[p].mode = "publishing"
    /\ Becomes(p, Over(run[p]))
    /\ LET d == run[p].draft
       IN  report' = [sources |-> d.sources, artifacts |-> d.artifacts, fresh |-> d.fresh,
                      underway |-> d.underway, beside |-> d.beside, native |-> d.native,
                      clean |-> run[p].clean]
    /\ UNCHANGED <<outside, edits, disk, ledger>>

Crash ==
    /\ faults < lab.faults
    /\ faults' = faults + 1
    /\ \/ \E p \in Process : run[p].mode \notin {"idle", "ended"} /\ Becomes(p, Over(run[p]))
                              /\ UNCHANGED bench
       \/ bench.at # "idle" /\ bench' = BenchIdle /\ UNCHANGED run
    /\ UNCHANGED <<lab, content, edits, disk, ledger, report, native>>

-----------------------------------------------------------------------------
Proceeds(p) == \/ Load(p) \/ Check(p) \/ WriteReceipt(p) \/ OpenLedger(p) \/ SaveLedger(p)
               \/ HandDone(p) \/ HashSources(p) \/ HashReceipts(p) \/ Cite(p) \/ Publish(p)

Next ==
    \/ Edit \/ Crash
    \/ \E p \in Process : StartGate(p) \/ RunByHand(p) \/ Proceeds(p)
    \/ BenchStep /\ UNCHANGED gateVars

\* A process that was started goes on; some gate is started again and again, and
\* so are the builder and the runner (each a process somebody starts by hand).
Spec ==
    /\ Init /\ [][Next]_vars
    /\ \A p \in Process : WF_vars(Proceeds(p))
    /\ SF_vars(\E p \in Process : StartGate(p))
    /\ WF_vars(lab.bench # "none" /\ BenchProceeds /\ UNCHANGED gateVars)
    /\ SF_vars(lab.bench # "none" /\ Compile /\ UNCHANGED gateVars)
    /\ SF_vars(lab.bench # "none" /\ Execute /\ UNCHANGED gateVars)

-----------------------------------------------------------------------------
(* Properties *)

NoCheckFails(snapshot) == \A f \in DOMAIN snapshot : snapshot[f].mistake \notin Checks

\* No check that the script makes can fail on these sources.
Passes(s, snapshot) ==
    \A f \in DOMAIN snapshot : snapshot[f].mistake \notin Range(Verifier[s].steps) \cap Checks

\* A receipt that the gate wrote itself, and nobody overwrote, comes from a run in
\* which no check of its script could fail; so does every entry of the ledger,
\* whatever runs beside it.  When nobody edited under the gate, no check of any
\* script fails on the sources of any receipt, its own or not, but for the scripts
\* that somebody had loaded by hand before the gate began: those may still write
\* their receipts of older sources, and judge them afterwards.  (A difference that
\* a script only notes passes; those scripts are two.)
FlawsStopTheGate ==
    /\ report # Nothing =>
           \A a \in DOMAIN report.artifacts :
               /\ a \in report.fresh => Passes(a[1], report.artifacts[a])
               /\ report.clean /\ a[1] \notin report.underway =>
                     NoCheckFails(report.artifacts[a])
    /\ \A s \in DOMAIN ledger : ledger[s] # Nothing => Passes(s, ledger[s])

\* Every receipt the gate lists is as the gate's own run of its script left it: the
\* report never vouches for a receipt of an earlier run.  The one exception is a
\* script that another process ran beside the gate; nothing keeps it from
\* overwriting the receipt.
ReceiptsAreOfThisGate ==
    report # Nothing =>
        \A a \in ListedReceipts : a \in report.fresh \/ a[1] \in report.beside

\* When nobody edited under the gate, the source hashes in the report are those
\* of the very sources its receipts were made from, models included, even of the
\* receipts that another process overwrote; not of those of a script that was
\* loaded before the gate began.
HashesIdentifySources ==
    report # Nothing /\ report.clean =>
        \A a \in DOMAIN report.artifacts :
            a[1] \notin report.underway =>
                \A f \in DOMAIN report.artifacts[a] \ {Executable} :
                    /\ f \in DOMAIN report.sources
                    /\ report.artifacts[a][f] = report.sources[f]

\* Native evidence the report cites was produced by a probe compiled from the
\* harness, and judged by the runner and the models, that the report's gate
\* found on disk (the builder is not among them: its hash is taken when the
\* probe runs, not when it is built).
NativeEvidenceIsBound ==
    (report # Nothing /\ report.native # Nothing /\ report.native.receipt.clean) =>
        LET r == report.native.receipt
            now == report.native.now
        IN  /\ \A f \in B.harness : r.products[f] = now[f]
            /\ \A f \in DOMAIN r.judged \cap B.bound : r.judged[f] = now[f]
            /\ \A f \in B.harness \cup B.judges : now[f].mistake # "probe"

\* The report answers for the sources as they are now.
ReportIsCurrent ==
    /\ report # Nothing
    /\ \A f \in DOMAIN report.sources : report.sources[f] = content[f]
    /\ lab.bench # "none" =>
         /\ report.native # Nothing
         /\ \A f \in B.bound : report.native.receipt.hashes[f] = content[f]

\* Whatever went wrong before, once the sources are in order and stay so, the
\* laboratory comes to a report about them: no failed run, crash, timeout or
\* stale receipt locks the gate for good.
RepairedLabPasses ==
    <>[](\A f \in Files : content[f].mistake = "none") => <>[]ReportIsCurrent
==============================================================================
