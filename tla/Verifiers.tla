------------------------------ MODULE Verifiers ------------------------------
(***************************************************************************)
(* What each verification script of research/scripts does, in order.       *)
(*                                                                         *)
(* A script is one process.  It imports its models and reads the reference *)
(* executable when it starts; then it takes its steps one after the other. *)
(* A check raises when it fails, and nothing after it happens.  A receipt  *)
(* is a file written with one write_text; the ledger is saved last.        *)
(*                                                                         *)
(*   "profile"   the SHA-256 of v2game.exe is the pinned one               *)
(*   "links"     static bytes read straight from the image (vtable slots,  *)
(*               call tables) are the expected ones                        *)
(*   "verify"    every claim about the code bytes comes out VERIFIED       *)
(*   "controls"  a wrong claim comes out REFUTED, its dependent            *)
(*               INVALIDATED                                               *)
(*   "asserted"  emulated original code is compared with the model fixture *)
(*               by fixture, and the first difference raises               *)
(*   "counted"   the differences are counted, and the count is asserted to *)
(*               be zero after the last fixture                            *)
(*   "noted"     the differences are counted or printed; nothing raises    *)
(*   "x.json"    the receipt of that name is written                       *)
(*   "ledger"    the report is recorded and the ledger saved               *)
(*                                                                         *)
(* The claims, the emulated memory and the fixtures themselves are left    *)
(* out: what matters here is which mistake stops which script, and what    *)
(* the script has written by then.                                         *)
(***************************************************************************)
EXTENDS Sequences

\* The steps that can raise.
Checks == {"profile", "links", "verify", "controls", "asserted", "counted"}

\* Every script checks the pinned executable first; all but three save the ledger last.
Unlogged(models, steps) == [models |-> models, steps |-> <<"profile">> \o steps]

Checked(models, steps) == Unlogged(models, steps \o <<"ledger">>)

\* The earlier scripts that emulate: claims, comparison, three receipts, ledger.
Emulated(models) ==
    Checked(models, <<"verify", "asserted", "claims.json", "reverify.json", "emulation.json">>)

\* The later scripts share a protocol: claims and their negative controls before
\* any emulation, four receipts after the last comparison, then the ledger.
Protocol(links, comparison) ==
    links \o <<"verify", "controls">> \o comparison
          \o <<"claims.json", "reverify.json", "negative-controls.json", "emulation.json">>

Contrasted(models, links, comparison) == Checked(models, Protocol(links, comparison))

\* Two scripts of the same protocol keep no ledger.
Unrecorded(models, links, comparison) ==
    Unlogged(models, Protocol(links, comparison))

-----------------------------------------------------------------------------
(* The scripts, in the order the gate runs them. *)

VerifyClaims ==
    Checked({},
            <<"claims.json", "verified.json", "verify", "negative-controls.json",
            "controls", "semantic-limit.json">>)
EmulateNullRelease == Unlogged({}, <<"asserted", "crt-null-release.json">>)
VerifyCalendar ==
    Checked({},
            <<"links", "verify", "asserted", "claims.json", "reverify.json",
            "model-proof.smt2", "emulation.json">>)
VerifyTickPath ==
    Checked({},
            <<"verify", "asserted", "claims.json", "reverify.json", "cfg.json">>)
VerifyRng == Emulated({"rng_model"})
VerifyDailyRng == Emulated({"rng_model"})
VerifyRngRestore == Emulated({"rng_model"})
VerifyPopSchedule == Emulated({})
VerifyPopUnlink == Emulated({})
VerifyPopDestructor == Emulated({})
VerifyObjectRegistry == Emulated({})
VerifyIntegerHelpers == Emulated({"integer_model"})
VerifyDistribution == Emulated({"distribution_model", "integer_model"})
InventoryRtti ==
    Checked({},
            <<"links", "verify", "claims.json", "reverify.json", "selected.json",
            "inventory.json">>)
VerifyPopUpdate ==
    Checked({},
            <<"verify", "asserted", "claims.json", "reverify.json", "cfg.json">>)
VerifyPopSize == Emulated({})
VerifyFloatConversion == Checked({}, <<"verify", "claims.json", "reverify.json">>)
VerifyPopTransfer == Emulated({"pop_transfer_model"})
VerifyPopReuse == Emulated({"pop_transfer_model"})
VerifyPopAppend == Emulated({"pop_transfer_model"})
VerifyPopGrowth ==
    Checked({},
            <<"verify", "asserted", "claims.json", "reverify.json", "capacity.json">>)
VerifyPopOptional == Checked({}, <<"verify", "claims.json", "reverify.json">>)
VerifyGoodsPoolCopy == Emulated({})
VerifyPopVectorCallers ==
    Checked({"pop_transfer_model"},
            <<"links", "verify", "asserted", "claims.json", "reverify.json",
            "emulation.json", "call-reference-snapshot.json">>)
VerifyPopFactory == Checked({}, <<"verify", "claims.json", "reverify.json">>)
VerifyPopConsumer == Checked({}, <<"verify", "claims.json", "reverify.json">>)
VerifyPopMerge == Emulated({"integer_model", "pop_merge_model"})
VerifyPopSelection ==
    Emulated({"integer_model", "pop_merge_model", "pop_selection_model"})
VerifyPopFactorySelection ==
    Emulated({"pop_factory_selection_model", "pop_transfer_model"})
VerifyFactoryInternalSelector ==
    Checked({},
            <<"links", "verify", "claims.json", "reverify.json",
            "call-reference-snapshot.json">>)
VerifyPriceClamp == Contrasted({"price_clamp_model"}, <<>>, <<"counted">>)
VerifyMtth == Contrasted({"mtth_model"}, <<>>, <<"counted">>)
VerifyAiChance == Contrasted({"ai_chance_model"}, <<>>, <<"counted">>)
VerifyEventSpawn == Contrasted({"event_spawn_model"}, <<>>, <<"asserted">>)
VerifyDelayedEventTick == Contrasted({"delayed_event_tick_model"}, <<>>, <<"asserted">>)
VerifyProvinceEventSpawn ==
    Contrasted({"province_event_spawn_model"},
               <<>>, <<"asserted">>)
VerifyProvinceEventDelayedTick ==
    Contrasted({"province_event_delayed_tick_model"},
               <<>>, <<"asserted">>)
VerifyMarketPriceDelta == Contrasted({"market_price_delta_model"}, <<>>, <<"asserted">>)
VerifyMarketSensitivityCurve ==
    Contrasted({"market_sensitivity_curve_model"},
               <<>>, <<"counted">>)
VerifyFactoryProduction == Contrasted({"factory_production_model"}, <<>>, <<"counted">>)
VerifyProvinceLifeRating ==
    Contrasted({"province_life_rating_model"},
               <<>>, <<"counted">>)
VerifyCountryTaxRevenue == Contrasted({"country_tax_revenue_model"}, <<>>, <<"counted">>)
VerifyCountryAdminModifier ==
    Contrasted({"country_admin_modifier_model"},
               <<>>, <<"counted">>)
VerifyCountryTariffClamp ==
    Contrasted({"country_tariff_clamp_model"},
               <<>>, <<"counted">>)
VerifyPromotionQuota == Contrasted({"promotion_quota_model"}, <<>>, <<"counted">>)
VerifyPopSetSize == Contrasted({"pop_set_size_model"}, <<>>, <<"asserted", "counted">>)
VerifyPopTransferThreshold ==
    Contrasted({"pop_set_size_model", "pop_transfer_threshold_model"},
               <<>>, <<"counted">>)
VerifyCountryCategorySpending ==
    Contrasted({"country_category_spending_model"},
               <<>>, <<"asserted", "counted">>)
VerifyCountryInfrastructure ==
    Contrasted({"country_infrastructure_model"},
               <<>>, <<"asserted", "counted">>)
VerifyProvinceModifierDispatch ==
    Contrasted({"province_modifier_dispatch_model"},
               <<>>, <<"counted">>)
VerifyCountrySpendingClamp ==
    Contrasted({"country_spending_clamp_model"},
               <<>>, <<"asserted", "counted">>)
VerifyCountryNavalBase == Contrasted({"country_naval_base_model"}, <<>>, <<"counted">>)
VerifyProvinceTargetQuota ==
    Contrasted({"province_target_quota_model"},
               <<>>, <<"asserted", "counted">>)
VerifyCountryMilitarySupply ==
    Contrasted({"country_military_supply_model"},
               <<>>, <<"asserted", "counted">>)
VerifyProjectBuffer == Contrasted({"project_buffer_model"}, <<>>, <<"counted">>)
VerifyStateFactoryBuild == Contrasted({"state_factory_build_model"}, <<>>, <<"counted">>)
VerifyRegimentMaxMorale == Contrasted({"regiment_max_morale_model"}, <<>>, <<"counted">>)
VerifyArmyAverageMorale == Unrecorded({"army_average_morale_model"}, <<>>, <<"counted">>)
VerifyArmySupplyLimit == Unrecorded({"army_supply_limit_model"}, <<>>, <<"counted">>)
VerifyCombatForceRatio == Contrasted({"combat_force_ratio_model"}, <<>>, <<"counted">>)
VerifyCombatFrontage == Contrasted({"combat_frontage_model"}, <<>>, <<"noted">>)
VerifyCombatReinforcement ==
    Contrasted({"combat_reinforcement_model"},
               <<>>, <<"asserted">>)
VerifyCombatDiceDamage == Contrasted({"combat_dice_damage_model"}, <<>>, <<"asserted">>)
VerifyCombatTargetAcquisition ==
    Contrasted({"combat_target_acquisition_model"},
               <<>>, <<"asserted">>)
VerifyCombatRegimentAttack ==
    Contrasted({"combat_regiment_attack_model"},
               <<>>, <<"asserted">>)
VerifyCombatLineConsolidation ==
    Contrasted({"combat_line_consolidation_model"},
               <<>>, <<"asserted">>)
VerifyCombatVictoryStackwipe ==
    Contrasted({"combat_victory_stackwipe_model"},
               <<"links">>, <<"asserted">>)
VerifyCombatReservePriority ==
    Contrasted({"combat_reserve_priority_model"},
               <<>>, <<"asserted">>)
VerifyCombatAttackerRatio ==
    Contrasted({"combat_attacker_ratio_model"},
               <<"links">>, <<"asserted">>)
VerifyArmySupplySufficiency ==
    Contrasted({"army_supply_sufficiency_model"},
               <<"links">>, <<"asserted">>)
VerifyNavalCombatRatio ==
    Contrasted({"naval_combat_ratio_model"},
               <<"links">>, <<"asserted">>)
VerifyRegimentReinforce ==
    Contrasted({"regiment_reinforce_model"},
               <<"links">>, <<"asserted">>)
VerifyFormationTotalStrength ==
    Contrasted({"formation_total_strength_model"},
               <<"links">>, <<"counted">>)
VerifyProvinceTroopStrength ==
    Contrasted({"province_troop_strength_model"},
               <<>>, <<"counted">>)
VerifyCombatCasualtyCommit ==
    Contrasted({"combat_casualty_commit_model"},
               <<>>, <<"counted">>)
VerifySubunitCensus == Contrasted({"subunit_census_model"}, <<>>, <<"counted">>)
VerifyCombatantStrength ==
    Contrasted({"combatant_strength_model"},
               <<"links">>, <<"noted">>)
VerifyCombatantMorale ==
    Contrasted({"combatant_morale_model"},
               <<"links">>, <<"counted">>)
VerifySubunitWeight == Contrasted({"subunit_weight_model"}, <<>>, <<"counted">>)
VerifyHostileTroop == Contrasted({"hostile_troop_model"}, <<>>, <<"counted">>)
VerifyHostileNavalDirect ==
    Contrasted({"hostile_naval_direct_model"},
               <<>>, <<"counted">>)
VerifyNavySupplyLimit ==
    Contrasted({"navy_supply_limit_model"},
               <<>>, <<"asserted", "counted">>)
VerifyNavyAttritionResupply ==
    Contrasted({"navy_attrition_resupply_model"},
               <<>>, <<"asserted", "counted">>)
VerifyFormationCohesion == Contrasted({"formation_cohesion_model"}, <<>>, <<"counted">>)
VerifyNavyDailyUpdate == Contrasted({"navy_daily_update_model"}, <<>>, <<"counted">>)
VerifyUnitCombatPower == Contrasted({"unit_combat_power_model"}, <<>>, <<"counted">>)
VerifyUnitFullCombatPower ==
    Contrasted({"unit_combat_power_model", "unit_full_combat_power_model"},
               <<>>, <<"counted">>)
VerifyFormationExperienceMaxStrength ==
    Contrasted({"formation_experience_max_strength_model"},
               <<>>, <<"counted">>)
VerifyFormationAverageStats ==
    Contrasted({"formation_average_stats_model"},
               <<>>, <<"counted">>)

\* Kept in the repository, but not among the scripts the gate runs.
VerifyFormationCombatPower ==
    Contrasted({"formation_combat_power_model"},
               <<>>, <<"counted">>)

-----------------------------------------------------------------------------
\* The scripts by the name of their file.
Verifier ==
    [ verify_claims |-> VerifyClaims,
      emulate_null_release |-> EmulateNullRelease,
      verify_calendar |-> VerifyCalendar,
      verify_tick_path |-> VerifyTickPath,
      verify_rng |-> VerifyRng,
      verify_daily_rng |-> VerifyDailyRng,
      verify_rng_restore |-> VerifyRngRestore,
      verify_pop_schedule |-> VerifyPopSchedule,
      verify_pop_unlink |-> VerifyPopUnlink,
      verify_pop_destructor |-> VerifyPopDestructor,
      verify_object_registry |-> VerifyObjectRegistry,
      verify_integer_helpers |-> VerifyIntegerHelpers,
      verify_distribution |-> VerifyDistribution,
      inventory_rtti |-> InventoryRtti,
      verify_pop_update |-> VerifyPopUpdate,
      verify_pop_size |-> VerifyPopSize,
      verify_float_conversion |-> VerifyFloatConversion,
      verify_pop_transfer |-> VerifyPopTransfer,
      verify_pop_reuse |-> VerifyPopReuse,
      verify_pop_append |-> VerifyPopAppend,
      verify_pop_growth |-> VerifyPopGrowth,
      verify_pop_optional |-> VerifyPopOptional,
      verify_goods_pool_copy |-> VerifyGoodsPoolCopy,
      verify_pop_vector_callers |-> VerifyPopVectorCallers,
      verify_pop_factory |-> VerifyPopFactory,
      verify_pop_consumer |-> VerifyPopConsumer,
      verify_pop_merge |-> VerifyPopMerge,
      verify_pop_selection |-> VerifyPopSelection,
      verify_pop_factory_selection |-> VerifyPopFactorySelection,
      verify_factory_internal_selector |-> VerifyFactoryInternalSelector,
      verify_price_clamp |-> VerifyPriceClamp,
      verify_mtth |-> VerifyMtth,
      verify_ai_chance |-> VerifyAiChance,
      verify_event_spawn |-> VerifyEventSpawn,
      verify_delayed_event_tick |-> VerifyDelayedEventTick,
      verify_province_event_spawn |-> VerifyProvinceEventSpawn,
      verify_province_event_delayed_tick |-> VerifyProvinceEventDelayedTick,
      verify_market_price_delta |-> VerifyMarketPriceDelta,
      verify_market_sensitivity_curve |-> VerifyMarketSensitivityCurve,
      verify_factory_production |-> VerifyFactoryProduction,
      verify_province_life_rating |-> VerifyProvinceLifeRating,
      verify_country_tax_revenue |-> VerifyCountryTaxRevenue,
      verify_country_admin_modifier |-> VerifyCountryAdminModifier,
      verify_country_tariff_clamp |-> VerifyCountryTariffClamp,
      verify_promotion_quota |-> VerifyPromotionQuota,
      verify_pop_set_size |-> VerifyPopSetSize,
      verify_pop_transfer_threshold |-> VerifyPopTransferThreshold,
      verify_country_category_spending |-> VerifyCountryCategorySpending,
      verify_country_infrastructure |-> VerifyCountryInfrastructure,
      verify_province_modifier_dispatch |-> VerifyProvinceModifierDispatch,
      verify_country_spending_clamp |-> VerifyCountrySpendingClamp,
      verify_country_naval_base |-> VerifyCountryNavalBase,
      verify_province_target_quota |-> VerifyProvinceTargetQuota,
      verify_country_military_supply |-> VerifyCountryMilitarySupply,
      verify_project_buffer |-> VerifyProjectBuffer,
      verify_state_factory_build |-> VerifyStateFactoryBuild,
      verify_regiment_max_morale |-> VerifyRegimentMaxMorale,
      verify_army_average_morale |-> VerifyArmyAverageMorale,
      verify_army_supply_limit |-> VerifyArmySupplyLimit,
      verify_combat_force_ratio |-> VerifyCombatForceRatio,
      verify_combat_frontage |-> VerifyCombatFrontage,
      verify_combat_reinforcement |-> VerifyCombatReinforcement,
      verify_combat_dice_damage |-> VerifyCombatDiceDamage,
      verify_combat_target_acquisition |-> VerifyCombatTargetAcquisition,
      verify_combat_regiment_attack |-> VerifyCombatRegimentAttack,
      verify_combat_line_consolidation |-> VerifyCombatLineConsolidation,
      verify_combat_victory_stackwipe |-> VerifyCombatVictoryStackwipe,
      verify_combat_reserve_priority |-> VerifyCombatReservePriority,
      verify_combat_attacker_ratio |-> VerifyCombatAttackerRatio,
      verify_army_supply_sufficiency |-> VerifyArmySupplySufficiency,
      verify_naval_combat_ratio |-> VerifyNavalCombatRatio,
      verify_regiment_reinforce |-> VerifyRegimentReinforce,
      verify_formation_total_strength |-> VerifyFormationTotalStrength,
      verify_province_troop_strength |-> VerifyProvinceTroopStrength,
      verify_combat_casualty_commit |-> VerifyCombatCasualtyCommit,
      verify_subunit_census |-> VerifySubunitCensus,
      verify_combatant_strength |-> VerifyCombatantStrength,
      verify_combatant_morale |-> VerifyCombatantMorale,
      verify_subunit_weight |-> VerifySubunitWeight,
      verify_hostile_troop |-> VerifyHostileTroop,
      verify_hostile_naval_direct |-> VerifyHostileNavalDirect,
      verify_navy_supply_limit |-> VerifyNavySupplyLimit,
      verify_navy_attrition_resupply |-> VerifyNavyAttritionResupply,
      verify_formation_cohesion |-> VerifyFormationCohesion,
      verify_navy_daily_update |-> VerifyNavyDailyUpdate,
      verify_unit_combat_power |-> VerifyUnitCombatPower,
      verify_unit_full_combat_power |-> VerifyUnitFullCombatPower,
      verify_formation_experience_max_strength |-> VerifyFormationExperienceMaxStrength,
      verify_formation_average_stats |-> VerifyFormationAverageStats,
      verify_formation_combat_power |-> VerifyFormationCombatPower ]

\* verify_grounding.py runs these, one after the other.
GateScripts ==
    << "verify_claims", "emulate_null_release", "verify_calendar", "verify_tick_path",
       "verify_rng", "verify_daily_rng", "verify_rng_restore", "verify_pop_schedule",
       "verify_pop_unlink", "verify_pop_destructor", "verify_object_registry",
       "verify_integer_helpers", "verify_distribution", "inventory_rtti",
       "verify_pop_update", "verify_pop_size", "verify_float_conversion",
       "verify_pop_transfer", "verify_pop_reuse", "verify_pop_append", "verify_pop_growth",
       "verify_pop_optional", "verify_goods_pool_copy", "verify_pop_vector_callers",
       "verify_pop_factory", "verify_pop_consumer", "verify_pop_merge",
       "verify_pop_selection", "verify_pop_factory_selection",
       "verify_factory_internal_selector", "verify_price_clamp", "verify_mtth",
       "verify_ai_chance", "verify_event_spawn", "verify_delayed_event_tick",
       "verify_province_event_spawn", "verify_province_event_delayed_tick",
       "verify_market_price_delta", "verify_market_sensitivity_curve",
       "verify_factory_production", "verify_province_life_rating",
       "verify_country_tax_revenue", "verify_country_admin_modifier",
       "verify_country_tariff_clamp", "verify_promotion_quota", "verify_pop_set_size",
       "verify_pop_transfer_threshold", "verify_country_category_spending",
       "verify_country_infrastructure", "verify_province_modifier_dispatch",
       "verify_country_spending_clamp", "verify_country_naval_base",
       "verify_province_target_quota", "verify_country_military_supply",
       "verify_project_buffer", "verify_state_factory_build", "verify_regiment_max_morale",
       "verify_army_average_morale", "verify_army_supply_limit",
       "verify_combat_force_ratio", "verify_combat_frontage",
       "verify_combat_reinforcement", "verify_combat_dice_damage",
       "verify_combat_target_acquisition", "verify_combat_regiment_attack",
       "verify_combat_line_consolidation", "verify_combat_victory_stackwipe",
       "verify_combat_reserve_priority", "verify_combat_attacker_ratio",
       "verify_army_supply_sufficiency", "verify_naval_combat_ratio",
       "verify_regiment_reinforce", "verify_formation_total_strength",
       "verify_province_troop_strength", "verify_combat_casualty_commit",
       "verify_subunit_census", "verify_combatant_strength", "verify_combatant_morale",
       "verify_subunit_weight", "verify_hostile_troop", "verify_hostile_naval_direct",
       "verify_navy_supply_limit", "verify_navy_attrition_resupply",
       "verify_formation_cohesion", "verify_navy_daily_update", "verify_unit_combat_power",
       "verify_unit_full_combat_power", "verify_formation_experience_max_strength",
       "verify_formation_average_stats" >>
==============================================================================
