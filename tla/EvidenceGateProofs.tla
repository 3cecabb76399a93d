-------------------------- MODULE EvidenceGateProofs --------------------------
(***************************************************************************)
(* What a report of the gate stands for, for any laboratory: any of the    *)
(* scripts in any order, any number of gates and of scripts run by hand at *)
(* once, any bench, and any number of edits, crashes and timeouts.         *)
(*                                                                         *)
(* First what the tables of the scripts have in common: the executable is  *)
(* checked first, the ledger is saved last, and the gate hashes the models *)
(* of every script that it runs.  Then the bench: what the probe, its      *)
(* build record and its receipt were made from.  Then the gate: what the   *)
(* script that runs has passed and written, what all the scripts before it *)
(* have, and how much of that another process can undo: a step of another  *)
(* leaves each receipt as it was, or takes it from the gate, which by then *)
(* knows the script that does it (Aside).                                  *)
(***************************************************************************)
EXTENDS EvidenceGate, CollectionLemmas

-------------------------------------------------------------------------------
(* The scripts: what their tables have in common. *)

\* The steps of a script, but for the ledger.
Step == Checks \cup
    {"noted", "call-reference-snapshot.json", "capacity.json", "cfg.json", "claims.json",
     "crt-null-release.json", "emulation.json", "inventory.json", "model-proof.smt2",
     "negative-controls.json", "reverify.json", "selected.json", "semantic-limit.json",
     "verified.json"}

\* A script checks the executable first and saves the ledger, if it does, last.
InOrder(v) == \E s \in Seq(Step) : \/ v.steps = <<"profile">> \o s
                                   \/ v.steps = <<"profile">> \o (s \o <<"ledger">>)

LEMMA CheckedInOrder ==
    ASSUME NEW models, NEW steps \in Seq(Step)
    PROVE  /\ InOrder(Checked(models, steps)) /\ Checked(models, steps).models = models
           /\ InOrder(Unlogged(models, steps)) /\ Unlogged(models, steps).models = models
  BY Zenon DEF InOrder, Checked, Unlogged

LEMMA EmulatedInOrder ==
    \A models : InOrder(Emulated(models)) /\ Emulated(models).models = models
  <1>1. <<"verify", "asserted", "claims.json", "reverify.json", "emulation.json">> \in Seq(Step)
    BY DEF Step, Checks
  <1> QED
    BY <1>1, CheckedInOrder DEF Emulated

\* How the later scripts compare a model with the original code.
Compared == {<<"counted">>, <<"asserted">>, <<"noted">>, <<"asserted", "counted">>}

LEMMA ContrastedInOrder ==
    ASSUME NEW models, NEW links \in {<<>>, <<"links">>}, NEW c \in Compared
    PROVE  /\ InOrder(Contrasted(models, links, c)) /\ Contrasted(models, links, c).models = models
           /\ InOrder(Unrecorded(models, links, c)) /\ Unrecorded(models, links, c).models = models
  <1>1. links \in Seq(Step)
    <2>1. <<>> \in Seq(Step) /\ <<"links">> \in Seq(Step)
      BY DEF Step, Checks
    <2> QED
      BY <2>1
  <1>2. c \in Seq(Step)
    <2>1. /\ <<"counted">> \in Seq(Step) /\ <<"asserted">> \in Seq(Step)
          /\ <<"noted">> \in Seq(Step) /\ <<"asserted", "counted">> \in Seq(Step)
      BY DEF Step, Checks
    <2> QED
      BY <2>1 DEF Compared
  <1>3. <<"verify", "controls">> \in Seq(Step)
    BY DEF Step, Checks
  <1>4. <<"claims.json", "reverify.json", "negative-controls.json", "emulation.json">> \in Seq(Step)
    BY DEF Step
  <1> HIDE DEF Step
  <1>5. Protocol(links, c) \in Seq(Step)
    BY <1>1, <1>2, <1>3, <1>4 DEF Protocol
  <1> QED
    BY <1>5, CheckedInOrder DEF Contrasted, Unrecorded

\* The gate hashes all the models of the script.
Orderly(v) == InOrder(v) /\ v.models \subseteq HashedModels

\* The scripts of the later protocol, a few at a time.
LEMMA Contrasted1 ==
    /\ Orderly(VerifyPriceClamp)
    /\ Orderly(VerifyMtth)
    /\ Orderly(VerifyAiChance)
    /\ Orderly(VerifyEventSpawn)
    /\ Orderly(VerifyDelayedEventTick)
    /\ Orderly(VerifyProvinceEventSpawn)
    /\ Orderly(VerifyProvinceEventDelayedTick)
    /\ Orderly(VerifyMarketPriceDelta)
  BY ContrastedInOrder DEF Orderly, HashedModels, Compared, VerifyPriceClamp, VerifyMtth,
     VerifyAiChance, VerifyEventSpawn, VerifyDelayedEventTick, VerifyProvinceEventSpawn,
     VerifyProvinceEventDelayedTick, VerifyMarketPriceDelta

LEMMA Contrasted2 ==
    /\ Orderly(VerifyMarketSensitivityCurve)
    /\ Orderly(VerifyFactoryProduction)
    /\ Orderly(VerifyProvinceLifeRating)
    /\ Orderly(VerifyCountryTaxRevenue)
    /\ Orderly(VerifyCountryAdminModifier)
    /\ Orderly(VerifyCountryTariffClamp)
    /\ Orderly(VerifyPromotionQuota)
    /\ Orderly(VerifyPopSetSize)
  BY ContrastedInOrder DEF Orderly, HashedModels, Compared, VerifyMarketSensitivityCurve,
     VerifyFactoryProduction, VerifyProvinceLifeRating, VerifyCountryTaxRevenue,
     VerifyCountryAdminModifier, VerifyCountryTariffClamp, VerifyPromotionQuota,
     VerifyPopSetSize

LEMMA Contrasted3 ==
    /\ Orderly(VerifyPopTransferThreshold)
    /\ Orderly(VerifyCountryCategorySpending)
    /\ Orderly(VerifyCountryInfrastructure)
    /\ Orderly(VerifyProvinceModifierDispatch)
    /\ Orderly(VerifyCountrySpendingClamp)
    /\ Orderly(VerifyCountryNavalBase)
    /\ Orderly(VerifyProvinceTargetQuota)
    /\ Orderly(VerifyCountryMilitarySupply)
  BY ContrastedInOrder DEF Orderly, HashedModels, Compared, VerifyPopTransferThreshold,
     VerifyCountryCategorySpending, VerifyCountryInfrastructure,
     VerifyProvinceModifierDispatch, VerifyCountrySpendingClamp, VerifyCountryNavalBase,
     VerifyProvinceTargetQuota, VerifyCountryMilitarySupply

LEMMA Contrasted4 ==
    /\ Orderly(VerifyProjectBuffer)
    /\ Orderly(VerifyStateFactoryBuild)
    /\ Orderly(VerifyRegimentMaxMorale)
    /\ Orderly(VerifyCombatForceRatio)
    /\ Orderly(VerifyCombatFrontage)
    /\ Orderly(VerifyCombatReinforcement)
    /\ Orderly(VerifyCombatDiceDamage)
    /\ Orderly(VerifyCombatTargetAcquisition)
  BY ContrastedInOrder DEF Orderly, HashedModels, Compared, VerifyProjectBuffer,
     VerifyStateFactoryBuild, VerifyRegimentMaxMorale, VerifyCombatForceRatio,
     VerifyCombatFrontage, VerifyCombatReinforcement, VerifyCombatDiceDamage,
     VerifyCombatTargetAcquisition

LEMMA Contrasted5 ==
    /\ Orderly(VerifyCombatRegimentAttack)
    /\ Orderly(VerifyCombatLineConsolidation)
    /\ Orderly(VerifyCombatVictoryStackwipe)
    /\ Orderly(VerifyCombatReservePriority)
    /\ Orderly(VerifyCombatAttackerRatio)
    /\ Orderly(VerifyArmySupplySufficiency)
    /\ Orderly(VerifyNavalCombatRatio)
    /\ Orderly(VerifyRegimentReinforce)
  BY ContrastedInOrder DEF Orderly, HashedModels, Compared, VerifyCombatRegimentAttack,
     VerifyCombatLineConsolidation, VerifyCombatVictoryStackwipe,
     VerifyCombatReservePriority, VerifyCombatAttackerRatio, VerifyArmySupplySufficiency,
     VerifyNavalCombatRatio, VerifyRegimentReinforce

LEMMA Contrasted6 ==
    /\ Orderly(VerifyFormationTotalStrength)
    /\ Orderly(VerifyProvinceTroopStrength)
    /\ Orderly(VerifyCombatCasualtyCommit)
    /\ Orderly(VerifySubunitCensus)
    /\ Orderly(VerifyCombatantStrength)
    /\ Orderly(VerifyCombatantMorale)
    /\ Orderly(VerifySubunitWeight)
    /\ Orderly(VerifyHostileTroop)
  BY ContrastedInOrder DEF Orderly, HashedModels, Compared, VerifyFormationTotalStrength,
     VerifyProvinceTroopStrength, VerifyCombatCasualtyCommit, VerifySubunitCensus,
     VerifyCombatantStrength, VerifyCombatantMorale, VerifySubunitWeight, VerifyHostileTroop

LEMMA Contrasted7 ==
    /\ Orderly(VerifyHostileNavalDirect)
    /\ Orderly(VerifyNavySupplyLimit)
    /\ Orderly(VerifyNavyAttritionResupply)
    /\ Orderly(VerifyFormationCohesion)
    /\ Orderly(VerifyNavyDailyUpdate)
    /\ Orderly(VerifyUnitCombatPower)
    /\ Orderly(VerifyUnitFullCombatPower)
    /\ Orderly(VerifyFormationExperienceMaxStrength)
  BY ContrastedInOrder DEF Orderly, HashedModels, Compared, VerifyHostileNavalDirect,
     VerifyNavySupplyLimit, VerifyNavyAttritionResupply, VerifyFormationCohesion,
     VerifyNavyDailyUpdate, VerifyUnitCombatPower, VerifyUnitFullCombatPower,
     VerifyFormationExperienceMaxStrength

LEMMA Contrasted8 ==
    /\ Orderly(VerifyFormationAverageStats)
    /\ Orderly(VerifyArmyAverageMorale)
    /\ Orderly(VerifyArmySupplyLimit)
  BY ContrastedInOrder DEF Orderly, HashedModels, Compared, VerifyFormationAverageStats,
     VerifyArmyAverageMorale, VerifyArmySupplyLimit

LEMMA EmulatedOnes ==
    /\ Orderly(VerifyRng)
    /\ Orderly(VerifyDailyRng)
    /\ Orderly(VerifyRngRestore)
    /\ Orderly(VerifyPopSchedule)
    /\ Orderly(VerifyPopUnlink)
    /\ Orderly(VerifyPopDestructor)
    /\ Orderly(VerifyObjectRegistry)
    /\ Orderly(VerifyIntegerHelpers)
    /\ Orderly(VerifyDistribution)
    /\ Orderly(VerifyPopSize)
    /\ Orderly(VerifyPopTransfer)
    /\ Orderly(VerifyPopReuse)
    /\ Orderly(VerifyPopAppend)
    /\ Orderly(VerifyGoodsPoolCopy)
    /\ Orderly(VerifyPopMerge)
    /\ Orderly(VerifyPopSelection)
    /\ Orderly(VerifyPopFactorySelection)
  BY EmulatedInOrder DEF Orderly, HashedModels,  VerifyRng, VerifyDailyRng,
     VerifyRngRestore, VerifyPopSchedule, VerifyPopUnlink, VerifyPopDestructor,
     VerifyObjectRegistry, VerifyIntegerHelpers, VerifyDistribution, VerifyPopSize,
     VerifyPopTransfer, VerifyPopReuse, VerifyPopAppend, VerifyGoodsPoolCopy,
     VerifyPopMerge, VerifyPopSelection, VerifyPopFactorySelection

LEMMA OthersInOrder ==
    /\ Orderly(VerifyClaims)
    /\ Orderly(VerifyCalendar)
    /\ Orderly(VerifyTickPath)
    /\ Orderly(InventoryRtti)
    /\ Orderly(VerifyPopUpdate)
    /\ Orderly(VerifyFloatConversion)
    /\ Orderly(VerifyPopGrowth)
    /\ Orderly(VerifyPopOptional)
    /\ Orderly(VerifyPopVectorCallers)
    /\ Orderly(VerifyPopFactory)
    /\ Orderly(VerifyPopConsumer)
    /\ Orderly(VerifyFactoryInternalSelector)
    /\ Orderly(EmulateNullRelease)
  <1>1. Orderly(VerifyClaims)
    <2>1. <<"claims.json", "verified.json", "verify", "negative-controls.json",
            "controls", "semantic-limit.json">> \in Seq(Step)
      BY DEF Step, Checks
    <2>2. InOrder(VerifyClaims) /\ VerifyClaims.models = {}
      BY <2>1, CheckedInOrder, Zenon DEF VerifyClaims
    <2> QED
      BY <2>2 DEF Orderly, HashedModels
  <1>2. Orderly(VerifyCalendar)
    <2>1. <<"links", "verify", "asserted", "claims.json", "reverify.json",
            "model-proof.smt2", "emulation.json">> \in Seq(Step)
      BY DEF Step, Checks
    <2>2. InOrder(VerifyCalendar) /\ VerifyCalendar.models = {}
      BY <2>1, CheckedInOrder, Zenon DEF VerifyCalendar
    <2> QED
      BY <2>2 DEF Orderly, HashedModels
  <1>3. Orderly(VerifyTickPath)
    <2>1. <<"verify", "asserted", "claims.json", "reverify.json", "cfg.json">> \in
            Seq(Step)
      BY DEF Step, Checks
    <2>2. InOrder(VerifyTickPath) /\ VerifyTickPath.models = {}
      BY <2>1, CheckedInOrder, Zenon DEF VerifyTickPath
    <2> QED
      BY <2>2 DEF Orderly, HashedModels
  <1>4. Orderly(InventoryRtti)
    <2>1. <<"links", "verify", "claims.json", "reverify.json", "selected.json",
            "inventory.json">> \in Seq(Step)
      BY DEF Step, Checks
    <2>2. InOrder(InventoryRtti) /\ InventoryRtti.models = {}
      BY <2>1, CheckedInOrder, Zenon DEF InventoryRtti
    <2> QED
      BY <2>2 DEF Orderly, HashedModels
  <1>5. Orderly(VerifyPopUpdate)
    <2>1. <<"verify", "asserted", "claims.json", "reverify.json", "cfg.json">> \in
            Seq(Step)
      BY DEF Step, Checks
    <2>2. InOrder(VerifyPopUpdate) /\ VerifyPopUpdate.models = {}
      BY <2>1, CheckedInOrder, Zenon DEF VerifyPopUpdate
    <2> QED
      BY <2>2 DEF Orderly, HashedModels
  <1>6. Orderly(VerifyFloatConversion)
    <2>1. <<"verify", "claims.json", "reverify.json">> \in Seq(Step)
      BY DEF Step, Checks
    <2>2. InOrder(VerifyFloatConversion) /\ VerifyFloatConversion.models = {}
      BY <2>1, CheckedInOrder, Zenon DEF VerifyFloatConversion
    <2> QED
      BY <2>2 DEF Orderly, HashedModels
  <1>7. Orderly(VerifyPopGrowth)
    <2>1. <<"verify", "asserted", "claims.json", "reverify.json", "capacity.json">>
            \in Seq(Step)
      BY DEF Step, Checks
    <2>2. InOrder(VerifyPopGrowth) /\ VerifyPopGrowth.models = {}
      BY <2>1, CheckedInOrder, Zenon DEF VerifyPopGrowth
    <2> QED
      BY <2>2 DEF Orderly, HashedModels
  <1>8. Orderly(VerifyPopOptional)
    <2>1. <<"verify", "claims.json", "reverify.json">> \in Seq(Step)
      BY DEF Step, Checks
    <2>2. InOrder(VerifyPopOptional) /\ VerifyPopOptional.models = {}
      BY <2>1, CheckedInOrder, Zenon DEF VerifyPopOptional
    <2> QED
      BY <2>2 DEF Orderly, HashedModels
  <1>9. Orderly(VerifyPopVectorCallers)
    <2>1. <<"links", "verify", "asserted", "claims.json", "reverify.json",
            "emulation.json", "call-reference-snapshot.json">> \in Seq(Step)
      BY DEF Step, Checks
    <2>2. InOrder(VerifyPopVectorCallers) /\ VerifyPopVectorCallers.models = {"pop_transfer_model"}
      BY <2>1, CheckedInOrder, Zenon DEF VerifyPopVectorCallers
    <2> QED
      BY <2>2 DEF Orderly, HashedModels
  <1>10. Orderly(VerifyPopFactory)
    <2>1. <<"verify", "claims.json", "reverify.json">> \in Seq(Step)
      BY DEF Step, Checks
    <2>2. InOrder(VerifyPopFactory) /\ VerifyPopFactory.models = {}
      BY <2>1, CheckedInOrder, Zenon DEF VerifyPopFactory
    <2> QED
      BY <2>2 DEF Orderly, HashedModels
  <1>11. Orderly(VerifyPopConsumer)
    <2>1. <<"verify", "claims.json", "reverify.json">> \in Seq(Step)
      BY DEF Step, Checks
    <2>2. InOrder(VerifyPopConsumer) /\ VerifyPopConsumer.models = {}
      BY <2>1, CheckedInOrder, Zenon DEF VerifyPopConsumer
    <2> QED
      BY <2>2 DEF Orderly, HashedModels
  <1>12. Orderly(VerifyFactoryInternalSelector)
    <2>1. <<"links", "verify", "claims.json", "reverify.json",
            "call-reference-snapshot.json">> \in Seq(Step)
      BY DEF Step, Checks
    <2>2. InOrder(VerifyFactoryInternalSelector) /\ VerifyFactoryInternalSelector.models = {}
      BY <2>1, CheckedInOrder, Zenon DEF VerifyFactoryInternalSelector
    <2> QED
      BY <2>2 DEF Orderly, HashedModels
  <1>13. Orderly(EmulateNullRelease)
    <2>1. <<"asserted", "crt-null-release.json">> \in Seq(Step)
      BY DEF Step, Checks
    <2>2. InOrder(EmulateNullRelease) /\ EmulateNullRelease.models = {}
      BY <2>1, CheckedInOrder, Zenon DEF EmulateNullRelease
    <2> QED
      BY <2>2 DEF Orderly, HashedModels
  <1> QED
    BY <1>1, <1>2, <1>3, <1>4, <1>5, <1>6, <1>7, <1>8, <1>9, <1>10, <1>11, <1>12, <1>13

LEMMA UngatedInOrder == InOrder(VerifyFormationCombatPower)
                       /\ VerifyFormationCombatPower.models = {"formation_combat_power_model"}
  BY ContrastedInOrder DEF VerifyFormationCombatPower, Compared

\* Which script has which name.
LEMMA Fields1 ==
    /\ Verifier.verify_claims = VerifyClaims
    /\ Verifier.emulate_null_release = EmulateNullRelease
    /\ Verifier.verify_calendar = VerifyCalendar
    /\ Verifier.verify_tick_path = VerifyTickPath
    /\ Verifier.verify_rng = VerifyRng
    /\ Verifier.verify_daily_rng = VerifyDailyRng
    /\ Verifier.verify_rng_restore = VerifyRngRestore
    /\ Verifier.verify_pop_schedule = VerifyPopSchedule
    /\ Verifier.verify_pop_unlink = VerifyPopUnlink
    /\ Verifier.verify_pop_destructor = VerifyPopDestructor
    /\ Verifier.verify_object_registry = VerifyObjectRegistry
    /\ Verifier.verify_integer_helpers = VerifyIntegerHelpers
    /\ Verifier.verify_distribution = VerifyDistribution
    /\ Verifier.inventory_rtti = InventoryRtti
    /\ Verifier.verify_pop_update = VerifyPopUpdate
  BY Zenon DEF Verifier

LEMMA Fields2 ==
    /\ Verifier.verify_pop_size = VerifyPopSize
    /\ Verifier.verify_float_conversion = VerifyFloatConversion
    /\ Verifier.verify_pop_transfer = VerifyPopTransfer
    /\ Verifier.verify_pop_reuse = VerifyPopReuse
    /\ Verifier.verify_pop_append = VerifyPopAppend
    /\ Verifier.verify_pop_growth = VerifyPopGrowth
    /\ Verifier.verify_pop_optional = VerifyPopOptional
    /\ Verifier.verify_goods_pool_copy = VerifyGoodsPoolCopy
    /\ Verifier.verify_pop_vector_callers = VerifyPopVectorCallers
    /\ Verifier.verify_pop_factory = VerifyPopFactory
    /\ Verifier.verify_pop_consumer = VerifyPopConsumer
    /\ Verifier.verify_pop_merge = VerifyPopMerge
    /\ Verifier.verify_pop_selection = VerifyPopSelection
    /\ Verifier.verify_pop_factory_selection = VerifyPopFactorySelection
    /\ Verifier.verify_factory_internal_selector = VerifyFactoryInternalSelector
  BY Zenon DEF Verifier

LEMMA Fields3 ==
    /\ Verifier.verify_price_clamp = VerifyPriceClamp
    /\ Verifier.verify_mtth = VerifyMtth
    /\ Verifier.verify_ai_chance = VerifyAiChance
    /\ Verifier.verify_event_spawn = VerifyEventSpawn
    /\ Verifier.verify_delayed_event_tick = VerifyDelayedEventTick
    /\ Verifier.verify_province_event_spawn = VerifyProvinceEventSpawn
    /\ Verifier.verify_province_event_delayed_tick = VerifyProvinceEventDelayedTick
    /\ Verifier.verify_market_price_delta = VerifyMarketPriceDelta
    /\ Verifier.verify_market_sensitivity_curve = VerifyMarketSensitivityCurve
    /\ Verifier.verify_factory_production = VerifyFactoryProduction
    /\ Verifier.verify_province_life_rating = VerifyProvinceLifeRating
    /\ Verifier.verify_country_tax_revenue = VerifyCountryTaxRevenue
    /\ Verifier.verify_country_admin_modifier = VerifyCountryAdminModifier
    /\ Verifier.verify_country_tariff_clamp = VerifyCountryTariffClamp
    /\ Verifier.verify_promotion_quota = VerifyPromotionQuota
  BY Zenon DEF Verifier

LEMMA Fields4 ==
    /\ Verifier.verify_pop_set_size = VerifyPopSetSize
    /\ Verifier.verify_pop_transfer_threshold = VerifyPopTransferThreshold
    /\ Verifier.verify_country_category_spending = VerifyCountryCategorySpending
    /\ Verifier.verify_country_infrastructure = VerifyCountryInfrastructure
    /\ Verifier.verify_province_modifier_dispatch = VerifyProvinceModifierDispatch
    /\ Verifier.verify_country_spending_clamp = VerifyCountrySpendingClamp
    /\ Verifier.verify_country_naval_base = VerifyCountryNavalBase
    /\ Verifier.verify_province_target_quota = VerifyProvinceTargetQuota
    /\ Verifier.verify_country_military_supply = VerifyCountryMilitarySupply
    /\ Verifier.verify_project_buffer = VerifyProjectBuffer
    /\ Verifier.verify_state_factory_build = VerifyStateFactoryBuild
    /\ Verifier.verify_regiment_max_morale = VerifyRegimentMaxMorale
    /\ Verifier.verify_army_average_morale = VerifyArmyAverageMorale
    /\ Verifier.verify_army_supply_limit = VerifyArmySupplyLimit
    /\ Verifier.verify_combat_force_ratio = VerifyCombatForceRatio
  BY Zenon DEF Verifier

LEMMA Fields5 ==
    /\ Verifier.verify_combat_frontage = VerifyCombatFrontage
    /\ Verifier.verify_combat_reinforcement = VerifyCombatReinforcement
    /\ Verifier.verify_combat_dice_damage = VerifyCombatDiceDamage
    /\ Verifier.verify_combat_target_acquisition = VerifyCombatTargetAcquisition
    /\ Verifier.verify_combat_regiment_attack = VerifyCombatRegimentAttack
    /\ Verifier.verify_combat_line_consolidation = VerifyCombatLineConsolidation
    /\ Verifier.verify_combat_victory_stackwipe = VerifyCombatVictoryStackwipe
    /\ Verifier.verify_combat_reserve_priority = VerifyCombatReservePriority
    /\ Verifier.verify_combat_attacker_ratio = VerifyCombatAttackerRatio
    /\ Verifier.verify_army_supply_sufficiency = VerifyArmySupplySufficiency
    /\ Verifier.verify_naval_combat_ratio = VerifyNavalCombatRatio
    /\ Verifier.verify_regiment_reinforce = VerifyRegimentReinforce
    /\ Verifier.verify_formation_total_strength = VerifyFormationTotalStrength
    /\ Verifier.verify_province_troop_strength = VerifyProvinceTroopStrength
    /\ Verifier.verify_combat_casualty_commit = VerifyCombatCasualtyCommit
  BY Zenon DEF Verifier

LEMMA Fields6 ==
    /\ Verifier.verify_subunit_census = VerifySubunitCensus
    /\ Verifier.verify_combatant_strength = VerifyCombatantStrength
    /\ Verifier.verify_combatant_morale = VerifyCombatantMorale
    /\ Verifier.verify_subunit_weight = VerifySubunitWeight
    /\ Verifier.verify_hostile_troop = VerifyHostileTroop
    /\ Verifier.verify_hostile_naval_direct = VerifyHostileNavalDirect
    /\ Verifier.verify_navy_supply_limit = VerifyNavySupplyLimit
    /\ Verifier.verify_navy_attrition_resupply = VerifyNavyAttritionResupply
    /\ Verifier.verify_formation_cohesion = VerifyFormationCohesion
    /\ Verifier.verify_navy_daily_update = VerifyNavyDailyUpdate
    /\ Verifier.verify_unit_combat_power = VerifyUnitCombatPower
    /\ Verifier.verify_unit_full_combat_power = VerifyUnitFullCombatPower
    /\ Verifier.verify_formation_experience_max_strength = VerifyFormationExperienceMaxStrength
    /\ Verifier.verify_formation_average_stats = VerifyFormationAverageStats
    /\ Verifier.verify_formation_combat_power = VerifyFormationCombatPower
  BY Zenon DEF Verifier

\* All but one are scripts of the gate.
LEMMA VerifierNames ==
    DOMAIN Verifier = Range(GateScripts) \cup {"verify_formation_combat_power"}
  BY DEF Verifier, GateScripts, Range

\* Every script is in order, and the gate hashes the models of every script that it runs.
LEMMA AllOrderly ==
    /\ \A s \in Range(GateScripts) : Orderly(Verifier[s])
    /\ InOrder(Verifier.verify_formation_combat_power)
  <1>1. \A s \in Range(GateScripts) : Orderly(Verifier[s])
    BY Fields1, Fields2, Fields3, Fields4, Fields5, Fields6, Contrasted1, Contrasted2,
       Contrasted3, Contrasted4, Contrasted5, Contrasted6, Contrasted7, Contrasted8,
       EmulatedOnes, OthersInOrder DEF GateScripts, Range
  <1> QED
    BY <1>1, UngatedInOrder, Fields6

-------------------------------------------------------------------------------
(* What follows for any script. *)

StepsOK(v) == /\ v.steps \in Seq(Step \cup {"ledger"}) /\ Len(v.steps) # 0
              /\ v.steps[1] = "profile"
              /\ \A i \in 1 .. Len(v.steps) : v.steps[i] = "ledger" => i = Len(v.steps)

LEMMA Joined ==
    ASSUME NEW S, NEW s \in Seq(S), NEW t \in Seq(S)
    PROVE  /\ s \o t \in Seq(S) /\ Len(s \o t) = Len(s) + Len(t)
           /\ \A i \in 1 .. Len(s) : (s \o t)[i] = s[i]
           /\ \A i \in 1 .. Len(t) : (s \o t)[Len(s) + i] = t[i]
  <1>1. s \o t \in Seq(S)
    OBVIOUS
  <1>2. Len(s \o t) = Len(s) + Len(t) /\ Len(s) \in Nat /\ Len(t) \in Nat
    OBVIOUS
  <1>3. \A i \in 1 .. Len(s) + Len(t) :
           (s \o t)[i] = IF i <= Len(s) THEN s[i] ELSE t[i - Len(s)]
    OBVIOUS
  <1>4. ASSUME NEW i \in 1 .. Len(s) PROVE (s \o t)[i] = s[i]
    BY <1>2, <1>3
  <1>5. ASSUME NEW i \in 1 .. Len(t) PROVE (s \o t)[Len(s) + i] = t[i]
    BY <1>2, <1>3
  <1> QED
    BY <1>1, <1>2, <1>4, <1>5

LEMMA InOrderSteps == ASSUME NEW v, InOrder(v) PROVE StepsOK(v)
  <1> DEFINE T == Step \cup {"ledger"}
             p == <<"profile">>
             e == <<"ledger">>
  <1>1. PICK s \in Seq(Step) : v.steps = p \o s \/ v.steps = p \o (s \o e)
    BY DEF InOrder
  <1>2. /\ "ledger" \notin Step /\ "profile" \in T /\ "ledger" \in T
        /\ "profile" # "ledger"
    BY DEF Step, Checks
  <1>3. /\ p \in Seq(T) /\ Len(p) = 1 /\ p[1] = "profile"
        /\ e \in Seq(T) /\ Len(e) = 1
        /\ s \in Seq(T) /\ Len(s) \in Nat
        /\ \A i \in 1 .. Len(s) : s[i] # "ledger"
    BY <1>2
  <1> HIDE DEF T, p, e
  <1>4. ASSUME NEW n \in Seq(T)
        PROVE  /\ p \o n \in Seq(T) /\ Len(p \o n) = Len(n) + 1 /\ Len(n) \in Nat
               /\ (p \o n)[1] = "profile"
               /\ \A i \in 2 .. Len(n) + 1 : (p \o n)[i] = n[i - 1]
    <2>1. /\ p \o n \in Seq(T) /\ Len(p \o n) = Len(p) + Len(n)
          /\ \A i \in 1 .. Len(p) : (p \o n)[i] = p[i]
          /\ \A i \in 1 .. Len(n) : (p \o n)[Len(p) + i] = n[i]
      <3>1. p \in Seq(T) /\ n \in Seq(T)
        BY <1>3
      <3> QED
        BY <3>1, Joined
    <2>2. Len(n) \in Nat
      OBVIOUS
    <2> QED
      BY <1>3, <2>1, <2>2
  <1>5. CASE v.steps = p \o s
    BY <1>2, <1>3, <1>4, <1>5 DEF StepsOK, T
  <1>6. CASE v.steps = p \o (s \o e)
    <2> DEFINE n == s \o e
    <2>1. /\ n \in Seq(T) /\ Len(n) = Len(s) + Len(e)
          /\ \A i \in 1 .. Len(s) : n[i] = s[i]
      BY <1>3, Joined, Zenon
    <2> HIDE DEF n
    <2>2. /\ p \o n \in Seq(T) /\ Len(p \o n) = Len(n) + 1 /\ (p \o n)[1] = "profile"
          /\ \A i \in 2 .. Len(n) + 1 : (p \o n)[i] = n[i - 1]
      BY <1>4, <2>1, Zenon
    <2>3. \A i \in 1 .. Len(s) + 2 : (p \o n)[i] = "ledger" => i = Len(s) + 2
      BY <1>2, <1>3, <2>1, <2>2
    <2>4. v.steps = p \o n
      BY <1>6 DEF n
    <2> QED
      BY <1>3, <2>1, <2>2, <2>3, <2>4 DEF StepsOK, T
  <1> QED
    BY <1>1, <1>5, <1>6

LEMMA ScriptSteps == \A s \in DOMAIN Verifier : StepsOK(Verifier[s])
  BY VerifierNames, AllOrderly, InOrderSteps DEF Orderly

\* The gate hashes the models of every script it runs, and runs every script but one, which
\* shares nothing but the executable with the others.
LEMMA GateKnowsItsModels ==
    ASSUME NEW s \in Range(GateScripts)
    PROVE  /\ Verifier[s].models \subseteq HashedModels
           /\ \A t \in DOMAIN Verifier, f \in Inputs(s) \ {Executable} :
                 f \in Inputs(t) => t \in Range(GateScripts)
  <1> DEFINE alone == "verify_formation_combat_power"
             model == "formation_combat_power_model"
  <1>1. Verifier[s].models \subseteq HashedModels
    BY AllOrderly DEF Orderly
  <1>2. Inputs(alone) = {alone, Executable, model}
    BY UngatedInOrder, Fields6 DEF Inputs
  <1>3. alone \notin HashedModels /\ model \notin HashedModels
    BY DEF HashedModels
  <1>4. alone \notin Range(GateScripts) /\ model \notin Range(GateScripts)
    BY DEF GateScripts, Range
  <1> HIDE DEF alone, model
  <1>5. ASSUME NEW f \in Inputs(s) \ {Executable} PROVE f \notin Inputs(alone)
    BY <1>1, <1>2, <1>3, <1>4, <1>5 DEF Inputs
  <1> QED
    BY <1>1, <1>5, VerifierNames DEF alone

LEMMA GatedScripts ==
    ASSUME lab.scripts \in Seq(DOMAIN Verifier)
    PROVE  /\ Gated \in Seq(DOMAIN Verifier)
           /\ Range(Gated) = Range(lab.scripts) \cap Range(GateScripts)
  <1> DEFINE D == Range(GateScripts)
             S == DOMAIN Verifier
             all == lab.scripts
  <1> HIDE DEF D, S, all
  <1>1. Range(Gated) = ToSet(Gated) /\ Range(all) = ToSet(all)
    BY DEF Range, ToSet
  <1>2. all \in Seq(S)
    BY DEF S, all
  <1>3. ToSet(Keep(all, D)) = ToSet(all) \cap D
    BY <1>2, KeepMembers
  <1>4. Keep(all, D) \in Seq(S)
    BY <1>2, KeepType
  <1>5. Gated = Keep(all, D)
    BY DEF Gated, all, D
  <1> QED
    BY <1>1, <1>3, <1>4, <1>5 DEF S, D, all

\* Every mistake that a check can find in an input of a script of the gate is found by a
\* check of some script of the gate that reads it.
LEMMA MistakesAreFound ==
    ASSUME lab.scripts \in Seq(DOMAIN Verifier), NEW s \in Range(Gated), NEW f \in Inputs(s),
           NEW k \in Mistakes(f), k \in Checks
    PROVE  \E t \in Range(Gated) : f \in Inputs(t) /\ k \in Range(Verifier[t].steps)
  <1>1. Range(Gated) = Range(lab.scripts) \cap Range(GateScripts)
    BY GatedScripts
  <1>2. Range(lab.scripts) \subseteq DOMAIN Verifier
    BY DEF Range
  <1>3. CASE f = Executable
    <2>1. k = "profile"
      BY <1>3 DEF Mistakes
    <2>2. "profile" \in Range(Verifier[s].steps)
      <3>1. StepsOK(Verifier[s])
        BY <1>1, <1>2, ScriptSteps
      <3>2. 1 \in DOMAIN Verifier[s].steps
        BY <3>1 DEF StepsOK
      <3> QED
        BY <3>1, <3>2 DEF StepsOK, Range
    <2> QED
      BY <2>1, <2>2
  <1>4. CASE f # Executable
    <2>1. PICK t \in Range(lab.scripts) : f \in Inputs(t) /\ k \in Range(Verifier[t].steps)
      <3>1. k # "probe"
        BY DEF Checks
      <3>2. \/ f \in Range(lab.scripts) /\ k \in Range(Verifier[f].steps)
            \/ \E t \in Range(lab.scripts) :
                  f \in Verifier[t].models /\ k \in Range(Verifier[t].steps)
        BY <1>4, <3>1 DEF Mistakes
      <3> QED
        BY <3>2 DEF Inputs
    <2>2. t \in Range(GateScripts)
      BY <1>1, <1>2, <1>4, <2>1, GateKnowsItsModels
    <2> QED
      BY <1>1, <2>1, <2>2
  <1> QED
    BY <1>3, <1>4

-------------------------------------------------------------------------------
-------------------------------------------------------------------------------
(* The laboratory of a behaviour stays what it is. *)

\* The receipts that the scripts of the laboratory write.
Receipts ==
    UNION {{s} \X (Range(Verifier[s].steps) \ (Checks \cup {"noted", "ledger"})) :
             s \in Range(lab.scripts)}

LEMMA LabFixed ==
    ASSUME lab' = lab
    PROVE  /\ Files' = Files /\ Receipts' = Receipts /\ Gated' = Gated
           /\ ListedReceipts' = ListedReceipts /\ HashedSources' = HashedSources
           /\ \A f : Mistakes(f)' = Mistakes(f)
           /\ B' = B /\ OneScript' = OneScript
  BY Zenon DEF Files, Receipts, Gated, ListedReceipts, HashedSources, Mistakes, B, OneScript

-------------------------------------------------------------------------------
(* The native benches. *)

\* What the gate compares with a receipt takes in the whole harness and all judges; a bench
\* with a builder of its own records the harness when it builds.
BenchFacts(b) ==
    /\ b.harness \subseteq b.bound /\ b.judges \subseteq b.bound
    /\ b.builder # b.runner => b.harness \subseteq b.recorded
    /\ b.builder = b.runner => b.bound \cap (b.judges \cup {b.runner}) = {}

LEMMA BenchesInOrder == \A name \in DOMAIN Bench : BenchFacts(Bench[name])
  <1>1. DOMAIN Bench = {"integer", "elf32", "pop", "float", "growth"}
    BY DEF Bench
  <1>2. BenchFacts(IntegerBench)
    BY DEF IntegerBench, BenchFacts
  <1>3. BenchFacts(ElfBench)
    BY DEF ElfBench, BenchFacts
  <1>4. BenchFacts(PopBench)
    BY DEF PopBench, BenchFacts
  <1>5. BenchFacts(FloatBench)
    BY DEF FloatBench, BenchFacts
  <1>6. BenchFacts(GrowthBench)
    BY DEF GrowthBench, BenchFacts
  <1>7. /\ Bench["integer"] = IntegerBench /\ Bench["elf32"] = ElfBench
        /\ Bench["pop"] = PopBench /\ Bench["float"] = FloatBench
        /\ Bench["growth"] = GrowthBench
    BY DEF Bench
  <1> QED
    BY <1>1, <1>2, <1>3, <1>4, <1>5, <1>6, <1>7

NoProbeMistake(snapshot) == ~Mistaken(snapshot, "probe")

\* A build that nobody edited under was made from the sources it records.
BuildOK(b) ==
    /\ B.harness \subseteq DOMAIN b.products
    /\ b.clean => \A f \in B.harness : b.products[f] = b.hashes[f]

\* What the runner holds while it works: the judges it hashed are those it judged by, and the
\* probe it ran is the one recorded or, where one script does both, made from what is on disk.
RunningOK(p) ==
    /\ B.harness \subseteq DOMAIN p.ran /\ DOMAIN p.judged = B.judges \cup {B.runner}
    /\ ~OneScript => /\ \A f \in DOMAIN p.judged \cap B.bound : p.judged[f] = p.hashes[f]
                     /\ p.clean => \A f \in B.harness : p.ran[f] = p.hashes[f]
    /\ OneScript /\ p.clean => \A f \in B.harness : p.ran[f] = content[f]

\* A receipt names what was run and what it was judged by, and passes only what is right.
ReceiptOK(r) ==
    /\ B.harness \subseteq DOMAIN r.products /\ DOMAIN r.judged = B.judges \cup {B.runner}
    /\ \A f \in DOMAIN r.judged \cap B.bound : r.judged[f] = r.hashes[f]
    /\ r.clean => \A f \in B.harness : r.products[f] = r.hashes[f]
    /\ r.pass => NoProbeMistake(r.products) /\ NoProbeMistake(r.judged)

ProcessOK ==
    /\ {"at", "clean"} \subseteq DOMAIN bench
    /\ bench.at = "compiled" => /\ DOMAIN native.products = Ingredients(B)
                                /\ bench.clean => native.products = Snapshot(Ingredients(B))
    /\ bench.at \in {"running", "outputs", "receipt"} =>
         /\ {"ran", "judged", "hashes"} \subseteq DOMAIN bench /\ RunningOK(bench)
    /\ bench.at \in {"outputs", "receipt"} =>
         /\ "verdict" \in DOMAIN bench
         /\ bench.verdict = "passed" => NoProbeMistake(bench.ran) /\ NoProbeMistake(bench.judged)

BenchInv ==
    lab.bench # "none" =>
        /\ DOMAIN native = {"products", "build", "output", "receipt"}
        /\ native.build # Nothing => BuildOK(native.build)
        /\ native.receipt # Nothing => ReceiptOK(native.receipt)
        /\ ProcessOK

LEMMA BenchKnown ==
    ASSUME lab \in Labs, lab.bench # "none"
    PROVE  /\ BenchFacts(B) /\ B.harness \subseteq Ingredients(B)
           /\ OneScript <=> B.builder = B.runner
  <1>1. lab.bench \in DOMAIN Bench
    BY GateAssumption
  <1> QED
    BY <1>1, BenchesInOrder DEF B, OneScript, Ingredients

LEMMA SameFiles ==
    ASSUME lab' = lab
    PROVE  /\ \A r : ReceiptOK(r)' <=> ReceiptOK(r)
           /\ \A b : BuildOK(b)' <=> BuildOK(b)
           /\ content' = content => \A p : RunningOK(p)' <=> RunningOK(p)
  <1>1. B' = B /\ OneScript' = OneScript
    BY LabFixed
  <1> QED
    BY <1>1, Zenon DEF ReceiptOK, BuildOK, RunningOK, NoProbeMistake, Mistaken

LEMMA BenchStarts == Init => BenchInv
  <1> SUFFICES ASSUME Init PROVE BenchInv
    OBVIOUS
  <1>1. native = NoProbe /\ bench = BenchIdle
    BY DEF Init
  <1>2. bench.at = "idle" /\ DOMAIN bench = {"at", "clean"}
    BY <1>1 DEF BenchIdle
  <1>3. /\ DOMAIN native = {"products", "build", "output", "receipt"}
        /\ native.build = Nothing /\ native.receipt = Nothing
    BY <1>1 DEF NoProbe
  <1> QED
    BY <1>2, <1>3 DEF BenchInv, ProcessOK

LEMMA IdleBench ==
    ASSUME BenchInv, lab' = lab, native' = native, bench' = BenchIdle
    PROVE  BenchInv'
  <1>1. bench'.at = "idle" /\ DOMAIN bench' = {"at", "clean"}
    BY DEF BenchIdle
  <1>2. ProcessOK'
    BY <1>1 DEF ProcessOK
  <1> QED
    BY <1>2, SameFiles DEF BenchInv

LEMMA SameBench ==
    ASSUME BenchInv, lab' = lab, content' = content, native' = native, bench' = bench
    PROVE  BenchInv'
  <1>1. B' = B /\ Ingredients(B)' = Ingredients(B)
    BY LabFixed
  <1>2. Snapshot(Ingredients(B))' = Snapshot(Ingredients(B))
    BY <1>1 DEF Snapshot
  <1>3. ProcessOK <=> ProcessOK'
    BY <1>1, <1>2, SameFiles DEF ProcessOK
  <1> QED
    BY <1>3, SameFiles DEF BenchInv

LEMMA EditKeepsBench ==
    ASSUME BenchInv, Edit
    PROVE  BenchInv'
  <1>1. lab' = lab /\ native' = native /\ bench' = [bench EXCEPT !.clean = bench.at = "idle"]
    BY DEF Edit
  <1> SUFFICES ASSUME lab.bench # "none" PROVE ProcessOK'
    BY <1>1, SameFiles DEF BenchInv
  <1>2. B' = B /\ Ingredients(B)' = Ingredients(B) /\ OneScript' = OneScript
    BY <1>1, LabFixed
  <1>3. /\ DOMAIN bench' = DOMAIN bench /\ bench'.at = bench.at
        /\ bench'.clean = (bench.at = "idle")
        /\ \A x \in DOMAIN bench \ {"clean"} : bench'[x] = bench[x]
    BY <1>1 DEF BenchInv, ProcessOK
  <1>4. ASSUME bench.at \in {"running", "outputs", "receipt"}
        PROVE  RunningOK(bench)' /\ bench'.ran = bench.ran /\ bench'.judged = bench.judged
    <2>1. {"ran", "judged", "hashes"} \subseteq DOMAIN bench /\ RunningOK(bench)
      BY <1>4 DEF BenchInv, ProcessOK
    <2>2. /\ bench'.ran = bench.ran /\ bench'.judged = bench.judged
          /\ bench'.hashes = bench.hashes /\ ~bench'.clean
      BY <1>3, <1>4, <2>1
    <2> QED
      BY <1>2, <2>1, <2>2 DEF RunningOK
  <1>5. bench.at \in {"outputs", "receipt"} => bench'.verdict = bench.verdict
    BY <1>3 DEF BenchInv, ProcessOK
  <1> QED
    BY <1>1, <1>2, <1>3, <1>4, <1>5 DEF BenchInv, ProcessOK, NoProbeMistake

LEMMA CompileKeeps ==
    ASSUME BenchInv, lab.bench # "none", Compile
    PROVE  BenchInv'
  <1>1. /\ native' = [native EXCEPT !.products = Snapshot(Ingredients(B))]
        /\ bench' = [at |-> "compiled", clean |-> TRUE] /\ lab' = lab /\ content' = content
    BY DEF Compile
  <1>2. /\ DOMAIN native' = {"products", "build", "output", "receipt"}
        /\ native'.products = Snapshot(Ingredients(B))
        /\ native'.build = native.build /\ native'.receipt = native.receipt
    BY <1>1 DEF BenchInv
  <1>3. Ingredients(B)' = Ingredients(B) /\ Snapshot(Ingredients(B))' = Snapshot(Ingredients(B))
    BY <1>1, LabFixed DEF Snapshot
  <1>4. DOMAIN Snapshot(Ingredients(B)) = Ingredients(B)
    BY DEF Snapshot
  <1>5. ProcessOK'
    BY <1>1, <1>2, <1>3, <1>4 DEF ProcessOK
  <1> QED
    BY <1>1, <1>2, <1>5, SameFiles DEF BenchInv

LEMMA WriteBuildKeeps ==
    ASSUME BenchInv, lab \in Labs, lab.bench # "none", WriteBuild
    PROVE  BenchInv'
  <1> DEFINE b == [products |-> native.products, hashes |-> Snapshot(B.recorded),
                   clean    |-> bench.clean]
  <1>1. /\ bench.at = "compiled" /\ ~OneScript
        /\ native' = [native EXCEPT !.build = b]
        /\ bench' = BenchIdle /\ lab' = lab /\ content' = content
    BY DEF WriteBuild
  <1>2. /\ DOMAIN native.products = Ingredients(B)
        /\ bench.clean => native.products = Snapshot(Ingredients(B))
    BY <1>1 DEF BenchInv, ProcessOK
  <1>3. B.harness \subseteq Ingredients(B) /\ B.harness \subseteq B.recorded
    BY <1>1, BenchKnown DEF BenchFacts
  <1>4. /\ \A f \in Ingredients(B) : Snapshot(Ingredients(B))[f] = content[f]
        /\ \A f \in B.recorded : Snapshot(B.recorded)[f] = content[f]
    BY DEF Snapshot
  <1>5. BuildOK(b)
    BY <1>2, <1>3, <1>4 DEF BuildOK
  <1> HIDE DEF b
  <1>6. /\ DOMAIN native' = {"products", "build", "output", "receipt"}
        /\ native'.build = b /\ native'.receipt = native.receipt
    BY <1>1 DEF BenchInv
  <1>7. bench'.at = "idle" /\ DOMAIN bench' = {"at", "clean"}
    BY <1>1 DEF BenchIdle
  <1>8. ProcessOK'
    BY <1>7 DEF ProcessOK
  <1>9. PICK c : c = b /\ BuildOK(c)
    BY <1>5
  <1> QED
    BY <1>1, <1>6, <1>8, <1>9, SameFiles DEF BenchInv

\* The process of the runner when it starts to work.
LEMMA ExecuteKeeps ==
    ASSUME BenchInv, lab \in Labs, lab.bench # "none", Execute
    PROVE  BenchInv'
  <1> DEFINE judges == B.judges \cup {B.runner}
             named == B.recorded \cup B.bound
  <1>1. /\ \/ OneScript /\ bench.at = "compiled"
           \/ ~OneScript /\ bench.at = "idle" /\ BuildIsCurrent
        /\ lab' = lab /\ content' = content /\ native' = native
    BY DEF Execute
  <1>2. /\ bench'.at = "running"
        /\ bench'.clean = IF OneScript THEN bench.clean ELSE native.build.clean
        /\ bench'.ran = native.products
        /\ bench'.judged = Snapshot(judges)
        /\ {"at", "clean", "ran", "judged", "hashes"} \subseteq DOMAIN bench'
    BY DEF Execute
  <1>3. ~OneScript => bench'.hashes = [f \in named |->
                         IF f \in B.recorded THEN native.build.hashes[f] ELSE content[f]]
    BY DEF Execute
  <1>4. /\ DOMAIN Snapshot(judges) = judges /\ \A f \in judges : Snapshot(judges)[f] = content[f]
        /\ \A f \in B.recorded : Snapshot(B.recorded)[f] = content[f]
        /\ \A f \in Ingredients(B) : Snapshot(Ingredients(B))[f] = content[f]
    BY DEF Snapshot
  <1>5. /\ BenchFacts(B) /\ (OneScript <=> B.builder = B.runner)
        /\ B.harness \subseteq Ingredients(B)
    BY BenchKnown
  <1>6. CASE OneScript
    <2>1. /\ DOMAIN native.products = Ingredients(B)
          /\ bench.clean => native.products = Snapshot(Ingredients(B))
      BY <1>1, <1>6 DEF BenchInv, ProcessOK
    <2>2. RunningOK(bench')
      BY <1>2, <1>4, <1>5, <1>6, <2>1 DEF RunningOK
    <2> QED
      BY <1>1, <1>2, <2>2, SameFiles DEF BenchInv, ProcessOK
  <1>7. CASE ~OneScript
    <2>1. /\ native.build # Nothing /\ native.products = native.build.products
          /\ Snapshot(B.recorded) = native.build.hashes
      BY <1>1, <1>7 DEF BuildIsCurrent
    <2>2. BuildOK(native.build)
      BY <2>1 DEF BenchInv
    <2>3. \A f \in B.recorded : native.build.hashes[f] = content[f]
      BY <1>4, <2>1
    <2>4. \A f \in judges \cap B.bound : bench'.hashes[f] = content[f]
      BY <1>3, <1>7, <2>3
    <2>5. \A f \in B.harness : bench'.hashes[f] = native.build.hashes[f]
      BY <1>3, <1>5, <1>7 DEF BenchFacts
    <2>6. RunningOK(bench')
      BY <1>2, <1>4, <1>7, <2>1, <2>2, <2>4, <2>5 DEF RunningOK, BuildOK
    <2> QED
      BY <1>1, <1>2, <2>6, SameFiles DEF BenchInv, ProcessOK
  <1> QED
    BY <1>6, <1>7

LEMMA EndedKeeps ==
    ASSUME BenchInv, lab.bench # "none", bench.at = "running",
           NEW verdict, Ended(verdict), verdict = "passed" => Sound,
           lab' = lab, content' = content, native' = native
    PROVE  BenchInv'
  <1>1. CASE bench' = BenchIdle
    BY <1>1, IdleBench
  <1>2. CASE bench' = [at |-> "outputs", clean |-> bench.clean, ran |-> bench.ran,
                       judged |-> bench.judged, hashes |-> bench.hashes, verdict |-> verdict]
    <2>1. /\ DOMAIN bench' = {"at", "clean", "ran", "judged", "hashes", "verdict"}
          /\ bench'.at = "outputs" /\ bench'.verdict = verdict
          /\ bench'.clean = bench.clean /\ bench'.ran = bench.ran
          /\ bench'.judged = bench.judged /\ bench'.hashes = bench.hashes
      BY <1>2
    <2>2. RunningOK(bench')
      BY <2>1 DEF BenchInv, ProcessOK, RunningOK
    <2>3. verdict = "passed" => NoProbeMistake(bench.ran) /\ NoProbeMistake(bench.judged)
      BY DEF Sound, NoProbeMistake
    <2>4. bench'.verdict = "passed" => NoProbeMistake(bench'.ran) /\ NoProbeMistake(bench'.judged)
      BY <2>1, <2>3
    <2> QED
      BY <2>1, <2>2, <2>4, SameFiles DEF BenchInv, ProcessOK, NoProbeMistake
  <1> QED
    BY <1>1, <1>2 DEF Ended

LEMMA FinishKeeps ==
    ASSUME BenchInv, lab.bench # "none", Finish
    PROVE  BenchInv'
  <1>1. PICK verdict : Ended(verdict) /\ (verdict = "passed" => Sound)
    BY DEF Finish
  <1> QED
    BY <1>1, EndedKeeps DEF Finish

LEMMA TimeOutKeeps ==
    ASSUME BenchInv, lab.bench # "none", TimeOut
    PROVE  BenchInv'
  <1>1. bench' = BenchIdle \/ Ended("timeout")
    BY DEF TimeOut
  <1>2. bench.at = "running" /\ lab' = lab /\ content' = content /\ native' = native
    BY DEF TimeOut
  <1> QED
    BY <1>1, <1>2, IdleBench, EndedKeeps

LEMMA SaveOutputsKeeps ==
    ASSUME BenchInv, lab.bench # "none", SaveOutputs
    PROVE  BenchInv'
  <1>1. /\ bench.at = "outputs" /\ lab' = lab /\ content' = content
        /\ native' = [native EXCEPT !.output = [ran |-> bench.ran, verdict |-> bench.verdict]]
        /\ bench' = IF bench.verdict = "raised" THEN BenchIdle ELSE [bench EXCEPT !.at = "receipt"]
    BY DEF SaveOutputs
  <1>2. /\ DOMAIN native' = {"products", "build", "output", "receipt"}
        /\ native'.build = native.build /\ native'.receipt = native.receipt
    BY <1>1 DEF BenchInv
  <1>3. /\ {"at", "clean", "ran", "judged", "hashes", "verdict"} \subseteq DOMAIN bench
        /\ RunningOK(bench)
        /\ bench.verdict = "passed" => NoProbeMistake(bench.ran) /\ NoProbeMistake(bench.judged)
    BY <1>1 DEF BenchInv, ProcessOK
  <1>4. CASE bench' = BenchIdle
    <2>1. bench'.at = "idle" /\ DOMAIN bench' = {"at", "clean"}
      BY <1>4 DEF BenchIdle
    <2>2. ProcessOK'
      BY <2>1 DEF ProcessOK
    <2> QED
      BY <1>1, <1>2, <2>2, SameFiles DEF BenchInv
  <1>5. CASE bench' = [bench EXCEPT !.at = "receipt"]
    <2>1. /\ DOMAIN bench' = DOMAIN bench /\ bench'.at = "receipt"
          /\ bench'.verdict = bench.verdict /\ bench'.clean = bench.clean
          /\ bench'.ran = bench.ran /\ bench'.judged = bench.judged
          /\ bench'.hashes = bench.hashes
      BY <1>3, <1>5
    <2>2. RunningOK(bench')
      BY <1>3, <2>1 DEF RunningOK
    <2>3. bench'.verdict = "passed" => NoProbeMistake(bench'.ran) /\ NoProbeMistake(bench'.judged)
      BY <1>3, <2>1
    <2>4. ProcessOK'
      BY <1>1, <1>3, <2>1, <2>2, <2>3, SameFiles DEF ProcessOK, NoProbeMistake
    <2> QED
      BY <1>1, <1>2, <2>4, SameFiles DEF BenchInv
  <1> QED
    BY <1>1, <1>4, <1>5

LEMMA SaveReceiptKeeps ==
    ASSUME BenchInv, lab \in Labs, lab.bench # "none", SaveReceipt
    PROVE  BenchInv'
  <1> DEFINE named == IF OneScript THEN Snapshot(B.bound) ELSE bench.hashes
             r == [pass     |-> bench.verdict = "passed",
                   products |-> bench.ran,
                   hashes   |-> named,
                   output   |-> native.output,
                   judged   |-> bench.judged,
                   clean    |-> bench.clean]
  <1>1. /\ bench.at = "receipt" /\ native' = [native EXCEPT !.receipt = r]
        /\ bench' = BenchIdle /\ lab' = lab /\ content' = content
    BY DEF SaveReceipt
  <1>2. /\ RunningOK(bench)
        /\ bench.verdict = "passed" => NoProbeMistake(bench.ran) /\ NoProbeMistake(bench.judged)
    BY <1>1 DEF BenchInv, ProcessOK
  <1>3. BenchFacts(B) /\ (OneScript <=> B.builder = B.runner)
    BY BenchKnown
  <1>4. \A f \in B.bound : Snapshot(B.bound)[f] = content[f]
    BY DEF Snapshot
  <1>5. /\ \A f \in DOMAIN bench.judged \cap B.bound : bench.judged[f] = named[f]
        /\ bench.clean => \A f \in B.harness : bench.ran[f] = named[f]
    <2>1. CASE OneScript
      BY <1>2, <1>3, <1>4, <2>1 DEF RunningOK, BenchFacts
    <2>2. CASE ~OneScript
      BY <1>2, <2>2 DEF RunningOK
    <2> QED
      BY <2>1, <2>2
  <1> HIDE DEF named
  <1>6. ReceiptOK(r)
    BY <1>2, <1>5 DEF ReceiptOK, RunningOK
  <1> HIDE DEF r
  <1>7. /\ DOMAIN native' = {"products", "build", "output", "receipt"}
        /\ native'.build = native.build /\ native'.receipt = r
    BY <1>1 DEF BenchInv
  <1>8. bench'.at = "idle" /\ DOMAIN bench' = {"at", "clean"}
    BY <1>1 DEF BenchIdle
  <1>9. ProcessOK'
    BY <1>8 DEF ProcessOK
  <1>10. PICK c : c = r /\ ReceiptOK(c)
    BY <1>6
  <1> QED
    BY <1>1, <1>7, <1>9, <1>10, SameFiles DEF BenchInv

\* The processes of a bench change nothing of the gate, and no source.
LEMMA BenchKeepsTheLab == BenchStep => lab' = lab /\ content' = content
  BY DEF BenchStep, BenchProceeds, Compile, WriteBuild, Execute, Finish, TimeOut, SaveOutputs,
         SaveReceipt

\* The processes of the gate change nothing of a bench.
LEMMA GateKeepsTheBench ==
    ASSUME NEW p, StartGate(p) \/ RunByHand(p) \/ Proceeds(p)
    PROVE  UNCHANGED outside
  BY DEF StartGate, RunByHand, Proceeds, Load, Check, WriteReceipt, OpenLedger, SaveLedger,
         HandDone, HashSources, HashReceipts, Cite, Publish, outside

LEMMA BenchKeeps == lab \in Labs /\ BenchInv /\ [Next]_vars => (lab \in Labs /\ BenchInv)'
  <1> SUFFICES ASSUME lab \in Labs, BenchInv, [Next]_vars PROVE lab' \in Labs /\ BenchInv'
    OBVIOUS
  <1>1. CASE Edit
    BY <1>1, EditKeepsBench DEF Edit
  <1>2. CASE Crash
    BY <1>2, IdleBench, SameBench DEF Crash
  <1>3. CASE \E p \in Process : StartGate(p) \/ RunByHand(p) \/ Proceeds(p)
    BY <1>3, GateKeepsTheBench, SameBench DEF outside
  <1>4. CASE BenchStep
    BY <1>4, BenchKeepsTheLab, CompileKeeps, WriteBuildKeeps, ExecuteKeeps, FinishKeeps,
       TimeOutKeeps, SaveOutputsKeeps, SaveReceiptKeeps DEF BenchStep, BenchProceeds
  <1>5. CASE UNCHANGED vars
    BY <1>5, SameBench DEF vars, outside
  <1> QED
    BY <1>1, <1>2, <1>3, <1>4, <1>5 DEF Next

LEMMA BenchInvariant == Spec => [](lab \in Labs /\ BenchInv)
  <1>1. Init => lab \in Labs /\ BenchInv
    BY BenchStarts DEF Init
  <1> QED
    BY <1>1, BenchKeeps, PTL DEF Spec

\* A receipt that says pass and whose hashes are those on disk stands for what is on disk.
LEMMA CitedEvidenceIsBound ==
    ASSUME lab \in Labs, BenchInv, Cited, CitationHolds, native.receipt.clean
    PROVE  LET r == native.receipt
               now == Snapshot(B.bound)
           IN  /\ \A f \in B.harness : r.products[f] = now[f]
               /\ \A f \in DOMAIN r.judged \cap B.bound : r.judged[f] = now[f]
               /\ \A f \in B.harness \cup B.judges : now[f].mistake # "probe"
  <1> DEFINE r == native.receipt
             now == Snapshot(B.bound)
  <1>1. /\ lab.bench # "none" /\ ReceiptOK(r) /\ r.pass
        /\ \A f \in B.bound : r.hashes[f] = content[f]
    BY DEF Cited, CitationHolds, BenchInv
  <1>2. B.harness \subseteq B.bound /\ B.judges \subseteq B.bound
    BY <1>1, BenchKnown DEF BenchFacts
  <1>3. \A f \in B.bound : now[f] = content[f]
    BY DEF Snapshot
  <1> HIDE DEF r, now
  <1>4. /\ \A f \in B.harness : r.products[f] = now[f]
        /\ \A f \in DOMAIN r.judged \cap B.bound : r.judged[f] = now[f]
    BY <1>1, <1>2, <1>3 DEF ReceiptOK, r
  <1>5. B.harness \subseteq DOMAIN r.products /\ B.judges \subseteq DOMAIN r.judged
    BY <1>1 DEF ReceiptOK
  <1>6. \A f \in B.harness \cup B.judges : now[f].mistake # "probe"
    BY <1>1, <1>2, <1>4, <1>5 DEF ReceiptOK, NoProbeMistake, Mistaken
  <1> QED
    BY <1>4, <1>6 DEF r, now

\* What native evidence says of the files that the gate found on disk.
EvidenceOK(n) ==
    n # Nothing /\ n.receipt.clean =>
        /\ \A f \in B.harness : n.receipt.products[f] = n.now[f]
        /\ \A f \in DOMAIN n.receipt.judged \cap B.bound : n.receipt.judged[f] = n.now[f]
        /\ \A f \in B.harness \cup B.judges : n.now[f].mistake # "probe"

LEMMA EvidenceStays ==
    ASSUME lab' = lab, NEW n, EvidenceOK(n)
    PROVE  EvidenceOK(n)'
  BY LabFixed, Zenon DEF EvidenceOK

-------------------------------------------------------------------------------
(* The gate: its invariant. *)

Fields == {"mode", "todo", "step", "loaded", "book", "draft", "clean", "written", "underway",
           "beside"}

\* After its scripts a gate only reads.
Reading == {"hashing", "citing", "publishing"}

ProcessType(r) ==
    /\ DOMAIN r = Fields
    /\ r.mode \in {"idle", "ended", "hand", "gate"} \cup Reading
    /\ r.todo \in Seq(Range(lab.scripts)) /\ r.step \in Nat
    /\ r.mode \in {"idle", "ended"} \cup Reading => r.todo = <<>>
    /\ r.written \subseteq Receipts /\ r.underway \subseteq r.beside

\* What each variable of the gate can be.
GateType ==
    /\ lab \in Labs
    /\ DOMAIN content = Files
    /\ \A f \in Files : content[f].mistake \in Mistakes(f) \cup {"none", "probe"}
    /\ DOMAIN run = Process /\ DOMAIN disk = Receipts

Now(s) == Snapshot(Inputs(s))

\* A gate's own receipt is its own still or of a script that ran beside it; and while nobody
\* edits it is of the sources there are, unless its script was underway before.
Vouched(p, a) ==
    /\ a \in run[p].written \/ a[1] \in run[p].beside
    /\ run[p].clean /\ a[1] \notin run[p].underway => disk[a] = Now(a[1])

\* The script that runs has passed the checks it has come by and, under a gate, written the
\* receipts it has come by.
Current(p) ==
    Loaded(p) =>
        /\ run[p].step <= Len(Steps(p))
        /\ DOMAIN run[p].loaded = Inputs(Script(p))
        /\ \A i \in 1 .. run[p].step - 1 :
              Steps(p)[i] \in Checks => ~Mistaken(run[p].loaded, Steps(p)[i])
        /\ IsGate(p) =>
             \A i \in 1 .. run[p].step - 1 : LET a == <<Script(p), Steps(p)[i]>> IN
                 a \in DOMAIN disk =>
                    Vouched(p, a) /\ (a \in run[p].written => disk[a] = run[p].loaded)

\* A script the gate has run has written all its receipts, from sources that it passes on.
Done(p, s) ==
    /\ \A a \in DOMAIN disk : a[1] = s =>
          Vouched(p, a) /\ (a \in run[p].written => Passes(s, disk[a]))
    /\ run[p].clean => Passes(s, Now(s))

Progress(p) == IsGate(p) => \A s \in Range(Gated) : s \in ToSet(run[p].todo) \/ Done(p, s)

\* What a report, or its draft, says.
ReportOK(r, clean) ==
    /\ DOMAIN r.artifacts = ListedReceipts
    /\ \A a \in ListedReceipts :
          /\ a \in r.fresh \/ a[1] \in r.beside
          /\ a \in r.fresh => Passes(a[1], r.artifacts[a])
          /\ clean /\ a[1] \notin r.underway =>
               /\ NoCheckFails(r.artifacts[a])
               /\ \A f \in DOMAIN r.artifacts[a] \ {Executable} :
                     f \in DOMAIN r.sources /\ r.artifacts[a][f] = r.sources[f]

Drafted(p) ==
    LET r == run[p]
    IN  /\ r.mode = "hashing" /\ r.clean => r.draft.sources = Snapshot(HashedSources)
        /\ r.mode \in {"citing", "publishing"} => ReportOK(r.draft, r.clean)
        /\ r.mode = "publishing" => EvidenceOK(r.draft.native)

\* What a process by itself keeps.
ProcessInv(p) == ProcessType(run[p]) /\ Current(p) /\ Progress(p) /\ Drafted(p)

\* A gate knows the scripts that run beside it; those that were not underway when it began
\* have, like its own, read the sources as they are, as long as nobody edits.
Beside(p, q) ==
    IsGate(p) /\ Loaded(q) =>
        /\ q # p => Script(q) \in run[p].beside
        /\ run[p].clean /\ (q = p \/ Script(q) \notin run[p].underway) =>
              run[q].loaded = Now(Script(q))

LedgerOK(l) == /\ DOMAIN l = Range(lab.scripts)
            /\ \A s \in Range(lab.scripts) : l[s] # Nothing => Passes(s, l[s])

\* The ledger, and every copy of it that a process is about to write back.
LedgerIsSound == LedgerOK(ledger) /\ \A p \in Process : run[p].book = Nothing \/ LedgerOK(run[p].book)

Reported == report # Nothing => ReportOK(report, report.clean) /\ EvidenceOK(report.native)

GateInv == /\ GateType /\ LedgerIsSound /\ Reported
           /\ \A p \in Process : ProcessInv(p)
           /\ \A p, q \in Process : Beside(p, q)

LEMMA Unedited ==
    ASSUME content' = content
    PROVE  /\ \A s : Now(s)' = Now(s)
           /\ lab' = lab => Snapshot(HashedSources)' = Snapshot(HashedSources)
  BY LabFixed DEF Now, Snapshot

LEMMA ReportStays ==
    ASSUME lab' = lab, NEW r, NEW clean, ReportOK(r, clean)
    PROVE  ReportOK(r, clean)'
  BY LabFixed, Zenon DEF ReportOK

\* The laboratory.
LEMMA LabKnown ==
    ASSUME GateType
    PROVE  /\ lab.scripts \in Seq(DOMAIN Verifier)
           /\ Range(lab.scripts) \subseteq DOMAIN Verifier
           /\ Gated \in Seq(DOMAIN Verifier) /\ Gated \in Seq(Range(lab.scripts))
           /\ Range(Gated) = Range(lab.scripts) \cap Range(GateScripts)
  <1>1. lab.scripts \in Seq(DOMAIN Verifier)
    BY GateAssumption DEF GateType
  <1>2. Range(lab.scripts) \subseteq DOMAIN Verifier
    BY <1>1 DEF Range
  <1>3. Gated \in Seq(DOMAIN Verifier) /\ Range(Gated) = Range(lab.scripts) \cap Range(GateScripts)
    BY <1>1, GatedScripts
  <1>4. Gated \in Seq(Range(lab.scripts))
    <2>1. \A i \in 1 .. Len(Gated) : Gated[i] \in Range(Gated)
      BY <1>3 DEF Range
    <2> QED
      BY <1>3, <2>1
  <1> QED
    BY <1>1, <1>2, <1>3, <1>4

\* A process that does nothing.
LEMMA RestingIsFine ==
    ASSUME NEW p \in Process, DOMAIN run[p] = Fields, run[p].mode \in {"idle", "ended"},
           run[p].todo = <<>>, run[p].step = 0, run[p].written = {}, run[p].underway = {}
    PROVE  ProcessInv(p)
  BY DEF ProcessInv, ProcessType, Current, Progress, Drafted, Loaded, IsGate, Reading

LEMMA IdleFields ==
    /\ DOMAIN Idle = Fields /\ Idle.mode = "idle" /\ Idle.todo = <<>> /\ Idle.step = 0
    /\ Idle.written = {} /\ Idle.underway = {} /\ Idle.book = Nothing
  BY DEF Idle, Fields

LEMMA GateStarts == Init => GateInv
  <1> SUFFICES ASSUME Init PROVE GateInv
    OBVIOUS
  <1>1. run = [p \in Process |-> Idle] /\ report = Nothing /\ lab \in Labs
    BY DEF Init
  <1>2. DOMAIN disk = Receipts /\ DOMAIN ledger = Range(lab.scripts) /\ DOMAIN content = Files
    BY DEF Init, Receipts
  <1>3. \A f \in Files : content[f].mistake \in Mistakes(f) \cup {"none", "probe"}
    <2>1. PICK wrong \in [lab.mistaken -> Checks \cup {"noted", "probe"}] :
            /\ \A f \in lab.mistaken : wrong[f] \in Mistakes(f)
            /\ content = [f \in Files |-> [rev     |-> 0,
                                          mistake |-> IF f \in lab.mistaken THEN wrong[f]
                                                      ELSE "none"]]
      BY DEF Init
    <2> QED
      BY <2>1
  <1>4. GateType
    BY <1>1, <1>2, <1>3 DEF GateType
  <1>5. \A p \in Process : ProcessInv(p)
    BY <1>1, IdleFields, RestingIsFine
  <1>6. \A p, q \in Process : Beside(p, q)
    BY <1>1, IdleFields DEF Beside, IsGate
  <1>7. LedgerIsSound
    BY <1>1, <1>2, IdleFields DEF Init, LedgerIsSound, LedgerOK
  <1> QED
    BY <1>1, <1>4, <1>5, <1>6, <1>7 DEF GateInv, Reported

-------------------------------------------------------------------------------
(* What another process does to a gate. *)

\* What process p keeps when another moves: it may learn of a script beside it, and may lose
\* a receipt to one that it knows of.
Aside(p) ==
    /\ DOMAIN run'[p] = Fields
    /\ \A x \in Fields \ {"book", "written", "beside"} : run'[p][x] = run[p][x]
    /\ run'[p].written \subseteq run[p].written /\ run[p].beside \subseteq run'[p].beside
    /\ \A a \in DOMAIN disk :
          \/ disk'[a] = disk[a] /\ (a \in run[p].written => a \in run'[p].written)
          \/ /\ a \notin run'[p].written
             /\ IsGate(p) =>
                  /\ a[1] \in run'[p].beside
                  /\ run[p].clean /\ a[1] \notin run[p].underway => disk'[a] = Now(a[1])

LEMMA AsideFields ==
    ASSUME NEW p, Aside(p)
    PROVE  /\ run'[p].mode = run[p].mode /\ run'[p].todo = run[p].todo
           /\ run'[p].step = run[p].step /\ run'[p].loaded = run[p].loaded
           /\ run'[p].draft = run[p].draft /\ run'[p].clean = run[p].clean
           /\ run'[p].underway = run[p].underway
           /\ IsGate(p)' = IsGate(p) /\ Script(p)' = Script(p) /\ Steps(p)' = Steps(p)
           /\ Loaded(p)' = Loaded(p)
  <1>1. /\ run'[p].mode = run[p].mode /\ run'[p].todo = run[p].todo
        /\ run'[p].step = run[p].step /\ run'[p].loaded = run[p].loaded
        /\ run'[p].draft = run[p].draft /\ run'[p].clean = run[p].clean
        /\ run'[p].underway = run[p].underway
    BY DEF Aside, Fields
  <1> QED
    BY <1>1 DEF IsGate, Script, Steps, Loaded

LEMMA AsideVouched ==
    ASSUME NEW p, Aside(p), IsGate(p), content' = content,
           NEW a \in DOMAIN disk, Vouched(p, a)
    PROVE  /\ Vouched(p, a)'
           /\ a \in run'[p].written => a \in run[p].written /\ disk'[a] = disk[a]
  <1>1. run'[p].clean = run[p].clean /\ run'[p].underway = run[p].underway
    BY AsideFields
  <1>2. Now(a[1])' = Now(a[1])
    BY Unedited
  <1>3. CASE disk'[a] = disk[a] /\ (a \in run[p].written => a \in run'[p].written)
    BY <1>1, <1>2, <1>3 DEF Aside, Vouched
  <1>4. CASE /\ a \notin run'[p].written /\ a[1] \in run'[p].beside
             /\ run[p].clean /\ a[1] \notin run[p].underway => disk'[a] = Now(a[1])
    BY <1>1, <1>2, <1>4 DEF Vouched
  <1> QED
    BY <1>3, <1>4 DEF Aside

LEMMA AsideKeeps ==
    ASSUME NEW p \in Process, ProcessInv(p), Aside(p), lab' = lab, content' = content,
           DOMAIN disk' = DOMAIN disk
    PROVE  ProcessInv(p)'
  <1>1. /\ run'[p].mode = run[p].mode /\ run'[p].todo = run[p].todo
        /\ run'[p].step = run[p].step /\ run'[p].loaded = run[p].loaded
        /\ run'[p].draft = run[p].draft /\ run'[p].clean = run[p].clean
        /\ run'[p].underway = run[p].underway
        /\ IsGate(p)' = IsGate(p) /\ Script(p)' = Script(p) /\ Steps(p)' = Steps(p)
        /\ Loaded(p)' = Loaded(p)
    BY AsideFields
  <1>2. Receipts' = Receipts /\ Gated' = Gated /\ \A s : Now(s)' = Now(s)
    BY LabFixed, Unedited
  <1>3. ProcessType(run[p])'
    BY <1>1, <1>2 DEF ProcessInv, ProcessType, Aside
  <1>4. Current(p)'
    <2>1. ASSUME Loaded(p), IsGate(p), NEW i \in 1 .. run[p].step - 1,
                 <<Script(p), Steps(p)[i]>> \in DOMAIN disk
          PROVE  /\ Vouched(p, <<Script(p), Steps(p)[i]>>)'
                 /\ <<Script(p), Steps(p)[i]>> \in run'[p].written =>
                       disk'[<<Script(p), Steps(p)[i]>>] = run[p].loaded
      <3>1. PICK a \in DOMAIN disk : a = <<Script(p), Steps(p)[i]>>
        BY <2>1
      <3>2. Vouched(p, a) /\ (a \in run[p].written => disk[a] = run[p].loaded)
        BY <2>1, <3>1 DEF ProcessInv, Current
      <3>3. /\ Vouched(p, a)'
            /\ a \in run'[p].written => a \in run[p].written /\ disk'[a] = disk[a]
        BY <2>1, <3>2, AsideVouched
      <3>4. a = <<Script(p)', Steps(p)'[i]>>
        BY <1>1, <3>1
      <3> QED
        BY <3>1, <3>2, <3>3, <3>4
    <2>2. ASSUME Loaded(p)
          PROVE  /\ run[p].step <= Len(Steps(p)) /\ DOMAIN run[p].loaded = Inputs(Script(p))
                 /\ \A i \in 1 .. run[p].step - 1 :
                       Steps(p)[i] \in Checks => ~Mistaken(run[p].loaded, Steps(p)[i])
      BY <2>2 DEF ProcessInv, Current
    <2> QED
      BY <1>1, <2>1, <2>2, Zenon DEF Current, Mistaken
  <1>5. Progress(p)'
    <2>1. ASSUME IsGate(p), NEW s, Done(p, s) PROVE Done(p, s)'
      <3>1. ASSUME NEW a \in DOMAIN disk, a[1] = s
            PROVE  Vouched(p, a)' /\ (a \in run'[p].written => Passes(s, disk'[a]))
        <4>1. Vouched(p, a) /\ (a \in run[p].written => Passes(s, disk[a]))
          BY <2>1, <3>1 DEF Done
        <4>2. /\ Vouched(p, a)'
              /\ a \in run'[p].written => a \in run[p].written /\ disk'[a] = disk[a]
          BY <2>1, <4>1, AsideVouched
        <4> QED
          BY <4>1, <4>2
      <3>2. run'[p].clean => Passes(s, Now(s)')
        BY <1>1, <1>2, <2>1 DEF Done
      <3> QED
        BY <3>1, <3>2, Zenon DEF Done, Passes
    <2> QED
      BY <1>1, <1>2, <2>1 DEF ProcessInv, Progress
  <1>6. Drafted(p)'
    BY <1>1, ReportStays, EvidenceStays, Unedited DEF ProcessInv, Drafted
  <1> QED
    BY <1>3, <1>4, <1>5, <1>6 DEF ProcessInv

\* From a gate's point of view, and from a script's, nothing has begun.
StillGate(p) ==
    IsGate(p)' => /\ IsGate(p) /\ (run'[p].clean => run[p].clean)
                  /\ run'[p].underway = run[p].underway
                  /\ run[p].beside \subseteq run'[p].beside

StillLoaded(q) ==
    Loaded(q)' => Loaded(q) /\ Script(q)' = Script(q) /\ run'[q].loaded = run[q].loaded

LEMMA BesideKeeps ==
    ASSUME NEW p, NEW q, Beside(p, q), StillGate(p), StillLoaded(q), content' = content
    PROVE  Beside(p, q)'
  <1>1. \A s : Now(s)' = Now(s)
    BY Unedited
  <1> SUFFICES ASSUME IsGate(p)', Loaded(q)'
               PROVE  /\ q # p => Script(q)' \in run'[p].beside
                      /\ run'[p].clean /\ (q = p \/ Script(q)' \notin run'[p].underway) =>
                            run'[q].loaded = Now(Script(q))'
    BY DEF Beside
  <1>2. /\ IsGate(p) /\ (run'[p].clean => run[p].clean)
        /\ run'[p].underway = run[p].underway /\ run[p].beside \subseteq run'[p].beside
    BY DEF StillGate
  <1>3. Loaded(q) /\ Script(q)' = Script(q) /\ run'[q].loaded = run[q].loaded
    BY DEF StillLoaded
  <1>4. Now(Script(q))' = Now(Script(q))
    BY <1>1, <1>3 DEF Now, Snapshot
  <1> QED
    BY <1>2, <1>3, <1>4 DEF Beside

LEMMA AsideStill == ASSUME NEW p, Aside(p) PROVE StillGate(p) /\ StillLoaded(p)
  BY AsideFields DEF StillGate, StillLoaded, Aside

LEMMA TypeKeeps ==
    ASSUME GateType, lab' = lab, content' = content, DOMAIN run' = Process,
           DOMAIN disk' = DOMAIN disk
    PROVE  GateType'
  BY LabFixed DEF GateType

\* When one process moves and begins nothing, only its own state is left to look at.
LEMMA OneMoves ==
    ASSUME GateInv, NEW p \in Process, lab' = lab, content' = content, DOMAIN run' = Process,
           DOMAIN disk' = DOMAIN disk, \A q \in Process \ {p} : Aside(q),
           ProcessInv(p)', StillGate(p), StillLoaded(p), LedgerIsSound', Reported'
    PROVE  GateInv'
  <1>1. GateType'
    BY TypeKeeps DEF GateInv
  <1>2. \A q \in Process : ProcessInv(q)'
    BY AsideKeeps DEF GateInv
  <1>3. \A q \in Process : StillGate(q) /\ StillLoaded(q)
    BY AsideStill
  <1>4. \A q, r \in Process : Beside(q, r)'
    BY <1>3, BesideKeeps DEF GateInv
  <1> QED
    BY <1>1, <1>2, <1>4 DEF GateInv

LEMMA SameReport ==
    ASSUME Reported, lab' = lab, report' = report
    PROVE  Reported'
  BY ReportStays, EvidenceStays DEF Reported

LEMMA SameLedger ==
    ASSUME LedgerIsSound, lab' = lab, ledger' = ledger,
           \A q \in Process : run'[q].book \in {run[q].book, Nothing}
    PROVE  LedgerIsSound'
  <1>1. \A l : LedgerOK(l)' <=> LedgerOK(l)
    BY Zenon DEF LedgerOK, Passes
  <1> QED
    BY <1>1 DEF LedgerIsSound

\* Only process p moves, and no receipt changes.
LEMMA OthersAside ==
    ASSUME GateInv, NEW p \in Process, NEW r, Becomes(p, r), disk' = disk
    PROVE  /\ DOMAIN run' = Process /\ run'[p] = r
           /\ \A q \in Process \ {p} : run'[q] = run[q] /\ Aside(q)
  <1>1. DOMAIN run = Process
    BY DEF GateInv, GateType
  <1>2. DOMAIN run' = Process /\ run'[p] = r /\ \A q \in Process \ {p} : run'[q] = run[q]
    BY <1>1 DEF Becomes
  <1>3. \A q \in Process : DOMAIN run[q] = Fields
    BY DEF GateInv, ProcessInv, ProcessType
  <1>4. \A q \in Process \ {p} : Aside(q)
    BY <1>2, <1>3 DEF Aside
  <1> QED
    BY <1>2, <1>4

-------------------------------------------------------------------------------
(* One step of a script that runs. *)

\* A script that raises nothing takes one step: this step is a check that finds nothing,
\* a receipt (the only file it writes, and a gate counts it) or another.
Took(p) ==
    LET a == <<Script(p), Steps(p)[run[p].step]>>
    IN  /\ Loaded(p)
        /\ lab' = lab /\ content' = content /\ report' = report
        /\ DOMAIN run'[p] = Fields
        /\ \A x \in Fields \ {"todo", "step", "loaded", "book", "written"} :
              run'[p][x] = run[p][x]
        /\ \/ /\ run[p].step < Len(Steps(p)) /\ run'[p].step = run[p].step + 1
              /\ run'[p].todo = run[p].todo /\ run'[p].loaded = run[p].loaded
           \/ /\ run[p].step >= Len(Steps(p)) /\ run'[p].step = 0
              /\ run'[p].todo = Tail(run[p].todo)
        /\ Steps(p)[run[p].step] \in Checks => ~Mistaken(run[p].loaded, Steps(p)[run[p].step])
        /\ DOMAIN disk' = DOMAIN disk
        /\ \A b \in DOMAIN disk : b # a => disk'[b] = disk[b]
        /\ a \in DOMAIN disk => disk'[a] = run[p].loaded
        /\ run[p].written \subseteq run'[p].written
        /\ run'[p].written \subseteq run[p].written \cup ({a} \cap DOMAIN disk)
        /\ IsGate(p) /\ a \in DOMAIN disk => a \in run'[p].written

LEMMA AdvancedFields ==
    ASSUME NEW r, DOMAIN r = Fields
    PROVE  LET n == Advanced(r)
               last == Len(Verifier[Head(r.todo)].steps)
           IN  /\ DOMAIN n = Fields
               /\ \A x \in Fields \ {"todo", "step", "loaded", "book"} : n[x] = r[x]
               /\ n.book \in {r.book, Nothing}
               /\ \/ /\ r.step < last /\ n.step = r.step + 1
                     /\ n.todo = r.todo /\ n.loaded = r.loaded
                  \/ /\ ~(r.step < last) /\ n.step = 0 /\ n.todo = Tail(r.todo)
  <1> DEFINE last == Len(Verifier[Head(r.todo)].steps)
             n == Advanced(r)
  <1> HIDE DEF last, n
  <1>1. n = IF r.step < last THEN [r EXCEPT !.step = r.step + 1]
            ELSE [r EXCEPT !.step = 0, !.todo = Tail(r.todo), !.loaded = Nothing, !.book = Nothing]
    BY DEF Advanced, n, last
  <1>2. {"todo", "step", "loaded", "book"} \subseteq Fields
    BY DEF Fields
  <1>3. CASE r.step < last
    <2>1. n = [r EXCEPT !["step"] = r["step"] + 1]
      BY <1>1, <1>3
    <2>2. DOMAIN n = Fields /\ \A x \in Fields \ {"step"} : n[x] = r[x]
      BY <2>1
    <2>3. n.step = r.step + 1
      BY <1>2, <2>1
    <2> QED
      BY <1>2, <1>3, <2>2, <2>3 DEF n, last
  <1>4. CASE ~(r.step < last)
    <2>1. n = [r EXCEPT !["step"] = 0, !["todo"] = Tail(r.todo), !["loaded"] = Nothing,
                        !["book"] = Nothing]
      BY <1>1, <1>4
    <2>2. /\ DOMAIN n = Fields
          /\ \A x \in Fields \ {"todo", "step", "loaded", "book"} : n[x] = r[x]
      BY <2>1
    <2>3. n.step = 0 /\ n.todo = Tail(r.todo) /\ n.book = Nothing
      BY <1>2, <2>1
    <2> QED
      BY <1>2, <1>4, <2>2, <2>3 DEF n, last
  <1> QED
    BY <1>3, <1>4 DEF n, last

\* The script that runs.
LEMMA ScriptKnown ==
    ASSUME GateType, NEW p \in Process, ProcessInv(p), run[p].todo # <<>>
    PROVE  /\ Script(p) \in Range(lab.scripts) /\ Script(p) \in DOMAIN Verifier
           /\ Script(p) \in ToSet(run[p].todo)
           /\ StepsOK(Verifier[Script(p)]) /\ Steps(p) = Verifier[Script(p)].steps
           /\ Len(Steps(p)) \in Nat /\ DOMAIN Steps(p) = 1 .. Len(Steps(p))
           /\ run[p].step > 0 => run[p].step \in 1 .. Len(Steps(p))
           /\ Tail(run[p].todo) \in Seq(Range(lab.scripts))
           /\ \A s \in ToSet(run[p].todo) : s = Script(p) \/ s \in ToSet(Tail(run[p].todo))
  <1> DEFINE S == Range(lab.scripts)
             t == run[p].todo
  <1>1. t \in Seq(S) /\ t # <<>>
    BY DEF ProcessInv, ProcessType
  <1>2. S \subseteq DOMAIN Verifier
    BY LabKnown
  <1> HIDE DEF S, t
  <1>3. Head(t) \in S /\ Tail(t) \in Seq(S)
    BY <1>1
  <1>4. Head(t) \in ToSet(t) /\ \A s \in ToSet(t) : s \in ToSet(Tail(t)) \/ s = Head(t)
    BY <1>1, TailMembers
  <1>5. Script(p) = Head(t)
    BY DEF Script, t
  <1>6. StepsOK(Verifier[Script(p)])
    BY <1>2, <1>3, <1>5, ScriptSteps
  <1>7. Steps(p) = Verifier[Script(p)].steps
    BY DEF Steps
  <1>8. Len(Steps(p)) \in Nat /\ DOMAIN Steps(p) = 1 .. Len(Steps(p))
    BY <1>6, <1>7 DEF StepsOK
  <1>9. run[p].step > 0 => run[p].step \in 1 .. Len(Steps(p))
    BY <1>8 DEF ProcessInv, Current, Loaded, ProcessType
  <1> QED
    BY <1>2, <1>3, <1>4, <1>5, <1>6, <1>7, <1>8, <1>9 DEF S, t

\* What a receipt's name says.
LEMMA ReceiptNames ==
    ASSUME NEW a \in Receipts
    PROVE  /\ a[1] \in Range(lab.scripts) /\ a = <<a[1], a[2]>>
           /\ a[2] \in Range(Verifier[a[1]].steps) \ (Checks \cup {"noted", "ledger"})
  <1>1. PICK s \in Range(lab.scripts) :
           a \in {s} \X (Range(Verifier[s].steps) \ (Checks \cup {"noted", "ledger"}))
    BY DEF Receipts
  <1>2. a[1] = s /\ a = <<a[1], a[2]>>
        /\ a[2] \in Range(Verifier[s].steps) \ (Checks \cup {"noted", "ledger"})
    BY <1>1
  <1> QED
    BY <1>1, <1>2

LEMMA TookFields ==
    ASSUME NEW p, Took(p)
    PROVE  /\ run'[p].mode = run[p].mode /\ run'[p].draft = run[p].draft
           /\ run'[p].clean = run[p].clean /\ run'[p].underway = run[p].underway
           /\ run'[p].beside = run[p].beside
           /\ IsGate(p)' = IsGate(p)
           /\ run[p].todo # <<>> /\ run[p].step > 0
  <1>1. /\ run'[p].mode = run[p].mode /\ run'[p].draft = run[p].draft
        /\ run'[p].clean = run[p].clean /\ run'[p].underway = run[p].underway
        /\ run'[p].beside = run[p].beside
    BY DEF Took, Fields
  <1> QED
    BY <1>1 DEF IsGate, Took, Loaded

\* The receipt that the step writes is vouched for, and so are all those that were.
LEMMA TookVouched ==
    ASSUME NEW p, Took(p), IsGate(p), Beside(p, p), NEW a \in DOMAIN disk,
           Vouched(p, a) \/ a = <<Script(p), Steps(p)[run[p].step]>>
    PROVE  Vouched(p, a)'
  <1>1. /\ run'[p].clean = run[p].clean /\ run'[p].underway = run[p].underway
        /\ run'[p].beside = run[p].beside
    BY TookFields
  <1>2. Now(a[1])' = Now(a[1])
    BY Unedited DEF Took
  <1>3. CASE a = <<Script(p), Steps(p)[run[p].step]>>
    <2>1. a \in run'[p].written /\ disk'[a] = run[p].loaded /\ a[1] = Script(p)
      BY <1>3 DEF Took
    <2>2. run[p].clean => run[p].loaded = Now(Script(p))
      BY DEF Beside, Took
    <2> QED
      BY <1>1, <1>2, <2>1, <2>2 DEF Vouched
  <1>4. CASE a # <<Script(p), Steps(p)[run[p].step]>>
    <2>1. disk'[a] = disk[a] /\ (a \in run[p].written => a \in run'[p].written)
      BY <1>4 DEF Took
    <2> QED
      BY <1>1, <1>2, <1>4, <2>1 DEF Vouched
  <1> QED
    BY <1>3, <1>4

\* A script that ends well passes on what it was loaded from, and has written all its receipts.
LEMMA ScriptEnds ==
    ASSUME GateType, NEW p \in Process, ProcessInv(p), Beside(p, p), Took(p),
           run[p].step = Len(Steps(p))
    PROVE  /\ Passes(Script(p), run[p].loaded)
           /\ IsGate(p) => \A a \in DOMAIN disk : a[1] = Script(p) =>
                 Vouched(p, a)' /\ (a \in run'[p].written => disk'[a] = run[p].loaded)
  <1> DEFINE n == Len(Steps(p))
  <1>1. /\ StepsOK(Verifier[Script(p)]) /\ Steps(p) = Verifier[Script(p)].steps
        /\ n \in Nat /\ DOMAIN Steps(p) = 1 .. n /\ n > 0
    BY ScriptKnown, TookFields
  <1>2. \A i \in 1 .. n - 1 : Steps(p)[i] \in Checks => ~Mistaken(run[p].loaded, Steps(p)[i])
    BY DEF ProcessInv, Current, Took
  <1>3. Steps(p)[n] \in Checks => ~Mistaken(run[p].loaded, Steps(p)[n])
    BY DEF Took
  <1>4. \A i \in 1 .. n : i = n \/ i \in 1 .. n - 1
    BY <1>1
  <1>5. \A i \in 1 .. n : Steps(p)[i] \in Checks => ~Mistaken(run[p].loaded, Steps(p)[i])
    BY <1>2, <1>3, <1>4, Zenon
  <1>6. \A k \in Range(Steps(p)) : \E i \in 1 .. n : k = Steps(p)[i]
    BY <1>1 DEF Range
  <1>7. Passes(Script(p), run[p].loaded)
    BY <1>1, <1>5, <1>6 DEF Passes, Mistaken
  <1>8. ASSUME IsGate(p), NEW a \in DOMAIN disk, a[1] = Script(p)
        PROVE  Vouched(p, a)' /\ (a \in run'[p].written => disk'[a] = run[p].loaded)
    <2>1. a = <<Script(p), a[2]>> /\ a[2] \in Range(Steps(p))
      BY <1>1, <1>8, ReceiptNames DEF GateType
    <2>2. PICK i \in 1 .. n : a = <<Script(p), Steps(p)[i]>>
      BY <1>6, <2>1
    <2>3. CASE a = <<Script(p), Steps(p)[n]>>
      <3>1. disk'[a] = run[p].loaded
        BY <1>8, <2>3 DEF Took
      <3> QED
        BY <1>8, <2>3, <3>1, TookVouched
    <2>4. CASE a # <<Script(p), Steps(p)[n]>>
      <3>1. i \in 1 .. n - 1
        BY <1>4, <2>2, <2>4
      <3>2. Vouched(p, a) /\ (a \in run[p].written => disk[a] = run[p].loaded)
        BY <1>8, <2>2, <3>1 DEF ProcessInv, Current, Took
      <3>3. Vouched(p, a)'
        BY <1>8, <3>2, TookVouched
      <3>4. disk'[a] = disk[a] /\ (a \in run'[p].written => a \in run[p].written)
        BY <1>8, <2>4 DEF Took
      <3> QED
        BY <3>2, <3>3, <3>4
    <2> QED
      BY <2>3, <2>4
  <1> QED
    BY <1>7, <1>8

LEMMA TookKeepsCurrent ==
    ASSUME GateType, NEW p \in Process, ProcessInv(p), Beside(p, p), Took(p)
    PROVE  Current(p)'
  <1> SUFFICES ASSUME Loaded(p)'
               PROVE  /\ run'[p].step <= Len(Steps(p)')
                      /\ DOMAIN run'[p].loaded = Inputs(Script(p)')
                      /\ \A i \in 1 .. run'[p].step - 1 :
                            Steps(p)'[i] \in Checks => ~Mistaken(run'[p].loaded, Steps(p)'[i])
                      /\ IsGate(p)' =>
                           \A i \in 1 .. run'[p].step - 1 :
                              <<Script(p)', Steps(p)'[i]>> \in DOMAIN disk' =>
                                 /\ Vouched(p, <<Script(p), Steps(p)[i]>>)'
                                 /\ <<Script(p)', Steps(p)'[i]>> \in run'[p].written =>
                                       disk'[<<Script(p)', Steps(p)'[i]>>] = run'[p].loaded
    BY DEF Current
  <1>1. /\ run[p].step < Len(Steps(p)) /\ run'[p].step = run[p].step + 1
        /\ run'[p].todo = run[p].todo /\ run'[p].loaded = run[p].loaded
        /\ IsGate(p)' = IsGate(p)
    BY TookFields DEF Took, Loaded
  <1>2. Script(p)' = Script(p) /\ Steps(p)' = Steps(p)
    BY <1>1 DEF Script, Steps
  <1>3. run[p].step \in 1 .. Len(Steps(p)) /\ Len(Steps(p)) \in Nat
    BY ScriptKnown, TookFields
  <1>4. /\ Loaded(p)
        /\ Steps(p)[run[p].step] \in Checks => ~Mistaken(run[p].loaded, Steps(p)[run[p].step])
    BY DEF Took
  <1>5. \A i \in 1 .. run'[p].step - 1 : i = run[p].step \/ i \in 1 .. run[p].step - 1
    BY <1>1, <1>3
  <1>6. \A i \in 1 .. run[p].step - 1 :
           Steps(p)[i] \in Checks => ~Mistaken(run[p].loaded, Steps(p)[i])
    BY <1>4 DEF ProcessInv, Current
  <1>7. \A i \in 1 .. run'[p].step - 1 :
           Steps(p)'[i] \in Checks => ~Mistaken(run'[p].loaded, Steps(p)'[i])
    BY <1>1, <1>2, <1>4, <1>5, <1>6, Zenon
  <1>8. ASSUME IsGate(p), NEW i \in 1 .. run'[p].step - 1,
               NEW a \in DOMAIN disk, a = <<Script(p), Steps(p)[i]>>
        PROVE  Vouched(p, a)' /\ (a \in run'[p].written => disk'[a] = run[p].loaded)
    <2>1. CASE a = <<Script(p), Steps(p)[run[p].step]>>
      <3>1. disk'[a] = run[p].loaded
        BY <2>1 DEF Took
      <3> QED
        BY <1>8, <2>1, <3>1, TookVouched
    <2>2. CASE a # <<Script(p), Steps(p)[run[p].step]>>
      <3>1. Vouched(p, a) /\ (a \in run[p].written => disk[a] = run[p].loaded)
        BY <1>4, <1>5, <1>8, <2>2 DEF ProcessInv, Current
      <3>2. Vouched(p, a)'
        BY <1>8, <3>1, TookVouched
      <3>3. disk'[a] = disk[a] /\ (a \in run'[p].written => a \in run[p].written)
        BY <2>2 DEF Took
      <3> QED
        BY <3>1, <3>2, <3>3
    <2> QED
      BY <2>1, <2>2
  <1>9. DOMAIN run[p].loaded = Inputs(Script(p))
    BY <1>4 DEF ProcessInv, Current
  <1>10. run'[p].step <= Len(Steps(p)')
    BY <1>1, <1>2, <1>3
  <1>11. ASSUME IsGate(p)', NEW i \in 1 .. run'[p].step - 1,
                <<Script(p)', Steps(p)'[i]>> \in DOMAIN disk'
         PROVE  /\ Vouched(p, <<Script(p), Steps(p)[i]>>)'
                /\ <<Script(p)', Steps(p)'[i]>> \in run'[p].written =>
                      disk'[<<Script(p)', Steps(p)'[i]>>] = run'[p].loaded
    <2>1. PICK a : a = <<Script(p), Steps(p)[i]>>
      OBVIOUS
    <2>2. a = <<Script(p)', Steps(p)'[i]>> /\ a \in DOMAIN disk
      BY <1>2, <1>11, <2>1 DEF Took
    <2>3. Vouched(p, a)' /\ (a \in run'[p].written => disk'[a] = run[p].loaded)
      BY <1>1, <1>8, <1>11, <2>1, <2>2
    <2> QED
      BY <1>1, <2>2, <2>3
  <1> QED
    BY <1>1, <1>2, <1>7, <1>9, <1>10, <1>11

LEMMA TookKeepsProgress ==
    ASSUME GateType, NEW p \in Process, ProcessInv(p), Beside(p, p), Took(p)
    PROVE  Progress(p)'
  <1>1. /\ IsGate(p)' = IsGate(p) /\ run'[p].clean = run[p].clean
        /\ \/ run'[p].todo = run[p].todo
           \/ run[p].step = Len(Steps(p)) /\ run'[p].todo = Tail(run[p].todo)
    BY TookFields, ScriptKnown DEF Took
  <1>2. Gated' = Gated /\ DOMAIN disk' = DOMAIN disk /\ \A s : Now(s)' = Now(s)
    BY LabFixed, Unedited DEF Took
  <1>3. IsGate(p) /\ run[p].clean => run[p].loaded = Now(Script(p))
    BY DEF Beside, Took
  <1>4. ASSUME IsGate(p), NEW s, s # Script(p), Done(p, s) PROVE Done(p, s)'
    <2>1. ASSUME NEW a \in DOMAIN disk, a[1] = s
          PROVE  Vouched(p, a)' /\ (a \in run'[p].written => Passes(s, disk'[a]))
      <3>1. Vouched(p, a) /\ (a \in run[p].written => Passes(s, disk[a]))
        BY <1>4, <2>1 DEF Done
      <3>2. Vouched(p, a)'
        BY <1>4, <3>1, TookVouched
      <3>3. a # <<Script(p), Steps(p)[run[p].step]>>
        BY <1>4, <2>1
      <3>4. disk'[a] = disk[a] /\ (a \in run'[p].written => a \in run[p].written)
        BY <3>3 DEF Took
      <3> QED
        BY <3>1, <3>2, <3>4
    <2>2. run'[p].clean => Passes(s, Now(s)')
      BY <1>1, <1>2, <1>4 DEF Done
    <2> QED
      BY <1>2, <2>1, <2>2, Zenon DEF Done, Passes
  <1>5. ASSUME IsGate(p), run[p].step = Len(Steps(p)), NEW s, s = Script(p) PROVE Done(p, s)'
    <2>1. /\ Passes(Script(p), run[p].loaded)
          /\ \A a \in DOMAIN disk : a[1] = Script(p) =>
                Vouched(p, a)' /\ (a \in run'[p].written => disk'[a] = run[p].loaded)
      BY <1>5, ScriptEnds
    <2>2. \A a \in DOMAIN disk : a[1] = s =>
             Vouched(p, a)' /\ (a \in run'[p].written => Passes(s, disk'[a]))
      BY <1>5, <2>1
    <2>3. run'[p].clean => Passes(s, Now(s)')
      BY <1>1, <1>2, <1>3, <1>5, <2>1
    <2> QED
      BY <1>2, <2>2, <2>3, Zenon DEF Done, Passes
  <1>6. ASSUME IsGate(p), NEW s \in Range(Gated) PROVE s \in ToSet(run'[p].todo) \/ Done(p, s)'
    <2>1. s \in ToSet(run[p].todo) \/ Done(p, s)
      BY <1>6 DEF ProcessInv, Progress
    <2>2. /\ Script(p) \in ToSet(run[p].todo)
          /\ s \in ToSet(run[p].todo) => s = Script(p) \/ s \in ToSet(Tail(run[p].todo))
      BY ScriptKnown, TookFields
    <2>3. CASE run'[p].todo = run[p].todo
      <3>1. s = Script(p) => s \in ToSet(run'[p].todo)
        BY <2>2, <2>3
      <3> QED
        BY <1>4, <1>6, <2>1, <2>3, <3>1
    <2>4. CASE run[p].step = Len(Steps(p)) /\ run'[p].todo = Tail(run[p].todo)
      <3>1. s = Script(p) => Done(p, s)'
        BY <1>5, <1>6, <2>4
      <3> QED
        BY <1>4, <1>6, <2>1, <2>2, <2>4, <3>1
    <2> QED
      BY <1>1, <2>3, <2>4
  <1> QED
    BY <1>1, <1>2, <1>6 DEF Progress

LEMMA TookKeeps ==
    ASSUME GateType, NEW p \in Process, ProcessInv(p), Beside(p, p), Took(p)
    PROVE  ProcessInv(p)' /\ StillGate(p) /\ StillLoaded(p)
  <1>1. /\ run'[p].mode = run[p].mode /\ run'[p].clean = run[p].clean
        /\ run'[p].underway = run[p].underway /\ run'[p].beside = run[p].beside
        /\ IsGate(p)' = IsGate(p) /\ run[p].todo # <<>>
    BY TookFields
  <1>2. run[p].mode \in {"hand", "gate"}
    BY <1>1 DEF ProcessInv, ProcessType, Reading
  <1>3. ProcessType(run[p])'
    <2>1. Receipts' = Receipts
      BY LabFixed DEF Took
    <2>2. run'[p].todo \in Seq(Range(lab'.scripts)) /\ run'[p].step \in Nat
      BY <1>1, ScriptKnown DEF Took, ProcessInv, ProcessType
    <2>3. run'[p].written \subseteq Receipts
      BY DEF Took, ProcessInv, ProcessType, GateType
    <2> QED
      BY <1>1, <1>2, <2>1, <2>2, <2>3 DEF ProcessInv, ProcessType, Took, Reading
  <1>4. Drafted(p)'
    BY <1>1, <1>2 DEF Drafted
  <1>5. StillGate(p)
    BY <1>1 DEF StillGate
  <1>6. StillLoaded(p)
    BY DEF StillLoaded, Took, Loaded, Script
  <1> QED
    BY <1>3, <1>4, <1>5, <1>6, TookKeepsCurrent, TookKeepsProgress DEF ProcessInv

-------------------------------------------------------------------------------
(* The actions of the processes, one by one. *)

LEMMA SameGate ==
    ASSUME GateInv, lab' = lab, content' = content, run' = run, disk' = disk,
           ledger' = ledger, report' = report
    PROVE  GateInv'
  <1>1. \A q \in Process : Aside(q)
    BY DEF GateInv, ProcessInv, ProcessType, Aside
  <1>2. GateType'
    BY TypeKeeps DEF GateInv, GateType
  <1>3. \A q \in Process : ProcessInv(q)'
    BY <1>1, AsideKeeps DEF GateInv
  <1>4. \A q, r \in Process : Beside(q, r)'
    BY <1>1, AsideStill, BesideKeeps DEF GateInv
  <1> QED
    BY <1>2, <1>3, <1>4, SameReport, SameLedger DEF GateInv

LEMMA OverFields ==
    ASSUME NEW r
    PROVE  LET n == Over(r)
           IN  /\ DOMAIN n = Fields /\ n.mode \in {"idle", "ended"} /\ n.todo = <<>>
               /\ n.step = 0 /\ n.written = {} /\ n.underway = {} /\ n.book = Nothing
  BY DEF Over, Idle, Fields

\* Whatever ends a process leaves the files in order.
LEMMA OverKeeps ==
    ASSUME GateInv, NEW p \in Process, Becomes(p, Over(run[p])), lab' = lab,
           content' = content, disk' = disk, ledger' = ledger, Reported'
    PROVE  GateInv'
  <1>1. PICK n : n = Over(run[p])
    OBVIOUS
  <1>2. /\ DOMAIN run' = Process /\ run'[p] = n
        /\ \A q \in Process \ {p} : run'[q] = run[q] /\ Aside(q)
    BY <1>1, OthersAside
  <1>3. /\ DOMAIN n = Fields /\ n.mode \in {"idle", "ended"} /\ n.todo = <<>>
        /\ n.step = 0 /\ n.written = {} /\ n.underway = {} /\ n.book = Nothing
    BY <1>1, OverFields
  <1>4. ProcessInv(p)'
    BY <1>2, <1>3, LabFixed
       DEF ProcessInv, ProcessType, Current, Progress, Drafted, Loaded, IsGate, Reading
  <1>5. StillGate(p) /\ StillLoaded(p)
    BY <1>2, <1>3 DEF StillGate, StillLoaded, IsGate, Loaded
  <1>6. LedgerIsSound'
    BY <1>2, <1>3, SameLedger DEF GateInv
  <1> QED
    BY <1>2, <1>4, <1>5, <1>6, OneMoves

LEMMA EditKeeps ==
    ASSUME GateInv, Edit
    PROVE  GateInv'
  <1>1. PICK f \in Files : \E k \in Mistakes(f) \cup {"none"} :
           content' = [content EXCEPT ![f] = [rev |-> content[f].rev + 1, mistake |-> k]]
    BY DEF Edit
  <1>2. PICK k \in Mistakes(f) \cup {"none"} :
           content' = [content EXCEPT ![f] = [rev |-> content[f].rev + 1, mistake |-> k]]
    BY <1>1
  <1>3. /\ run' = [p \in Process |-> [run[p] EXCEPT !.clean = ~IsGate(p)]] /\ lab' = lab
        /\ disk' = disk /\ ledger' = ledger /\ report' = report
    BY DEF Edit
  <1>4. /\ Files' = Files /\ Receipts' = Receipts /\ \A g : Mistakes(g)' = Mistakes(g)
        /\ Gated' = Gated
    BY <1>3, LabFixed
  <1>5. ASSUME NEW p \in Process
        PROVE  /\ DOMAIN run'[p] = Fields
               /\ \A x \in Fields \ {"clean"} : run'[p][x] = run[p][x]
               /\ IsGate(p) => ~run'[p].clean
    <2>1. DOMAIN run[p] = Fields /\ "clean" \in Fields
      BY DEF GateInv, ProcessInv, ProcessType, Fields
    <2>2. run'[p] = [run[p] EXCEPT !["clean"] = ~IsGate(p)]
      BY <1>3
    <2> QED
      BY <2>1, <2>2
  <1>6. ASSUME NEW p \in Process
        PROVE  /\ run'[p].mode = run[p].mode /\ run'[p].todo = run[p].todo
               /\ run'[p].step = run[p].step /\ run'[p].loaded = run[p].loaded
               /\ run'[p].book = run[p].book /\ run'[p].draft = run[p].draft
               /\ run'[p].written = run[p].written /\ run'[p].underway = run[p].underway
               /\ run'[p].beside = run[p].beside
               /\ IsGate(p)' = IsGate(p) /\ Loaded(p)' = Loaded(p)
               /\ Script(p)' = Script(p) /\ Steps(p)' = Steps(p)
    <2>1. /\ run'[p].mode = run[p].mode /\ run'[p].todo = run[p].todo
          /\ run'[p].step = run[p].step /\ run'[p].loaded = run[p].loaded
          /\ run'[p].book = run[p].book /\ run'[p].draft = run[p].draft
          /\ run'[p].written = run[p].written /\ run'[p].underway = run[p].underway
          /\ run'[p].beside = run[p].beside
      BY <1>5 DEF Fields
    <2> QED
      BY <2>1 DEF IsGate, Loaded, Script, Steps
  <1>7. GateType'
    <2>1. /\ DOMAIN content = Files
          /\ \A g \in Files : content[g].mistake \in Mistakes(g) \cup {"none", "probe"}
      BY DEF GateInv, GateType
    <2>2. content'[f].mistake = k /\ \A g \in Files \ {f} : content'[g] = content[g]
      BY <1>2, <2>1
    <2>3. \A g \in Files : content'[g].mistake \in Mistakes(g) \cup {"none", "probe"}
      BY <2>1, <2>2
    <2>4. DOMAIN content' = Files
      BY <1>2, <2>1
    <2> QED
      BY <1>3, <1>4, <2>3, <2>4 DEF GateInv, GateType
  <1>8. ASSUME NEW p \in Process PROVE ProcessInv(p)'
    <2>1. ProcessType(run[p])'
      BY <1>3, <1>4, <1>5, <1>6 DEF GateInv, ProcessInv, ProcessType
    <2>2. IsGate(p) => ~run'[p].clean
      BY <1>5
    <2>3. \A a : IsGate(p) /\ (a \in run[p].written \/ a[1] \in run[p].beside) => Vouched(p, a)'
      BY <1>6, <2>2 DEF Vouched
    <2>4. Current(p)'
      <3>1. ASSUME Loaded(p)
            PROVE  /\ run[p].step <= Len(Steps(p)) /\ DOMAIN run[p].loaded = Inputs(Script(p))
                   /\ \A i \in 1 .. run[p].step - 1 :
                         Steps(p)[i] \in Checks => ~Mistaken(run[p].loaded, Steps(p)[i])
        BY <3>1 DEF GateInv, ProcessInv, Current
      <3>2. ASSUME Loaded(p), IsGate(p), NEW i \in 1 .. run[p].step - 1,
                   <<Script(p), Steps(p)[i]>> \in DOMAIN disk
            PROVE  /\ Vouched(p, <<Script(p), Steps(p)[i]>>)'
                   /\ <<Script(p), Steps(p)[i]>> \in run'[p].written =>
                         disk'[<<Script(p), Steps(p)[i]>>] = run[p].loaded
        <4>1. PICK a \in DOMAIN disk : a = <<Script(p), Steps(p)[i]>>
          BY <3>2
        <4>2. Vouched(p, a) /\ (a \in run[p].written => disk[a] = run[p].loaded)
          BY <3>2, <4>1 DEF GateInv, ProcessInv, Current
        <4>3. Vouched(p, a)'
          BY <2>3, <3>2, <4>2 DEF Vouched
        <4>4. a = <<Script(p)', Steps(p)'[i]>>
          BY <1>6, <4>1
        <4> QED
          BY <1>3, <1>6, <4>1, <4>2, <4>3, <4>4
      <3>3. /\ run'[p].step = run[p].step /\ run'[p].loaded = run[p].loaded
            /\ IsGate(p)' = IsGate(p) /\ Loaded(p)' = Loaded(p)
            /\ Script(p)' = Script(p) /\ Steps(p)' = Steps(p)
            /\ DOMAIN disk' = DOMAIN disk
        BY <1>3, <1>6
      <3> QED
        BY <3>1, <3>2, <3>3, Zenon DEF Current, Mistaken
    <2>5. Progress(p)'
      <3>1. ASSUME IsGate(p), NEW s, Done(p, s) PROVE Done(p, s)'
        <4>1. \A a \in DOMAIN disk : a[1] = s =>
                 Vouched(p, a)' /\ (a \in run[p].written => Passes(s, disk[a]))
          BY <2>3, <3>1 DEF Done, Vouched
        <4> QED
          BY <1>3, <1>6, <2>2, <3>1, <4>1, Zenon DEF Done, Passes
      <3> QED
        BY <1>4, <1>6, <3>1 DEF GateInv, ProcessInv, Progress
    <2>6. Drafted(p)'
      <3>1. ASSUME run[p].mode \in {"citing", "publishing"}
            PROVE  ReportOK(run[p].draft, run[p].clean)' /\ ReportOK(run[p].draft, FALSE)
        <4>1. ReportOK(run[p].draft, run[p].clean)
          BY <3>1 DEF GateInv, ProcessInv, Drafted
        <4>2. ReportOK(run[p].draft, FALSE)
          BY <4>1 DEF ReportOK
        <4>3. run'[p].draft = run[p].draft /\ ~run'[p].clean
          BY <1>6, <2>2, <3>1 DEF IsGate
        <4>4. PICK d : d = run[p].draft
          OBVIOUS
        <4>5. ReportOK(d, FALSE)'
          BY <1>3, <4>2, <4>4, ReportStays
        <4> QED
          BY <4>2, <4>3, <4>4, <4>5 DEF ReportOK
      <3>2. run[p].mode = "hashing" => ~run'[p].clean
        BY <2>2 DEF IsGate
      <3>3. run[p].mode = "publishing" => EvidenceOK(run[p].draft.native)'
        <4>1. PICK m : m = run[p].draft.native
          OBVIOUS
        <4>2. run'[p].draft = run[p].draft
          BY <1>6
        <4> QED
          BY <1>3, <4>1, <4>2, EvidenceStays DEF GateInv, ProcessInv, Drafted
      <3> QED
        BY <1>6, <3>1, <3>2, <3>3 DEF Drafted
    <2> QED
      BY <2>1, <2>4, <2>5, <2>6 DEF ProcessInv
  <1>9. \A p, q \in Process : Beside(p, q)'
    BY <1>5, <1>6 DEF GateInv, Beside
  <1>10. LedgerIsSound'
    BY <1>3, <1>6, SameLedger DEF GateInv
  <1>11. Reported'
    BY <1>3, SameReport DEF GateInv
  <1> QED
    BY <1>7, <1>8, <1>9, <1>10, <1>11 DEF GateInv

LEMMA CrashKeeps ==
    ASSUME GateInv, Crash
    PROVE  GateInv'
  <1>1. /\ lab' = lab /\ content' = content /\ disk' = disk
        /\ ledger' = ledger /\ report' = report
        /\ run' = run \/ \E p \in Process : Becomes(p, Over(run[p]))
    BY DEF Crash
  <1> QED
    BY <1>1, SameGate, OverKeeps, SameReport DEF GateInv

LEMMA StartGateKeeps ==
    ASSUME GateInv, NEW p \in Process, StartGate(p)
    PROVE  GateInv'
  <1> DEFINE n == [Idle EXCEPT !.mode = "gate", !.todo = Gated,
                               !.underway = Underway(p), !.beside = Underway(p)]
  <1>1. /\ Becomes(p, n) /\ lab' = lab /\ content' = content
        /\ disk' = disk /\ ledger' = ledger /\ report' = report
    BY DEF StartGate, outside
  <1>2. /\ DOMAIN n = Fields /\ n.mode = "gate" /\ n.todo = Gated /\ n.step = 0
        /\ n.written = {} /\ n.underway = Underway(p) /\ n.beside = Underway(p)
        /\ n.book = Nothing
    BY DEF Idle, Fields
  <1> HIDE DEF n
  <1>3. /\ DOMAIN run' = Process /\ run'[p] = n
        /\ \A q \in Process \ {p} : run'[q] = run[q] /\ Aside(q)
    BY <1>1, OthersAside
  <1>4. Gated \in Seq(Range(lab.scripts)) /\ Gated' = Gated /\ Receipts' = Receipts
    BY <1>1, LabKnown, LabFixed DEF GateInv
  <1>5. IsGate(p)' /\ ~Loaded(p)'
    BY <1>2, <1>3 DEF IsGate, Loaded
  <1>6. ProcessInv(p)'
    <2>1. ProcessType(run[p])'
      BY <1>1, <1>2, <1>3, <1>4 DEF ProcessType, Reading
    <2>2. Range(Gated) = ToSet(Gated)
      BY DEF Range, ToSet
    <2>3. Progress(p)'
      BY <1>2, <1>3, <1>4, <2>2 DEF Progress
    <2>4. Current(p)' /\ Drafted(p)'
      BY <1>2, <1>3, <1>5 DEF Current, Drafted
    <2> QED
      BY <2>1, <2>3, <2>4 DEF ProcessInv
  <1>7. \A q \in Process : ProcessInv(q)'
    BY <1>1, <1>3, <1>6, AsideKeeps DEF GateInv
  <1>8. \A q \in Process \ {p} : StillGate(q) /\ StillLoaded(q)
    BY <1>3, AsideStill
  <1>9. ASSUME NEW g \in Process, NEW q \in Process PROVE Beside(g, q)'
    <2>1. CASE g # p /\ q # p
      BY <1>1, <1>8, <2>1, BesideKeeps DEF GateInv
    <2>2. CASE q = p
      BY <1>5, <2>2 DEF Beside
    <2>3. CASE g = p /\ q # p
      <3>1. run'[q] = run[q] /\ Script(q)' = Script(q) /\ Loaded(q)' = Loaded(q)
        BY <1>3, <2>3 DEF Script, Loaded
      <3>2. Loaded(q) => Script(q) \in Underway(p)
        BY <2>3 DEF Underway
      <3> QED
        BY <1>2, <1>3, <2>3, <3>1, <3>2 DEF Beside
    <2> QED
      BY <2>1, <2>2, <2>3
  <1>10. GateType'
    BY <1>1, <1>3, TypeKeeps DEF GateInv
  <1>11. LedgerIsSound'
    BY <1>1, <1>2, <1>3, SameLedger DEF GateInv
  <1> QED
    BY <1>1, <1>7, <1>9, <1>10, <1>11, SameReport DEF GateInv

LEMMA RunByHandKeeps ==
    ASSUME GateInv, NEW p \in Process, RunByHand(p)
    PROVE  GateInv'
  <1>1. PICK s \in Range(lab.scripts) :
           Becomes(p, [Idle EXCEPT !.mode = "hand", !.todo = <<s>>])
    BY DEF RunByHand
  <1> DEFINE n == [Idle EXCEPT !.mode = "hand", !.todo = <<s>>]
  <1>2. /\ Becomes(p, n) /\ lab' = lab /\ content' = content /\ disk' = disk
        /\ ledger' = ledger /\ report' = report
    BY <1>1 DEF RunByHand, outside
  <1>3. /\ DOMAIN n = Fields /\ n.mode = "hand" /\ n.todo = <<s>> /\ n.step = 0
        /\ n.written = {} /\ n.underway = {} /\ n.book = Nothing
    BY DEF Idle, Fields
  <1> HIDE DEF n
  <1>4. /\ DOMAIN run' = Process /\ run'[p] = n
        /\ \A q \in Process \ {p} : run'[q] = run[q] /\ Aside(q)
    BY <1>2, OthersAside
  <1>5. ~IsGate(p)' /\ ~Loaded(p)'
    BY <1>3, <1>4 DEF IsGate, Loaded
  <1>6. ProcessInv(p)'
    <2>1. <<s>> \in Seq(Range(lab.scripts))
      OBVIOUS
    <2>2. run'[p].todo \in Seq(Range(lab'.scripts))
      BY <1>2, <1>3, <1>4, <2>1
    <2>3. ProcessType(run[p])'
      BY <1>3, <1>4, <2>2 DEF ProcessType, Reading
    <2> QED
      BY <1>3, <1>4, <1>5, <2>3 DEF ProcessInv, Current, Progress, Drafted
  <1>7. StillGate(p) /\ StillLoaded(p)
    BY <1>5 DEF StillGate, StillLoaded
  <1>8. LedgerIsSound'
    BY <1>2, <1>3, <1>4, SameLedger DEF GateInv
  <1> QED
    BY <1>2, <1>4, <1>6, <1>7, <1>8, OneMoves, SameReport DEF GateInv

\* Whoever loads a script, every gate beside it knows.
LEMMA LoadKeeps ==
    ASSUME GateInv, NEW p \in Process, Load(p)
    PROVE  GateInv'
  <1>1. /\ run[p].todo # <<>> /\ run[p].step = 0
        /\ run' = [q \in Process |->
             IF q = p THEN [run[p] EXCEPT !.step = 1, !.loaded = Snapshot(Inputs(Script(p)))]
             ELSE IF IsGate(q) THEN [run[q] EXCEPT !.beside = @ \cup {Script(p)}]
             ELSE run[q]]
        /\ lab' = lab /\ content' = content /\ disk' = disk
        /\ ledger' = ledger /\ report' = report
    BY DEF Load, outside
  <1>2. \A q \in Process : DOMAIN run[q] = Fields
    BY DEF GateInv, ProcessInv, ProcessType
  <1>3. {"step", "loaded", "beside"} \subseteq Fields
    BY DEF Fields
  <1>4. /\ DOMAIN run'[p] = Fields /\ run'[p].step = 1 /\ run'[p].loaded = Now(Script(p))
        /\ \A x \in Fields \ {"step", "loaded"} : run'[p][x] = run[p][x]
    <2>1. run'[p] = [run[p] EXCEPT !["step"] = 1, !["loaded"] = Now(Script(p))]
      BY <1>1 DEF Now
    <2> QED
      BY <1>2, <1>3, <2>1
  <1>5. /\ run'[p].mode = run[p].mode /\ run'[p].todo = run[p].todo
        /\ run'[p].draft = run[p].draft /\ run'[p].book = run[p].book
        /\ run'[p].clean = run[p].clean /\ run'[p].written = run[p].written
        /\ run'[p].underway = run[p].underway /\ run'[p].beside = run[p].beside
    BY <1>4 DEF Fields
  <1>6. /\ IsGate(p)' = IsGate(p) /\ Script(p)' = Script(p) /\ Steps(p)' = Steps(p)
        /\ Loaded(p)'
    BY <1>1, <1>4, <1>5 DEF IsGate, Script, Steps, Loaded
  <1>7. ASSUME NEW q \in Process \ {p}
        PROVE  /\ DOMAIN run'[q] = Fields
               /\ \A x \in Fields \ {"beside"} : run'[q][x] = run[q][x]
               /\ run[q].beside \subseteq run'[q].beside
               /\ IsGate(q) => Script(p) \in run'[q].beside
    <2>1. CASE IsGate(q)
      <3>1. run'[q] = [run[q] EXCEPT !["beside"] = run[q].beside \cup {Script(p)}]
        BY <1>1, <2>1
      <3> QED
        BY <1>2, <1>3, <3>1
    <2>2. CASE ~IsGate(q)
      BY <1>1, <1>2, <2>2
    <2> QED
      BY <2>1, <2>2
  <1>8. ASSUME NEW q \in Process \ {p} PROVE Aside(q)
    <2>1. run'[q].written = run[q].written
      BY <1>7 DEF Fields
    <2> QED
      BY <1>1, <1>7, <2>1 DEF Aside
  <1>9. Gated' = Gated /\ Receipts' = Receipts /\ \A s : Now(s)' = Now(s)
    BY <1>1, LabFixed, Unedited
  <1>10. ProcessInv(p)'
    <2>1. ProcessType(run[p])'
      BY <1>1, <1>4, <1>5, <1>9 DEF GateInv, ProcessInv, ProcessType
    <2>2. Current(p)'
      <3>1. StepsOK(Verifier[Script(p)]) /\ Steps(p) = Verifier[Script(p)].steps
        BY <1>1, ScriptKnown DEF GateInv
      <3>2. 1 <= Len(Steps(p))
        BY <3>1 DEF StepsOK
      <3>3. DOMAIN Now(Script(p)) = Inputs(Script(p))
        BY DEF Now, Snapshot
      <3> QED
        BY <1>4, <1>6, <3>2, <3>3 DEF Current
    <2>3. \A a : Vouched(p, a) => Vouched(p, a)'
      BY <1>1, <1>5, <1>9 DEF Vouched
    <2>4. \A s : Done(p, s) => Done(p, s)'
      BY <1>1, <1>5, <1>9, <2>3, Zenon DEF Done, Passes
    <2>5. Progress(p)'
      BY <1>5, <1>6, <1>9, <2>4 DEF GateInv, ProcessInv, Progress
    <2>6. Drafted(p)'
      <3>1. run[p].mode \notin Reading
        BY <1>1 DEF GateInv, ProcessInv, ProcessType
      <3> QED
        BY <1>5, <3>1 DEF Drafted, Reading
    <2> QED
      BY <2>1, <2>2, <2>5, <2>6 DEF ProcessInv
  <1>11. \A q \in Process : ProcessInv(q)'
    BY <1>1, <1>8, <1>10, AsideKeeps DEF GateInv
  <1>12. \A q \in Process : StillGate(q)
    <2>1. StillGate(p)
      BY <1>5, <1>6 DEF StillGate
    <2> QED
      BY <1>8, <2>1, AsideStill
  <1>13. ASSUME NEW g \in Process, NEW q \in Process PROVE Beside(g, q)'
    <2>1. CASE q # p
      BY <1>1, <1>8, <1>12, <2>1, AsideStill, BesideKeeps DEF GateInv
    <2>2. CASE q = p
      <3>1. Now(Script(p))' = Now(Script(p))
        BY <1>1, <1>6 DEF Now, Snapshot
      <3>2. g # p /\ IsGate(g)' => Script(p) \in run'[g].beside
        BY <1>7, <1>12 DEF StillGate
      <3> QED
        BY <1>4, <1>6, <2>2, <3>1, <3>2 DEF Beside
    <2> QED
      BY <2>1, <2>2
  <1>14. DOMAIN run' = Process
    BY <1>1
  <1>15. GateType'
    BY <1>1, <1>14, TypeKeeps DEF GateInv
  <1>16. \A q \in Process : run'[q].book = run[q].book
    BY <1>5, <1>7 DEF Fields
  <1>17. LedgerIsSound'
    BY <1>1, <1>16, SameLedger DEF GateInv
  <1> QED
    BY <1>1, <1>11, <1>13, <1>15, <1>17, SameReport DEF GateInv

LEMMA NoSuchReceipt ==
    ASSUME GateType, NEW s, NEW k \in Checks \cup {"noted", "ledger"}
    PROVE  <<s, k>> \notin DOMAIN disk
  <1>1. ASSUME <<s, k>> \in Receipts PROVE FALSE
    BY <1>1, ReceiptNames
  <1> QED
    BY <1>1 DEF GateType

LEMMA CheckKeeps ==
    ASSUME GateInv, NEW p \in Process, Check(p)
    PROVE  GateInv'
  <1> DEFINE k == Steps(p)[run[p].step]
  <1>1. /\ Loaded(p) /\ k \in Checks \cup {"noted"}
        /\ Becomes(p, IF k \in Checks /\ Mistaken(run[p].loaded, k)
                        THEN Over(run[p]) ELSE Advanced(run[p]))
        /\ lab' = lab /\ content' = content /\ disk' = disk
        /\ ledger' = ledger /\ report' = report
    BY DEF Check, Running, Failed, outside
  <1>2. CASE k \in Checks /\ Mistaken(run[p].loaded, k)
    BY <1>1, <1>2, OverKeeps, SameReport DEF GateInv
  <1>3. CASE ~(k \in Checks /\ Mistaken(run[p].loaded, k))
    <2>1. PICK n : n = Advanced(run[p])
      OBVIOUS
    <2>2. /\ DOMAIN run' = Process /\ run'[p] = n
          /\ \A q \in Process \ {p} : run'[q] = run[q] /\ Aside(q)
      BY <1>1, <1>3, <2>1, OthersAside
    <2>3. DOMAIN run[p] = Fields
      BY DEF GateInv, ProcessInv, ProcessType
    <2>4. /\ DOMAIN n = Fields
          /\ \A x \in Fields \ {"todo", "step", "loaded", "book"} : n[x] = run[p][x]
          /\ n.book \in {run[p].book, Nothing}
          /\ \/ /\ run[p].step < Len(Steps(p)) /\ n.step = run[p].step + 1
                /\ n.todo = run[p].todo /\ n.loaded = run[p].loaded
             \/ /\ ~(run[p].step < Len(Steps(p))) /\ n.step = 0 /\ n.todo = Tail(run[p].todo)
      BY <2>1, <2>3, AdvancedFields DEF Steps, Script
    <2>5. <<Script(p), k>> \notin DOMAIN disk
      BY <1>1, NoSuchReceipt DEF GateInv
    <2>6. n.written = run[p].written
      BY <2>4 DEF Fields
    <2>7. run[p].step \in Nat /\ Len(Steps(p)) \in Nat
      BY <1>1, ScriptKnown DEF GateInv, ProcessInv, ProcessType, Loaded
    <2>8. Took(p)
      BY <1>1, <1>3, <2>2, <2>4, <2>5, <2>6, <2>7 DEF Took
    <2>9. ProcessInv(p)' /\ StillGate(p) /\ StillLoaded(p)
      BY <2>8, TookKeeps DEF GateInv
    <2>10. LedgerIsSound'
      BY <1>1, <2>2, <2>4, SameLedger DEF GateInv
    <2> QED
      BY <1>1, <2>2, <2>9, <2>10, OneMoves, SameReport DEF GateInv
  <1> QED
    BY <1>2, <1>3

\* A receipt is written over whatever is there: gates beside lose it, and know its script.
LEMMA WriteReceiptKeeps ==
    ASSUME GateInv, NEW p \in Process, WriteReceipt(p)
    PROVE  GateInv'
  <1>1. PICK a : a = <<Script(p), Steps(p)[run[p].step]>>
    OBVIOUS
  <1>2. /\ Loaded(p) /\ a \in DOMAIN disk /\ disk' = [disk EXCEPT ![a] = run[p].loaded]
        /\ run' = [q \in Process |->
                     IF q # p THEN [run[q] EXCEPT !.written = @ \ {a}]
                     ELSE IF IsGate(p) THEN Advanced([run[p] EXCEPT !.written = @ \cup {a}])
                     ELSE Advanced(run[p])]
        /\ lab' = lab /\ content' = content /\ ledger' = ledger /\ report' = report
    BY <1>1 DEF WriteReceipt, outside
  <1>3. \A q \in Process : DOMAIN run[q] = Fields
    BY DEF GateInv, ProcessInv, ProcessType
  <1>4. "written" \in Fields
    BY DEF Fields
  <1>5. ASSUME NEW q \in Process \ {p}
        PROVE  /\ DOMAIN run'[q] = Fields /\ run'[q].written = run[q].written \ {a}
               /\ \A x \in Fields \ {"written"} : run'[q][x] = run[q][x]
    <2>1. run'[q] = [run[q] EXCEPT !["written"] = run[q].written \ {a}]
      BY <1>2
    <2> QED
      BY <1>3, <1>4, <2>1
  <1>6. /\ DOMAIN disk' = DOMAIN disk /\ disk'[a] = run[p].loaded
        /\ \A b \in DOMAIN disk : b # a => disk'[b] = disk[b]
    BY <1>2
  <1>7. ASSUME NEW q \in Process \ {p} PROVE Aside(q)
    <2>1. run'[q].beside = run[q].beside
      BY <1>5 DEF Fields
    <2>2. IsGate(q) => /\ a[1] \in run[q].beside
                       /\ run[q].clean /\ a[1] \notin run[q].underway => disk'[a] = Now(a[1])
      BY <1>1, <1>2, <1>6 DEF GateInv, Beside
    <2> QED
      BY <1>5, <1>6, <2>1, <2>2 DEF Aside
  <1>8. PICK r : /\ DOMAIN r = Fields /\ run'[p] = Advanced(r)
                 /\ \A x \in Fields \ {"written"} : r[x] = run[p][x]
                 /\ r.written = IF IsGate(p) THEN run[p].written \cup {a} ELSE run[p].written
    <2>1. CASE IsGate(p)
      <3>1. PICK r : r = [run[p] EXCEPT !["written"] = run[p].written \cup {a}]
        OBVIOUS
      <3>2. run'[p] = Advanced(r)
        BY <1>2, <2>1, <3>1
      <3> QED
        BY <1>3, <1>4, <2>1, <3>1, <3>2
    <2>2. CASE ~IsGate(p)
      BY <1>2, <1>3, <2>2
    <2> QED
      BY <2>1, <2>2
  <1>9. r.todo = run[p].todo /\ r.step = run[p].step /\ r.loaded = run[p].loaded
        /\ r.book = run[p].book
    BY <1>8 DEF Fields
  <1>10. PICK n : n = Advanced(r)
    OBVIOUS
  <1>11. /\ DOMAIN n = Fields
         /\ \A x \in Fields \ {"todo", "step", "loaded", "book"} : n[x] = r[x]
         /\ n.book \in {run[p].book, Nothing}
         /\ \/ /\ run[p].step < Len(Steps(p)) /\ n.step = run[p].step + 1
               /\ n.todo = run[p].todo /\ n.loaded = run[p].loaded
            \/ /\ ~(run[p].step < Len(Steps(p))) /\ n.step = 0 /\ n.todo = Tail(run[p].todo)
    BY <1>8, <1>9, <1>10, AdvancedFields DEF Steps, Script
  <1>12. n.written = r.written
    BY <1>11 DEF Fields
  <1>13. run[p].step \in 1 .. Len(Steps(p)) /\ Len(Steps(p)) \in Nat
    BY <1>2, ScriptKnown DEF GateInv, Loaded
  <1>14. Steps(p)[run[p].step] \notin Checks
    BY <1>1, <1>2, NoSuchReceipt DEF GateInv
  <1>15. Took(p)
    <2>1. \A x \in Fields \ {"todo", "step", "loaded", "book", "written"} : n[x] = run[p][x]
      BY <1>8, <1>11
    <2>2. /\ run[p].written \subseteq n.written
          /\ n.written \subseteq run[p].written \cup ({a} \cap DOMAIN disk)
          /\ IsGate(p) => a \in n.written
      BY <1>2, <1>8, <1>12
    <2>3. run'[p] = n
      BY <1>8, <1>10
    <2>4. /\ Loaded(p) /\ a \in DOMAIN disk
          /\ lab' = lab /\ content' = content /\ report' = report
      BY <1>2
    <2>5. \/ /\ run[p].step < Len(Steps(p)) /\ n.step = run[p].step + 1
             /\ n.todo = run[p].todo /\ n.loaded = run[p].loaded
          \/ /\ run[p].step >= Len(Steps(p)) /\ n.step = 0 /\ n.todo = Tail(run[p].todo)
      BY <1>11, <1>13
    <2> QED
      BY <1>1, <1>6, <1>11, <1>14, <2>1, <2>2, <2>3, <2>4, <2>5, Zenon DEF Took
  <1>16. ProcessInv(p)' /\ StillGate(p) /\ StillLoaded(p)
    BY <1>15, TookKeeps DEF GateInv
  <1>17. \A q \in Process : run'[q].book \in {run[q].book, Nothing}
    BY <1>5, <1>8, <1>10, <1>11 DEF Fields
  <1>18. LedgerIsSound'
    BY <1>2, <1>17, SameLedger DEF GateInv
  <1>19. DOMAIN run' = Process
    BY <1>2
  <1> QED
    BY <1>2, <1>6, <1>7, <1>16, <1>18, <1>19, OneMoves, SameReport DEF GateInv

LEMMA OpenLedgerKeeps ==
    ASSUME GateInv, NEW p \in Process, OpenLedger(p)
    PROVE  GateInv'
  <1>1. PICK n : n = [run[p] EXCEPT !["book"] = ledger]
    OBVIOUS
  <1>2. /\ Becomes(p, n) /\ lab' = lab /\ content' = content /\ disk' = disk
        /\ ledger' = ledger /\ report' = report
    BY <1>1 DEF OpenLedger, outside
  <1>3. /\ DOMAIN run' = Process /\ run'[p] = n
        /\ \A q \in Process \ {p} : run'[q] = run[q] /\ Aside(q)
    BY <1>2, OthersAside
  <1>4. DOMAIN run[p] = Fields /\ "book" \in Fields
    BY DEF GateInv, ProcessInv, ProcessType, Fields
  <1>5. DOMAIN n = Fields /\ n.book = ledger /\ \A x \in Fields \ {"book"} : n[x] = run[p][x]
    BY <1>1, <1>4
  <1>6. n.written = run[p].written /\ n.beside = run[p].beside
    BY <1>5 DEF Fields
  <1>7. Aside(p)
    BY <1>2, <1>3, <1>5, <1>6 DEF Aside
  <1>8. ProcessInv(p)' /\ StillGate(p) /\ StillLoaded(p)
    BY <1>2, <1>7, AsideKeeps, AsideStill DEF GateInv
  <1>9. LedgerIsSound'
    <2>1. \A l : LedgerOK(l)' <=> LedgerOK(l)
      BY <1>2, Zenon DEF LedgerOK, Passes
    <2> QED
      BY <1>2, <1>3, <1>5, <2>1 DEF GateInv, LedgerIsSound
  <1> QED
    BY <1>2, <1>3, <1>8, <1>9, OneMoves, SameReport DEF GateInv

LEMMA SaveLedgerKeeps ==
    ASSUME GateInv, NEW p \in Process, SaveLedger(p)
    PROVE  GateInv'
  <1>1. /\ Loaded(p) /\ Steps(p)[run[p].step] = "ledger" /\ run[p].book # Nothing
        /\ Becomes(p, Advanced(run[p]))
        /\ ledger' = [run[p].book EXCEPT ![Script(p)] = run[p].loaded]
        /\ lab' = lab /\ content' = content /\ disk' = disk /\ report' = report
    BY DEF SaveLedger, Running, outside
  <1>2. PICK n : n = Advanced(run[p])
    OBVIOUS
  <1>3. /\ DOMAIN run' = Process /\ run'[p] = n
        /\ \A q \in Process \ {p} : run'[q] = run[q] /\ Aside(q)
    BY <1>1, <1>2, OthersAside
  <1>4. DOMAIN run[p] = Fields
    BY DEF GateInv, ProcessInv, ProcessType
  <1>5. /\ DOMAIN n = Fields
        /\ \A x \in Fields \ {"todo", "step", "loaded", "book"} : n[x] = run[p][x]
        /\ n.book \in {run[p].book, Nothing}
        /\ \/ /\ run[p].step < Len(Steps(p)) /\ n.step = run[p].step + 1
              /\ n.todo = run[p].todo /\ n.loaded = run[p].loaded
           \/ /\ ~(run[p].step < Len(Steps(p))) /\ n.step = 0 /\ n.todo = Tail(run[p].todo)
    BY <1>2, <1>4, AdvancedFields DEF Steps, Script
  <1>6. n.written = run[p].written
    BY <1>5 DEF Fields
  <1>7. /\ StepsOK(Verifier[Script(p)]) /\ Steps(p) = Verifier[Script(p)].steps
        /\ run[p].step \in 1 .. Len(Steps(p)) /\ Len(Steps(p)) \in Nat
        /\ Script(p) \in Range(lab.scripts)
    BY <1>1, ScriptKnown DEF GateInv, Loaded
  <1>8. run[p].step = Len(Steps(p))
    BY <1>1, <1>7 DEF StepsOK
  <1>9. Took(p)
    <2>1. <<Script(p), Steps(p)[run[p].step]>> \notin DOMAIN disk
      BY <1>1, NoSuchReceipt DEF GateInv
    <2>2. "ledger" \notin Checks
      BY DEF Checks
    <2> QED
      BY <1>1, <1>3, <1>5, <1>6, <1>7, <2>1, <2>2 DEF Took
  <1>10. ProcessInv(p)' /\ StillGate(p) /\ StillLoaded(p)
    BY <1>9, TookKeeps DEF GateInv
  <1>11. Passes(Script(p), run[p].loaded)
    BY <1>8, <1>9, ScriptEnds DEF GateInv
  <1>12. LedgerIsSound'
    <2>1. \A l : LedgerOK(l)' <=> LedgerOK(l)
      BY <1>1, Zenon DEF LedgerOK, Passes
    <2>2. LedgerOK(run[p].book)
      BY <1>1 DEF GateInv, LedgerIsSound
    <2>3. LedgerOK(ledger')
      BY <1>1, <1>7, <1>11, <2>2 DEF LedgerOK
    <2>4. PICK l : l = ledger' /\ LedgerOK(l)
      BY <2>3
    <2>5. \A q \in Process : run'[q].book = Nothing \/ LedgerOK(run'[q].book)
      BY <1>3, <1>5, <2>2 DEF GateInv, LedgerIsSound
    <2> QED
      BY <2>1, <2>4, <2>5 DEF LedgerIsSound
  <1> QED
    BY <1>1, <1>3, <1>10, <1>12, OneMoves, SameReport DEF GateInv

LEMMA HandDoneKeeps ==
    ASSUME GateInv, NEW p \in Process, HandDone(p)
    PROVE  GateInv'
  <1>1. /\ Becomes(p, Over(run[p])) /\ lab' = lab /\ content' = content /\ disk' = disk
        /\ ledger' = ledger /\ report' = report
    BY DEF HandDone, outside
  <1> QED
    BY <1>1, OverKeeps, SameReport DEF GateInv

\* When all scripts have passed on the sources there are, no check fails on any of them.
LEMMA NothingWrongIsLeft ==
    ASSUME GateType, NEW s \in Range(Gated), NEW f \in Inputs(s),
           \A t \in Range(Gated) : Passes(t, Now(t))
    PROVE  content[f].mistake \notin Checks
  <1> SUFFICES ASSUME content[f].mistake \in Checks PROVE FALSE
    OBVIOUS
  <1> DEFINE k == content[f].mistake
  <1>1. f \in Files
    BY LabKnown DEF Files
  <1>2. k \in Mistakes(f)
    BY <1>1 DEF GateType, Checks
  <1>3. PICK t \in Range(Gated) : f \in Inputs(t) /\ k \in Range(Verifier[t].steps)
    BY <1>2, LabKnown, MistakesAreFound
  <1>4. Now(t)[f] = content[f] /\ f \in DOMAIN Now(t)
    BY <1>3 DEF Now, Snapshot
  <1> QED
    BY <1>3, <1>4 DEF Passes

\* The sources a gate script was made from are among those the gate hashes.
LEMMA SourcesAreHashed ==
    ASSUME GateType, NEW s \in Range(Gated), NEW f \in Inputs(s) \ {Executable}
    PROVE  f \in HashedSources
  <1>1. f \in Files /\ s \in Range(GateScripts)
    BY LabKnown DEF Files
  <1>2. f = s \/ f \in Verifier[s].models
    BY DEF Inputs
  <1>3. Verifier[s].models \subseteq HashedModels
    BY <1>1, GateKnowsItsModels
  <1> QED
    BY <1>1, <1>2, <1>3 DEF HashedSources

\* A gate that has run all its scripts may say what it then writes.
LEMMA DraftIsSound ==
    ASSUME GateInv, NEW p \in Process, run[p].mode = "hashing",
           \A a \in ListedReceipts : a \in DOMAIN disk,
           NEW r,
           r.sources = run[p].draft.sources,
           r.artifacts = [a \in ListedReceipts |-> disk[a]],
           r.fresh = run[p].written, r.underway = run[p].underway, r.beside = run[p].beside
    PROVE  ReportOK(r, run[p].clean)
  <1>1. DOMAIN r.artifacts = ListedReceipts /\ \A a \in ListedReceipts : r.artifacts[a] = disk[a]
    OBVIOUS
  <1>2. \A s \in Range(Gated) : Done(p, s)
    <2>1. run[p].todo = <<>> /\ IsGate(p)
      BY DEF GateInv, ProcessInv, ProcessType, Reading, IsGate
    <2> QED
      BY <2>1 DEF GateInv, ProcessInv, Progress, ToSet
  <1>3. \A a \in ListedReceipts : a[1] \in Range(Gated)
    BY DEF ListedReceipts
  <1>4. \A a \in ListedReceipts :
           Vouched(p, a) /\ (a \in run[p].written => Passes(a[1], disk[a]))
    BY <1>2, <1>3 DEF Done
  <1>5. ASSUME run[p].clean, NEW a \in ListedReceipts, a[1] \notin run[p].underway
        PROVE  /\ NoCheckFails(r.artifacts[a])
               /\ \A f \in DOMAIN r.artifacts[a] \ {Executable} :
                     f \in DOMAIN r.sources /\ r.artifacts[a][f] = r.sources[f]
    <2> DEFINE s == a[1]
    <2>1. r.artifacts[a] = Now(s) /\ s \in Range(Gated)
      BY <1>1, <1>3, <1>4, <1>5 DEF Vouched
    <2> HIDE DEF s
    <2>2. /\ DOMAIN Now(s) = Inputs(s) /\ \A f \in Inputs(s) : Now(s)[f] = content[f]
          /\ DOMAIN Snapshot(HashedSources) = HashedSources
          /\ \A f \in HashedSources : Snapshot(HashedSources)[f] = content[f]
      BY DEF Now, Snapshot
    <2>3. \A t \in Range(Gated) : Passes(t, Now(t))
      BY <1>2, <1>5 DEF Done
    <2>4. \A f \in Inputs(s) : content[f].mistake \notin Checks
      BY <2>1, <2>3, NothingWrongIsLeft DEF GateInv
    <2>5. \A f \in Inputs(s) \ {Executable} : f \in HashedSources
      BY <2>1, SourcesAreHashed DEF GateInv
    <2>6. NoCheckFails(r.artifacts[a])
      BY <2>1, <2>2, <2>4 DEF NoCheckFails
    <2>7. r.sources = Snapshot(HashedSources)
      BY <1>5 DEF GateInv, ProcessInv, Drafted
    <2> QED
      BY <2>1, <2>2, <2>5, <2>6, <2>7
  <1> QED
    BY <1>1, <1>4, <1>5 DEF ReportOK, Vouched

\* A gate that has come to the end of its scripts changes its own notes only.
LEMMA ReadingKeeps ==
    ASSUME GateInv, NEW p \in Process, IsGate(p), run[p].todo = <<>>, NEW n,
           DOMAIN n = Fields, \A x \in Fields \ {"mode", "draft"} : n[x] = run[p][x],
           n.mode \in Reading, Becomes(p, n), Drafted(p)',
           lab' = lab, content' = content, disk' = disk, ledger' = ledger, report' = report
    PROVE  GateInv'
  <1>1. /\ DOMAIN run' = Process /\ run'[p] = n
        /\ \A q \in Process \ {p} : run'[q] = run[q] /\ Aside(q)
    BY OthersAside
  <1>2. /\ n.todo = <<>> /\ n.step = run[p].step /\ n.clean = run[p].clean
        /\ n.book = run[p].book /\ n.written = run[p].written
        /\ n.underway = run[p].underway /\ n.beside = run[p].beside
    BY DEF Fields
  <1>3. Gated' = Gated /\ Receipts' = Receipts /\ \A s : Now(s)' = Now(s)
    BY LabFixed, Unedited
  <1>4. IsGate(p)' /\ ~Loaded(p)'
    BY <1>1, <1>2 DEF IsGate, Reading, Loaded
  <1>5. ProcessInv(p)'
    <2>1. ProcessType(run[p])'
      <3>1. <<>> \in Seq(Range(lab'.scripts))
        OBVIOUS
      <3> QED
        BY <1>1, <1>2, <1>3, <3>1 DEF GateInv, ProcessInv, ProcessType
    <2>2. Current(p)'
      BY <1>4 DEF Current
    <2>3. \A a : Vouched(p, a) => Vouched(p, a)'
      BY <1>1, <1>2, <1>3 DEF Vouched
    <2>4. \A s : Done(p, s) => Done(p, s)'
      BY <1>1, <1>2, <1>3, <2>3, Zenon DEF Done, Passes
    <2>5. Progress(p)'
      BY <1>1, <1>2, <1>3, <2>4 DEF GateInv, ProcessInv, Progress
    <2> QED
      BY <2>1, <2>2, <2>5 DEF ProcessInv
  <1>6. StillGate(p) /\ StillLoaded(p)
    BY <1>1, <1>2, <1>4 DEF StillGate, StillLoaded
  <1>7. LedgerIsSound'
    BY <1>1, <1>2, SameLedger DEF GateInv
  <1> QED
    BY <1>1, <1>5, <1>6, <1>7, OneMoves, SameReport DEF GateInv

LEMMA HashSourcesKeeps ==
    ASSUME GateInv, NEW p \in Process, HashSources(p)
    PROVE  GateInv'
  <1>1. PICK d : d = [sources |-> Snapshot(HashedSources)]
    OBVIOUS
  <1>2. PICK n : n = [run[p] EXCEPT !["mode"] = "hashing", !["draft"] = d]
    OBVIOUS
  <1>3. /\ IsGate(p) /\ run[p].todo = <<>> /\ Becomes(p, n)
        /\ lab' = lab /\ content' = content /\ disk' = disk
        /\ ledger' = ledger /\ report' = report
    BY <1>1, <1>2 DEF HashSources, outside, IsGate
  <1>4. DOMAIN run[p] = Fields /\ {"mode", "draft"} \subseteq Fields
    BY DEF GateInv, ProcessInv, ProcessType, Fields
  <1>5. /\ DOMAIN n = Fields /\ n.mode = "hashing" /\ n.draft = d
        /\ \A x \in Fields \ {"mode", "draft"} : n[x] = run[p][x]
    BY <1>2, <1>4
  <1>6. run'[p] = n
    BY <1>3, OthersAside
  <1>7. d.sources = Snapshot(HashedSources)'
    BY <1>1, <1>3, Unedited
  <1>8. Drafted(p)'
    BY <1>5, <1>6, <1>7 DEF Drafted
  <1> QED
    BY <1>3, <1>5, <1>8, ReadingKeeps DEF Reading

LEMMA HashReceiptsKeeps ==
    ASSUME GateInv, NEW p \in Process, HashReceipts(p)
    PROVE  GateInv'
  <1> DEFINE lost == \E a \in ListedReceipts : a \notin DOMAIN disk \/ disk[a] = Nothing
  <1>1. PICK d : d = [sources   |-> run[p].draft.sources,
                      artifacts |-> [a \in ListedReceipts |-> disk[a]],
                      fresh     |-> run[p].written,
                      underway  |-> run[p].underway,
                      beside    |-> run[p].beside]
    OBVIOUS
  <1>2. PICK n : n = [run[p] EXCEPT !["mode"] = "citing", !["draft"] = d]
    OBVIOUS
  <1>3. /\ run[p].mode = "hashing" /\ Becomes(p, IF lost THEN Over(run[p]) ELSE n)
        /\ lab' = lab /\ content' = content /\ disk' = disk
        /\ ledger' = ledger /\ report' = report
    BY <1>1, <1>2 DEF HashReceipts, outside
  <1>4. CASE lost
    BY <1>3, <1>4, OverKeeps, SameReport DEF GateInv
  <1>5. CASE ~lost
    <2>1. DOMAIN run[p] = Fields /\ {"mode", "draft"} \subseteq Fields
      BY DEF GateInv, ProcessInv, ProcessType, Fields
    <2>2. /\ DOMAIN n = Fields /\ n.mode = "citing" /\ n.draft = d
          /\ \A x \in Fields \ {"mode", "draft"} : n[x] = run[p][x]
      BY <1>2, <2>1
    <2>3. n.clean = run[p].clean
      BY <2>2 DEF Fields
    <2>4. run'[p] = n
      BY <1>3, <1>5, OthersAside
    <2>5. \A a \in ListedReceipts : a \in DOMAIN disk
      BY <1>5
    <2> HIDE DEF lost
    <2>6. /\ d.sources = run[p].draft.sources
          /\ d.artifacts = [a \in ListedReceipts |-> disk[a]]
          /\ d.fresh = run[p].written /\ d.underway = run[p].underway
          /\ d.beside = run[p].beside
      BY <1>1
    <2>7. ReportOK(d, run[p].clean)
      BY <1>3, <2>5, <2>6, DraftIsSound
    <2>8. Drafted(p)'
      BY <1>3, <2>2, <2>3, <2>4, <2>7, ReportStays DEF Drafted
    <2>9. IsGate(p) /\ run[p].todo = <<>>
      BY <1>3 DEF IsGate, GateInv, ProcessInv, ProcessType, Reading
    <2> QED
      BY <1>3, <1>5, <2>2, <2>8, <2>9, ReadingKeeps DEF Reading
  <1> QED
    BY <1>4, <1>5

LEMMA CiteKeeps ==
    ASSUME GateInv, BenchInv, NEW p \in Process, Cite(p)
    PROVE  GateInv'
  <1> DEFINE broken == Cited /\ ~CitationHolds
             o == run[p].draft
  <1>1. PICK d : d = [sources |-> o.sources, artifacts |-> o.artifacts, fresh |-> o.fresh,
                      underway |-> o.underway, beside |-> o.beside,
                      native |-> IF Cited
                                   THEN [receipt |-> native.receipt, now |-> Snapshot(B.bound)]
                                   ELSE Nothing]
    OBVIOUS
  <1>2. PICK n : n = [run[p] EXCEPT !["mode"] = "publishing", !["draft"] = d]
    OBVIOUS
  <1>3. /\ run[p].mode = "citing" /\ Becomes(p, IF broken THEN Over(run[p]) ELSE n)
        /\ lab' = lab /\ content' = content /\ disk' = disk
        /\ ledger' = ledger /\ report' = report
    BY <1>1, <1>2 DEF Cite, outside
  <1>4. CASE broken
    BY <1>3, <1>4, OverKeeps, SameReport DEF GateInv
  <1>5. CASE ~broken
    <2>1. DOMAIN run[p] = Fields /\ {"mode", "draft"} \subseteq Fields
      BY DEF GateInv, ProcessInv, ProcessType, Fields
    <2>2. /\ DOMAIN n = Fields /\ n.mode = "publishing" /\ n.draft = d
          /\ \A x \in Fields \ {"mode", "draft"} : n[x] = run[p][x]
      BY <1>2, <2>1
    <2>3. n.clean = run[p].clean
      BY <2>2 DEF Fields
    <2>4. run'[p] = n
      BY <1>3, <1>5, OthersAside
    <2> HIDE DEF broken
    <2>5. /\ d.sources = o.sources /\ d.artifacts = o.artifacts /\ d.fresh = o.fresh
          /\ d.underway = o.underway /\ d.beside = o.beside
      BY <1>1
    <2>6. ReportOK(o, run[p].clean)
      BY <1>3 DEF GateInv, ProcessInv, Drafted
    <2>7. ReportOK(d, run[p].clean)
      BY <2>5, <2>6 DEF ReportOK
    <2>8. EvidenceOK(d.native)
      <3>1. CASE Cited
        <4>1. d.native.receipt = native.receipt /\ d.native.now = Snapshot(B.bound)
          BY <1>1, <3>1
        <4> QED
          BY <1>5, <3>1, <4>1, CitedEvidenceIsBound DEF EvidenceOK, broken, GateInv, GateType
      <3>2. CASE ~Cited
        BY <1>1, <3>2 DEF EvidenceOK
      <3> QED
        BY <3>1, <3>2
    <2>9. PICK m : m = d.native
      OBVIOUS
    <2>10. Drafted(p)'
      BY <1>3, <2>2, <2>3, <2>4, <2>7, <2>8, <2>9, ReportStays, EvidenceStays DEF Drafted
    <2>11. IsGate(p) /\ run[p].todo = <<>>
      BY <1>3 DEF IsGate, GateInv, ProcessInv, ProcessType, Reading
    <2> QED
      BY <1>3, <1>5, <2>2, <2>10, <2>11, ReadingKeeps DEF Reading
  <1> QED
    BY <1>4, <1>5

LEMMA PublishKeeps ==
    ASSUME GateInv, NEW p \in Process, Publish(p)
    PROVE  GateInv'
  <1> DEFINE d == run[p].draft
  <1>1. /\ run[p].mode = "publishing" /\ Becomes(p, Over(run[p])) /\ lab' = lab
        /\ content' = content /\ disk' = disk /\ ledger' = ledger
    BY DEF Publish, outside
  <1>2. /\ report'.sources = d.sources /\ report'.artifacts = d.artifacts
        /\ report'.fresh = d.fresh /\ report'.underway = d.underway
        /\ report'.beside = d.beside /\ report'.clean = run[p].clean
        /\ report'.native = d.native
    BY DEF Publish
  <1>3. ReportOK(d, run[p].clean) /\ EvidenceOK(d.native)
    BY <1>1 DEF GateInv, ProcessInv, Drafted
  <1>4. PICK r : r = report'
    OBVIOUS
  <1>5. ReportOK(r, r.clean)
    BY <1>2, <1>3, <1>4 DEF ReportOK
  <1>6. PICK m : m = r.native /\ EvidenceOK(m)
    BY <1>2, <1>3, <1>4
  <1>7. Reported'
    BY <1>1, <1>4, <1>5, <1>6, ReportStays, EvidenceStays DEF Reported
  <1> QED
    BY <1>1, <1>7, OverKeeps

LEMMA GateKeeps == GateInv /\ BenchInv /\ [Next]_vars => GateInv'
  <1> SUFFICES ASSUME GateInv, BenchInv, [Next]_vars PROVE GateInv'
    OBVIOUS
  <1>1. CASE Edit
    BY <1>1, EditKeeps
  <1>2. CASE Crash
    BY <1>2, CrashKeeps
  <1>3. ASSUME NEW p \in Process, StartGate(p) \/ RunByHand(p) PROVE GateInv'
    BY <1>3, StartGateKeeps, RunByHandKeeps
  <1>4. ASSUME NEW p \in Process, Proceeds(p) PROVE GateInv'
    BY <1>4, LoadKeeps, CheckKeeps, WriteReceiptKeeps, OpenLedgerKeeps, SaveLedgerKeeps,
       HandDoneKeeps, HashSourcesKeeps, HashReceiptsKeeps, CiteKeeps, PublishKeeps DEF Proceeds
  <1>5. CASE BenchStep /\ UNCHANGED gateVars
    BY <1>5, BenchKeepsTheLab, SameGate DEF gateVars
  <1>6. CASE UNCHANGED vars
    BY <1>6, SameGate DEF vars, outside, gateVars
  <1> QED
    BY <1>1, <1>2, <1>3, <1>4, <1>5, <1>6 DEF Next

LEMMA GateInvariant == Spec => []GateInv
  BY GateStarts, BenchInvariant, GateKeeps, PTL DEF Spec

LEMMA WhatTheGateSays ==
    GateInv => /\ FlawsStopTheGate /\ ReceiptsAreOfThisGate /\ HashesIdentifySources
               /\ NativeEvidenceIsBound
  <1> SUFFICES ASSUME GateInv
               PROVE  /\ FlawsStopTheGate /\ ReceiptsAreOfThisGate /\ HashesIdentifySources
                      /\ NativeEvidenceIsBound
    OBVIOUS
  <1>1. report # Nothing => ReportOK(report, report.clean) /\ EvidenceOK(report.native)
    BY DEF GateInv, Reported
  <1>2. FlawsStopTheGate
    BY <1>1 DEF FlawsStopTheGate, ReportOK, GateInv, LedgerIsSound, LedgerOK
  <1>3. ReceiptsAreOfThisGate /\ HashesIdentifySources
    BY <1>1 DEF ReceiptsAreOfThisGate, HashesIdentifySources, ReportOK
  <1>4. NativeEvidenceIsBound
    BY <1>1 DEF NativeEvidenceIsBound, EvidenceOK
  <1> QED
    BY <1>2, <1>3, <1>4

\* Whatever runs beside the gate, no receipt that it wrote itself and nobody overwrote, and no
\* entry of the ledger, comes from sources on which a check of its script can fail; without an
\* edit under the gate, no check of any script can fail on the sources of any receipt, but for
\* those of scripts that others had loaded before it began.
THEOREM FlawsAreStopped == Spec => []FlawsStopTheGate
  BY GateInvariant, WhatTheGateSays, PTL

\* A report vouches only for receipts that the gate which writes it has written itself, and
\* nobody overwrote since, or whose scripts it knows that others ran beside it.
THEOREM ReceiptsAreFresh == Spec => []ReceiptsAreOfThisGate
  BY GateInvariant, WhatTheGateSays, PTL

\* Without an edit under the gate, the report has the hash of every source its receipts were
\* made from, models included, whoever wrote them, but for the receipts of scripts that others
\* had loaded before it began.
THEOREM HashesAreOfTheSources == Spec => []HashesIdentifySources
  BY GateInvariant, WhatTheGateSays, PTL

\* Native evidence that a report cites was made from the harness and judged by the models that
\* the gate found on disk, and none of them is mistaken.
THEOREM NativeEvidenceHolds == Spec => []NativeEvidenceIsBound
  BY GateInvariant, WhatTheGateSays, PTL
===============================================================================
