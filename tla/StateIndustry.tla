----------------------------- MODULE StateIndustry ----------------------------
(***************************************************************************)
(* The factories of a state and CState::CanBuildFactory (0x004D04B0), which *)
(* the AI of the country and the player's window ask before they add one.  *)
(* The AI keeps the last places of a state for two categories of factory,  *)
(* the flags +0x13A and +0x13B of a type; the player does not.             *)
(***************************************************************************)
EXTENDS Integers, Sequences

CONSTANTS FactoryType,           \* the factory types
          CategoryA, CategoryB,  \* those with the flag +0x13A, with +0x13B
          NeedsCoast,            \* those with the flag +0xD8
          NeedsTech, NeedsPort,  \* those with a technology, with one that wants a port
          Circumstances,         \* what holds of the state and country when asked
          Slots,                 \* the factories a state has place for: 8
          Reserved               \* the places the AI keeps: 2

ASSUME IndustryAssumption ==
    /\ CategoryA \subseteq FactoryType /\ CategoryB \subseteq FactoryType
    /\ NeedsCoast \subseteq FactoryType
    /\ NeedsPort \subseteq NeedsTech /\ NeedsTech \subseteq FactoryType
    /\ Circumstances \subseteq
           [colonial : BOOLEAN, coast : BOOLEAN, tech : BOOLEAN, port : BOOLEAN]
    /\ Slots \in Nat /\ Reserved \in 0 .. Slots

VARIABLES factories,   \* the list at state + 0x60, its length at + 0x68
          onlyAI       \* history: the AI has built all of them

Listed(t) == \E i \in DOMAIN factories : factories[i] = t
Has(category) == \E i \in DOMAIN factories : factories[i] \in category

\* Places of the state that are left.
PlacesLeft == Slots - Len(factories)

\* Mutant of AIRefuses: one category present frees the places of both.
AIRefusesUnlessOne(t, coast) ==
    \/ t \in CategoryB /\ Has(CategoryB)
    \/ t \in CategoryA /\ Has(CategoryA)
    \/ /\ ~Listed(t) /\ PlacesLeft <= Reserved
       /\ t \notin CategoryA \cup CategoryB
       /\ ~Has(CategoryA) /\ ~Has(CategoryB)
    \/ t \in NeedsCoast /\ ~coast

\* What the AI leaves alone: a second factory of a category, a type that would
\* take a reserved place before both categories are there, a yard without coast.
AIRefuses(t, coast) ==
    \/ t \in CategoryB /\ Has(CategoryB)
    \/ t \in CategoryA /\ Has(CategoryA)
    \/ /\ ~Listed(t) /\ PlacesLeft <= Reserved
       /\ \/ t \notin CategoryA /\ ~Has(CategoryA)
          \/ t \notin CategoryB /\ ~Has(CategoryB)
    \/ t \in NeedsCoast /\ ~coast

CanBuildFactory(t, ai, now) ==
    /\ ~now.colonial
    /\ PlacesLeft >= 1
    /\ ai => ~AIRefuses(t, now.coast)
    /\ ~Listed(t)
    /\ t \in NeedsTech => now.tech
    /\ t \in NeedsPort => now.port

IndustryInit == factories = <<>> /\ onlyAI = TRUE

\* Somebody asks for a factory in the state as it now is, and is allowed to.
Build == \E t \in FactoryType, ai \in BOOLEAN, now \in Circumstances :
    /\ CanBuildFactory(t, ai, now)
    /\ factories' = Append(factories, t)
    /\ onlyAI' = (onlyAI /\ ai)

-------------------------------------------------------------------------------

\* No state has more factories than places, nor two of a type, whoever built.
NeverCrowded ==
    /\ Len(factories) <= Slots
    /\ \A i, j \in DOMAIN factories : factories[i] = factories[j] => i = j

\* Left to the AI, a state has at most one factory of either category, and when
\* a reserved place is taken it has one of both: the places are never used up
\* before the two categories the AI reserves them for are there.
ReservedPlacesKept ==
    onlyAI =>
        /\ \A i, j \in DOMAIN factories :
               \/ {factories[i], factories[j]} \subseteq CategoryA
               \/ {factories[i], factories[j]} \subseteq CategoryB
               => i = j
        /\ PlacesLeft < Reserved => Has(CategoryA) /\ Has(CategoryB)

\* The factories of a state are what the gate of both callers promises, however
\* their requests follow each other.
StatesAreWellBuilt == NeverCrowded /\ ReservedPlacesKept
===============================================================================
