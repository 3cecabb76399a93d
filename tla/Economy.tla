------------------------------- MODULE Economy --------------------------------
(***************************************************************************)
(* A state's factories and the world market they deliver to.  Factories    *)
(* are added one at a time, each produces every day, and the daily pass    *)
(* moves the price of every good towards what supply and demand make of    *)
(* its base price.                                                         *)
(***************************************************************************)
EXTENDS StateIndustry, Market, Functions

CONSTANTS Good,
          Makes,         \* the good a type of factory makes
          BaseOutput,    \* what a type makes a day at full throughput
          Throughput,    \* the throughput of the country
          BasePrice,     \* of a good, good + 0x30
          FirstPrices,   \* the prices a game can begin with
          Demands        \* what the rest of the world asks for a day

ASSUME EconomyAssumption ==
    /\ Makes \in [FactoryType -> Good]
    /\ BaseOutput \in [FactoryType -> Nat] /\ Throughput \in Nat
    /\ BasePrice \in [Good -> Nat]
    /\ FirstPrices \subseteq Nat
    /\ Demands \subseteq Nat \ {0}

VARIABLES price,    \* of each good
          demand    \* for each good

economy == <<factories, onlyAI, price, demand>>

\* What a factory of a level makes a day (0x004DD470).
EffectiveOutput(t, level) ==
    (((BaseOutput[t] * Throughput) \div One) * (level * One)) \div One

\* What the factories, all of the first level, deliver to the market a day.  One
\* whose project is under way delivers like any other: the sources do not show when
\* it begins to.
Supply(g) ==
    SumFunctionOnSet([i \in DOMAIN factories |-> EffectiveOutput(factories[i], 1)],
                     {i \in DOMAIN factories : Makes[factories[i]] = g})

TargetOf(g) ==
    Target[[base |-> BasePrice[g], supply |-> Supply(g), demand |-> demand[g]]]

EconomyInit ==
    /\ IndustryInit
    /\ demand \in [Good -> Demands]
    /\ price \in [Good -> FirstPrices]

\* The daily pass over the goods.
UpdatePrices ==
    /\ price' = [g \in Good |-> NextPrice(BasePrice[g], price[g], TargetOf(g))]
    /\ UNCHANGED <<factories, onlyAI, demand>>

AddFactory == Build /\ UNCHANGED <<price, demand>>

\* POPs and factories elsewhere ask for more or less.
ChangeDemand == /\ \E g \in Good, d \in Demands :
                       /\ d # demand[g]
                       /\ demand' = [demand EXCEPT ![g] = d]
                /\ UNCHANGED <<factories, onlyAI, price>>

EconomyNext == UpdatePrices \/ AddFactory \/ ChangeDemand

\* The pass runs every day; nothing makes anybody build or ask for anything.
EconomySpec == EconomyInit /\ [][EconomyNext]_economy /\ WF_economy(UpdatePrices)

-------------------------------------------------------------------------------

\* The limit of where a price is heading, and how far it has to go.
Goal(g) == Clamp(MinPrice(BasePrice[g]), MaxPrice(BasePrice[g]), TargetOf(g))
Away(g) == Magnitude(Goal(g) - price[g])

\* The market answers to supply and never overshoots: a day takes no price
\* further from its goal, on either side of it, and a factory that opens never
\* lowers the goal of what it makes.  The goal follows the supply, so a good
\* that is scarce gets cheaper: the curve is a root of supply over demand.
PricesFollowSupply ==
    [][ \A g \in Good :
            /\ price' # price => Away(g)' <= Away(g)
            /\ factories' # factories => Goal(g)' >= Goal(g) ]_economy

\* When demand and industry come to rest, every price ends within a day's step
\* of its goal and stays there.
PriceSettles ==
    <>[][FALSE]_<<factories, demand>>
        => \A g \in Good : <>[](Away(g) <= MaxStep)
===============================================================================
