# TLA+ models of the Victoria II engine routines

The repository documents routines of `v2game.exe` that were recovered by reverse
engineering. For each of them it keeps a contract (`src/research/docs/contracts`), a
reference model in Python (`src/research/scripts/*_model.py`) and a verifier
(`src/research/scripts/verify_*.py`) that states the instructions of the routine and runs
the original code against the model. This directory adds what those batteries cannot
give: what happens over *sequences* of calls, days, commands and threads.

The source of every definition is an instruction list, a reference model or a native
harness of the repository; contracts and comments are only quoted where they disagree.

## 1. The system

| Part | State | Operations | Talks to | What is hard |
| --- | --- | --- | --- | --- |
| Province event queue | vector of `CDelayedEvent*` at province + 0x384, timer at entry + 0x54 | `AddDelayedEvent`, daily loop 0x004B1E16 | fires events (0x008A8120), which may queue on the same vector | erasure under an iterator, buffer growth during the scan |
| Country event queue | vector at country + 0x68, deletion list of the scan | `AddDelayedEvent`, two-phase loop 0x0050B5C8 | as above; target validity (0x008A58C0) | two phases that must agree, end of the scan |
| Land combat line | 30 front and 30 back slots, reserve, routed list, retreat list | prune and consolidate (0x0059AEF0), advance (0x0059B0E0) | deployment from the reserve (0x0059B190) | sweeps that move regiments past each other |
| Land battle | reserve of each side, damage words + 0x6C and + 0x70, targets, dice | insert in the reserve, frontage, attack (0x0059A8E0), two commits (0x005DC330, 0x005DC3C0), verdict (0x0059C630) | the line; strength, morale and power of formations | damage that waits until dusk, two commits that must not take it twice, truncating sums |
| Object registry | two hash tables, id counter, lock byte, object keys, handles | register, link, unlink, deregister, look up, resolve | every game object with an identity | threads, counter wrap, reuse of memory |
| POP migration | POPs of each province, vector of slots at province + 0x30C, money, counters of movements | distribute (0x004BA430), consume (0x004BA780), promote (0x009584A6) | countries' update, then provinces' consumers | people between two POPs, slots used again, caps and rounding |
| State factories | list at state + 0x60 | `CanBuildFactory` (0x004D04B0), output (0x004DD470) | the AI, the player's window, the market | a gate that differs by caller, places used up by requests in some order |
| World market | price of each good, its base price | daily pass (0x00482930) with the curve 0x00482610 | factories, demand | steps of fixed size, dead band, limits |
| Verification laboratory | sources, receipts, ledger, `grounding-gate.json` | each `verify_*.py`, the gate `verify_grounding.py` | everything above, as files | edits, crashes, runs by hand and second gates between any two steps, without a lock; old receipts |
| Native benches | fixtures, probe, `build.json`, saved outputs, `execution.json` | five builders and runners | the gate, which cites a receipt | a receipt of another build, timeouts |
| Navy | ships, supply, attrition | daily update, limits | provinces, countries | order of effects within a day |
| Country economy | taxes, tariffs, spending, project funds | daily formulas and clamps | countries, POPs | fixed point, clamps |
| Rest of POPs | intrusive lists, quotas, incomes | unlink, grow, update, destroy | registry, provinces, regiments | lists changed while they are walked |
| Event command, generators, calendar | seed of the script scope, 624 words; a date | draw, save, restore | everything | wrap |
| Probe, patch, Ghidra scripts, tables | files | read and report | external tools | none that a model would show |

`PROJECT.json` lists the parts with the files they come from.

## 2. Modules

| Module | Models |
| --- | --- |
| `ProvinceEventQueue` | the province vector and its loop, one action per turn of the loop |
| `ProvinceScan`, `ProvinceTickModel` | the reference model of a day: its loop as a function from turn to turn, and the day as one atomic step |
| `ProvinceEventQueueRefinement` | the refinement mapping from the loop to that step |
| `CountryEventQueue` | the country vectors and their loop, one action per entry scanned, fired or erased |
| `Selection`, `CountryTickModel` | the reference model of a country's day: what a pass over a list lets through, and the day as one atomic step |
| `CountryEventQueueRefinement` | the refinement mapping from the two phases to that step |
| `CollectionLemmas` | facts about sequences, finite sets, sums, selections, recursion on the naturals and loops that the proofs share |
| `ProvinceEventQueueProofs`, `CountryEventQueueProofs` | the theorems on the two queues, their refinements included |
| `CombatLine`, `CombatLineProofs` | the battle line, one action per column a sweep visits; its theorems |
| `FixedPoint`, `Forces` | the engine's arithmetic; strength, morale, cohesion and power of regiments and formations |
| `BattleVictory` | the verdict on a battle, as operators |
| `LandBattle`, `LandBattleProofs` | the days of a battle: reserve, deployment, attacks, commits, verdict; extends the three above; theorems |
| `ObjectRegistry`, `ObjectRegistryProofs` | the registry, one action per access to shared memory; theorems on ids, tables and handles |
| `PopMigration` | people on their way between POPs, one action per call and per slot consumed |
| `Market`, `StateIndustry` | the daily price of a good; the factories of a state |
| `Economy` | the two together: a state that is built up and the market it delivers to |
| `EconomyProofs` | theorems on `PopMigration`, on single steps and on the whole world, and on `Economy` |
| `Verifiers` | the steps of every verification script, in order |
| `NativeBench` | building and running a native probe, step by step |
| `EvidenceGate`, `EvidenceGateProofs` | the gate with its scripts and the bench it cites, under edits and crashes; extends the two above; its theorems |
| `MC...` | values of the constants for TLC |

How the state corresponds to the code is said at each VARIABLE: the field, register or
stack slot it stands for. Variables marked *history* are not kept by the program; they
record what a property needs to compare with.

### Event queues

`Entry` is the set of `CDelayedEvent` objects, none of them used twice. In the province
loop `iter` is the iterator in `[esp+0x28]` as an index; 0 stands for any address outside
`[begin, end)`, which it becomes when a push during a fired event moves the buffer. The
loop reads an entry and advances `iter` (`Evaluate`), and fires and erases it in place
(`FireAndErase`); between the two, `FireQueues` lets the script of the event push entries
on the same vector. The vector grows as the run-time library's does (half of its capacity
more, at least one entry); only that growth is external to the sources.

The country loop collects what it fires or discards in a deletion list and erases it
after the scan. Several countries are scanned in turn, in one order, each day.

An event command reaches a queue when it found its event and its delay is positive, which
is what `Queue` and `FireQueues` stand for. The draws of its generator decide nothing the
queues depend on.

### Land combat

`CombatLine` has `Half` columns on each wing (15 in the game) plus a slot on either side:
the advance may read one more column than the prune. A sweep is a loop over columns and
every turn is an action: a regiment that broke *during* a pass would be a different
program, so `Collapse` waits until the line is idle. `Deploy` stands for
`DeployFromReserve` (0x0059B190), whose code the repository does not give: any reserve
regiment may take an empty front or back slot the run allows. Vtable slot +0x2C is called
by two contracts under two names, so the answer to `IsTacticalRetreatAllowed` is any
Boolean, chosen once per pass; whether the target has operational units is any Boolean at
each column.

`LandBattle` is a whole day around such a line, with the line itself reduced to who stands
where: `Deploy` takes the first of the reserve into any free column of the frontage
(guns to the back row) and `Rout` takes the broken out, which is what `CombatLine` shows
in detail. A day goes *deploy*, *fire*, *commit*, verdict. `Attack` is the whole of
0x0059A8E0 for one regiment: an inactive army does nothing, the target is found again
(front row, then back row, within reach), and the damage goes through dice, support,
attack, men, fort, tactics and defense into the two words of the target. The regiments of
both sides attack in any order. `CommitTotal` and `CommitByType` take the damage out
again; a side is committed either in total or category by category.

The two words are the one place where two contracts of the repository cannot both be
right (see below), so their names are four constants. The run `LandBattle` lets the commit
read what the attack writes; `LandBattleFields` has them as written.

`Forces` holds what the engine adds up over regiments. The properties of a battle compare
these sums with each other after a day of losses: averages stay within what they average,
power does not grow by losing men.

In `BattleVictory` a wipe is in local variables and reaches the sides only if the same
call ends the battle. Consequences that hold in every state and that a reader of the
contract may not expect: with threshold 0 (quota -1) no battle ends; a winner weaker than
the threshold does not end one; and when both sides are broken in a pocket nobody wins.

Left out: navies, digging in, river crossings and leaders (constants of what a regiment
has), the retreat of a whole side, reinforcement in a battle, the counts of the troops of a
province and the ratio of two forces (with two sides and every army active the counts are
one and the same sum, so nothing could be compared).

### Object registry

A thread draws an id under the one-byte lock in four steps (`Acquire`, `ReadCounter`,
`WriteCounter`, `Release`), writes the object's key, links it (`Link`) and marks it
active. The lock is released before the key is written, so nothing protects the tables.
When two threads are at the tables at once the result is undefined; `raced` records it,
the chains are forgotten and a lookup may return anything. The properties on chains are
stated for histories without such a meeting (the main thread alone, for instance); those
on ids and on the lock hold without that condition.

Left out: the path of 0x009C1390 that finds its key taken (the sources give no
instructions for it: `Register` waits for a free key), null tables and failed
allocations. What the registry does not test and the model assumes of its callers, in
`RegistryAssumption`: a caller's own key is not of the automatic kind, and the counter
does not come round (`MaxDraws < Modulus`). The contract says itself that uniqueness
after a wrap is not shown; the run starts the counter at its last value, so it does pass
through zero.

### POP migration

A province's vector of slots (`pending`) is filled while the countries update and emptied
by the province's consumer later in the same day; `turn` and `next` are the loop counters
of the two phases, in the order of the calls in the tick (0x00685ED1, then 0x00685F53).
`Distribute` picks the first empty slot or appends one, and empty means size zero: the
initializer resets what the slot says of its people, not its money, so the consumer must
have cleared that. `ConsumeSlot` searches the list of the slot's own type in passes, then
creates a POP. `Promote` is the threshold transfer of the monthly update, which leaves
the money where it is.

Ratios are in `Fixed` (2^15 in the program) and money wraps at `Half` (2^63).
`MigrationAssumption` asks that all the money times `Fixed` fits the word; beyond that
the routine's product wraps and money is not conserved. `events` sums the counters +0x158
of all POPs: a transfer counts at its source and a delivery at its destination.

Something the properties do not forbid: people who have to come down a level and find no
POP for them in the list of *their* type get a new POP of the chosen lower type, though the
list of that type may hold one just like it. The province then has two POPs alike. Nothing
in the sources says that this must not happen, so no property forbids it.

Left out: the 16-bit cell of the movement log and the attribute a merge averages (neither
is read by what is modelled), the size of the day before (+0x5C), types whose byte +0x40
is set (their resize goes through quotas), the vectors of a country (+0x34, +0x44), the
growth of a vector, the removal of POPs that became empty.

### State factories and the market

`StateIndustry` is the list of a state and the gate that the AI and the player ask. The
gate differs by caller only in `AIRefuses`: no second factory of either of two categories
(the type's flags +0x13A and +0x13B), and nothing in the last two places as long as a
category is missing that the candidate has not. `now` is what the gate reads of the
state and the country at that moment; nothing keeps it the same until the next request.
A factory under construction stands in the list like any other
(`Economy/object-storage.md:48` has the project inside the node), and in `Supply` it delivers
like any other too: the sources do not show when a project's factory begins to produce, so the
properties are of supplies that may run ahead of the construction.

`Market` is one good's daily pass: the share of the demand that supply covers, the curve
(thirteen steps, then an integer root), the price it makes of the base price, a step of
328 or nothing, and the limits last. `Economy` puts the two together: what the factories
make is the supply, demand is anything of a small set, and the pass moves every price.
The price heads for `Goal`: a *scarce* good gets *cheaper*, which is what the curve says.

Left out: closing a factory, the goods a factory consumes, levels above the first, the
pass over a good nobody asks for.

### The laboratory

A script is one process: it loads its sources, takes its steps and stops at the first
check that fails. `Verifiers` gives the steps of each of the scripts in the order in which
they happen, so that what was written before a failure is on disk after it. The gate
runs them one after the other (`check=True`); when all have passed it hashes the sources
(`HashSources`), then the receipts (`HashReceipts`), looks whether a native receipt that says
*pass* still fits its files (`Cite`) and writes its report (`Publish`). A bench builds and
runs in processes of its own. A file is a revision and the step that would find its mistake;
a hash is the content.

*Nothing is locked.* `run` gives every process a state of its own: a gate, a second gate, or
a script somebody runs by hand, each with its place in its script, the sources it has loaded
and, while it saves, its copy of the ledger. They write the same receipts and the same ledger,
and `Edit`, `Crash`, a step of another process or of the bench can fall between any two steps
of one. The ledger is read whole and written back whole (`OpenLedger`, `SaveLedger`), so of two
scripts that end together one can lose its entry. (`Ledger` is a library outside the repository;
this is how the scripts use it: `for_bytes`, `record`, `save`.)

What a report can be held to depends on what went on beside its gate, and the gate keeps no
trace of that; four history variables of the process do. `clean`: nobody has edited since it began.
`written`: the receipts it has written *and nobody has overwritten since*. `underway`: the scripts
other processes had loaded when it began. `beside`: those and the ones they loaded later.

* `FlawsStopTheGate`. A receipt the gate wrote, still as it wrote it, never comes from sources on
  which a check of its own script can fail, edits or not; nor does an entry of the ledger, whoever
  saved it. That no check of *any* script can fail on a receipt needs that nobody edited, because
  two scripts can compare the same model in different ways (`verify_pop_set_size` and
  `verify_pop_transfer_threshold` do) and the first may have passed before the edit; then it holds
  of overwritten receipts as well, but not of those of a script in `underway`: such a script may
  still carry sources from before the gate began, and `verify_claims` writes receipts before it
  judges them.
* `ReceiptsAreOfThisGate`. Every receipt listed is as this gate left it, unless another process ran
  its script beside the gate. A gate cannot tell.
* `HashesIdentifySources`. Without an edit the hashed sources are those the receipts were made from,
  overwritten ones included, but for scripts in `underway`.

Each exception is a behaviour of the code and not a convenience: without the exception for `underway`
or `beside` TLC finds the property violated in the same run, for instance by a hand run of
`verify_claims` that loaded a mistaken source before an edit and whose receipt the gate hashes. A script that only notes its
differences lets a mistake through in any case.

Left out: what a script computes (claims, emulated memory, fixtures), which is the subject of
the other modules. A definition `Verify...` stands for the order of a script's steps; `PROJECT.json`
maps it to where these steps are in the script: its battery (the loops over fixtures with their
comparison), the checks after it, the receipts and the ledger. Tables of claims, the emulator
and tables of more than 75 lines of fixtures lie before that and are not counted.

## 3. Runs

| Run | Question | Instance | States |
| --- | --- | --- | --- |
| `ProvinceQueue` | is any event lost, doubled, early, or late without bound, when events queue events? | 4 entries, delays 1 and 2 | 388,000 |
| `ProvinceQueueRefinement` | is the loop the reference model's day? | 4 entries, delays -1..3, no re-entrance | 1,011,422 |
| `ProvinceQueueSkips` | is a skipped entry evaluated the next day? (no) | 3 entries | counterexample |
| `CountryQueue` | the same for two countries and the two-phase scan | 2 countries, 3 entries | 162,881 |
| `CountryQueueRefinement` | is the loop the reference model's day? | 3 entries, delays 0..3, no re-entrance | 169,503 |
| `CombatLine` | is any regiment lost; do the broken leave; does the line close? | 6 columns, 2 infantry, 1 artillery | 226,000 |
| `LandBattle` | is fire simultaneous, is every man taken once, do averages stay in range, who wins? | 3 regiments against 2, one arriving late, 3 columns, 2 days | 188,608 |
| `LandBattleFields` | do casualties reach the ranks, with the words as written? (no) | the same, words swapped | counterexample |
| `PopMigration` | do journeys keep people, money, counters and standing? | 3 provinces in 2 countries, 5 types, 3 moves, POPs of up to 3 | 108,831 |
| `ObjectRegistry` | are ids unique, objects found, handles safe? | 2 threads, 3 objects, 1 handle, 2 draws, words of 4 values | 421,000 |
| `Economy` | are the reserved places kept; do prices follow supply and settle? | 4 places, 6 types, 1 good, 3 first prices, 3 demands | 127,323 |
| `EvidenceGate` | can a mistaken source, an old or foreign receipt or a foreign probe get into a report; does a repaired laboratory pass? | every script under an edit; two pairs under a repair or a crash; three scripts by hand beside the gate; two gates at once; the benches | 429,646 |

Why the bounds are enough. Two entries ahead of a third one are needed for a second skip,
and a fourth one to be pushed by one that fires; the growth of a buffer happens at the
second, third and fourth push. Six columns are the fewest with two columns outside the
centre on both wings, so that a gap can need two passes. The combat run deploys to both
flanks and the centre only: every other occupation is reached by moving.

In `LandBattle` three columns are the fewest with a front opponent and two flanks; each
side has a battery, so both rows and support damage occur; one infantry type has no
defense and the batteries have a doctrine, so both branches of each division do; the
strengths and organizations are near their thresholds, so that a day breaks some; the late
regiment makes two armies and is inserted in the reserve; two days let the words of one
day leak into the next, and let fire and shock alternate. A fort that matters and one
that does not are the two grounds.

In the registry all keys share one bucket, the caller's key shares its id with a drawn
one, and three objects make a chain with a middle. In `PopMigration` three moves are
enough to fill a slot, empty it and fill it again with other people, or to have two slots
at one province; the starts hold a full POP, an empty one, one with a size limit, a barred
type and candidates for each pass; requests are zero, a part, and more than there is.
`MaxSize` 3 stands for 2,000,000, `Fixed` 4 makes ratios of thirds inexact, and
`Wealth * Fixed` is just below `Half`.

In `Economy` the market's numbers are the game's own, with the base price of the
cheapest good among the fixtures (0.1) and outputs that bring the supply through the curve
and beyond it; four places instead of eight leave two that are reserved and two that are
not, and the six types cover the categories one by one and together, coast, technology
and port. Prices start at the base and at both limits. TLC's words have 32 bits, so the
target never reaches the upper limit: the root of five times the base price does not
fit.

In `EvidenceGate` one edit with all its possible mistakes shows what each script stops
for, and a second one is a repair; one fault is a crash or a timeout. Two processes are enough for
what overlaps in pairs: one overwrites the receipt or the ledger of the other. The scripts run
by hand beside a gate are the one that writes receipts before it judges them, mistaken from
the start so that the edit can be its repair while it runs; the one the gate does not know;
and a short one with a crash. Two gates run one short script each. In these laboratories nobody
edits the executable (`fixed`), and a process that ran a script by hand does not come back
(`ended`); before, during or after the gate are all covered by when it starts.

`MaxDraws`, `MaxMoves`, `MaxDay`, `edits` and `faults` only bound counters; delays,
thresholds, dice and demands bound inputs.

`CHECK_DEADLOCK FALSE` is set for `LandBattle` and `LandBattleFields` alone: a battle
that is over, or whose last day is, stops.

### Fairness

* Queues: `WF` of the daily loop. The clock calls it every day and the loop has no wait.
  Nothing is assumed of scripts.
* Line: `WF` of a pass that has begun and `SF` of beginning each of the two passes: both
  are called each day of a battle, and between them casualties may happen. `SF` because
  `idle` is left and entered again by either pass. Deployment and casualties have none.
* Registry: `WF` of each thread's own steps once it has begun; no thread has to begin.
  The spin lock is not assumed fair, so the property says that *some* id is drawn while
  a thread waits, not that the waiting thread gets in.
* Market: `WF` of the daily pass. Nobody has to build or to change what they ask for; the
  liveness property is about histories in which both come to rest.
* Laboratory: `WF` of the steps of each process and of a bench that was started, and `SF`
  of starting some gate, the builder and the runner, which people do again and again
  although a gate can fail and a runner can find its input stale. Edits, crashes and runs by hand
  have none.
* A battle has no fairness: no liveness is claimed of it.

### Where the documents and the code disagree

Shown by runs that end in a counterexample (`findings` in `PROJECT.json`):

1. `PROVINCE-EVENT-DELAYED-TICK.md:40` and the docstring of the reference model say that a
   skipped entry is processed the next day. If the entry in front of it fires on that day
   as well it is skipped again. The delay is bounded by the number of entries that were
   ahead (`FiresOnTime`, proved).
2. `COMBAT-REGIMENT-ATTACK.md:77-78` has the attack add casualties to +0x70 and the loss
   of organization to +0x6C; `COMBAT-CASUALTY-COMMIT.md:23-24` has the commit read +0x6C as
   casualties and +0x70 as morale. On the side of the attack these are the words of its
   instruction list (`verify_combat_regiment_attack.py:297-299`); on the side of the commit they
   are those of the Python hook that stands in for 0x005C0160
   (`verify_combat_casualty_commit.py:160-186`), whose code the verifier does not run. Put together, the men a regiment loses are not those it was dealt.

Read but not run:

* `PROVINCE-EVENT-DELAYED-TICK.md:39` says the country loop evaluates every pending entry
  on each day. A push from a fired event that moves the buffer ends the scan.
* `COMBAT-LINE-CONSOLIDATION.md:46` says closing eliminates the gaps. One pass moves a
  regiment of the left wing by one column; the gaps close over several passes
  (`EventuallyCompact`).
* `COMBAT-LINE-CONSOLIDATION.md:32` joins the two conditions of a retreat with *and*, the
  model at line 134 with *or*; lines 17-18 count columns from 1, the code from 0.
* `COMBAT-VICTORY-STACKWIPE.md:33` says "more than 2:1"; the code compares a truncated
  half with a strict test, so 5 against 2 does not wipe anybody out.
* `POP-TRANSFER-THRESHOLD.md` 2.4 says the result is clamped; lines 52-53 of the model do
  not clamp it.
* `MARKET-PRICE-DELTA.md` section 3 and the comments at `verify_market_price_delta.py:182-185`
  expect a move of the difference within 328, and of 328 at the exact limit. The model
  and the code give 0 there: a price rests within a step of its goal.
* `STATE-FACTORY-BUILD-ELIGIBILITY.md:60` and the comments at
  `verify_state_factory_build.py:255-257` let the AI put a type with +0x13A *or* +0x13B in a
  reserved place. The code refuses it while the other category is missing: after six
  ordinary factories only a type with both flags gets in. The fixtures under "requires
  coast" (lines 263-266) leave that flag at 0.
* `MARKET-SENSITIVITY-CURVE.md:33` says the factors for scarcity moderate a rise. They are
  all below one and lower the price.
* Offsets of unit types have different names in different
  models (+0x238 is a defense to the attack and a discipline to the ratings).
* In the laboratory: `verify_combat_frontage.py` writes "mismatches 0" without asserting
  its fixtures, and `verify_combatant_strength.py` counts its mismatches and never asserts
  the count; `army_average_morale`, `army_supply_limit` and `emulate_null_release` write
  no ledger entry; `verify_formation_combat_power.py` and its model are in neither list of
  the gate, which `src/research/README.md:14-18` presents as running all of them together.
  A report that passed stays when a later gate fails, as does a receipt when a later
  assertion raises; `verify_claims.py` writes receipts before it judges them. Builders
  and runners are hashed when the probe runs, not when it was built.
* `src/tools/v2probe/src/plugin.c:56` tests `idx > n` where the last index is `n - 1`.

## 4. Proofs

Eight modules hold the theorems; every invariant and every action property that a passing
run checks is the statement of one of them. What a run shows for a small instance they
show for every value of the constants that the module's assumption allows; an invariant that
needed strengthening was run through TLC in its strengthened form first.

### Induction without induction

Sums over regiments, POPs or buckets are recursive functions, chains and queues are
sequences, a day of the province model is a loop. The library's induction theorems take an
operator as a parameter and cannot be instantiated here, so `CollectionLemmas` argues from a
smallest counterexample: `LeastNatural` and `SmallestSet` say that a non-empty set of
naturals, or of finite sets, has a least member, and a law holds because it would hold one
element below the first place where it fails. From these follow that a sum exists as the
function it is defined as (`AdderAdds`) and its laws (`SumOfUnion`, `SumChanges`,
`SumKeepsOrder`, ...), that a recursion on the naturals has a solution (`Recursion`), that a
loop whose turns near its end stops (`LoopEnds`), and that what holds of the empty sequence
and survives an `Append` holds of every sequence (`SequencesGrow`). What stays out of reach is
recursion declared with `RECURSIVE` and operators that take operators (`SelectSeq`): `Keep` in
`Selection` is a selection by a set for that reason.

### Province event queue

`ProvinceEventQueueProofs` proves, for any set of entries and any set of delays, with and
without re-entrance, that `ProvinceEventQueue` keeps `TypeOK`, `ExactlyOnce`,
`FiresOnTime` and `NothingExpiredOvernight`. None is inductive by
itself. The invariant `IInv` adds: the vector has no entry twice; the entry that fires is
in it, just behind the iterator; every timer that waits is positive; an entry that was
never queued has no history; and *the budget*: the days an entry is still owed plus the
entries in front of it stay within what was promised when it was queued. The budget is
what makes lateness inductive: a day on which an entry is skipped is paid for by an entry
in front of it that fires and leaves. The assumptions are those of
`ProvinceQueueAssumption`: `None` is no entry, delays are integers.

`LoopIsTheModelsDay` is the refinement: when fired events queue nothing on the province,
every behaviour of the loop is one of `ProvinceTickModel`. A scan in progress is mapped to
what it *will* come to, so the whole day happens at its first instruction and every turn of
the loop is a stutter. `Scan` is the last state of the model's own loop; that it has one is
shown from the fact that every turn brings the iterator nearer the end of the list (it moves
on, or the list gets shorter), and one turn of the machine loop is one `Turn` of the model's.
It needs `IInv` and that the iterator stays in the buffer, which is where re-entrance matters.

### Country event queue

`CountryEventQueueProofs` proves, for any number of countries, entries and delays,
`TypeOK`, `ExactlyOnce`, `FiresOnTime` and `ScanBoundedByCapacity`. The budget differs from the
province's because the vector does not shrink during the scan. `Owed` is the day an entry has
yet to be counted down for; `Slack` is the same day when the entry will not be: a scan
that is cut short has fired something in front of every entry it did not reach, and that
day is paid when the deletion list is erased. The invariant also says that the doomed lie behind the
iterator, so nothing is evaluated or listed twice, and that an iterator which is still in
the buffer is in the one the scan began with, so it never passes `room`. The assumptions
are `CountryQueueAssumption`: at least one country, `None` is no entry, delays are integers.

`ScanIsTheModelsDay` is the refinement for one country whose events queue nothing. Here the
day takes effect when the scan *ends*: until then the entries it counted down are shown with
the delay of the morning and those it fired or discarded are shown as waiting; from then on
the entries that wait to be erased are already gone, so the erasures are stutters. The
invariant `JInv` adds that what the scan has not seen is exactly what lies behind the
iterator, that the listed entries which were not discarded have expired, and that these
fired in the order of the vector (`FiredInOrder`): that is what makes the model's one pass and
the program's two passes agree on order. The invalid entries of the day are the listed ones
that were discarded. One country only, because the model's step is the day of one vector.

### Land combat

`CombatLineProofs` proves, for a line of any even length, any regiments and any
deployment slots, `TypeOK`, `ExactlyOnePlace`, `OneRetreatAPass`, `BrokenAreRouted` and
`NoGapInFrontOfReinforcements`. The inductive invariant says where the broken regiments of
the pass are: still in a column the sweep has not reached, or on the routed list. It needs
that the sweep visits every column once, which is proved from its definition. For the last
property the invariant (`GInv`) is that the columns the advance has visited are covered and
stay so: nobody joins a second row, and nobody leaves the first.

`LandBattleProofs` is about the days of a battle, for any finite set of regiments with
figures that are naturals (defense and doctrine may be negative), any dice, arrivals and line.

* `CasualtiesAreTaken` (`CasualtiesThinTheRanks`) and `LossesAreBilledOnce` (`TheBillIsPaid`)
  assume `CasualtyWord = PendingCasualties`, which is exactly what the two contracts disagree
  about, so the disagreement about the words is all that `LandBattleFields` shows. The
  invariant `IInv` is an account for every regiment: until its category is committed, what it
  was dealt waits in the word and its ranks are those of the dawn; afterwards nothing waits
  and the toll is gone, and no word is left over for the next day. `BInv` adds that a side's
  bill is the sum of these tolls over the regiments committed so far.
* `VolleysAreSimultaneous` (`FireIsSimultaneous`) rests on `DInv`: from the dice to the first
  commit, what waits at a regiment is the sum of its attackers' damage, computed with the
  strengths of the dawn, over the attackers that have fired.
* `ReserveInOrder` (`ReserveBestFirst`) needs that the regiments worth as much as the new one
  are an initial segment of the reserve, since the insertion counts them, and that the worth
  of a waiting regiment never changes: nothing strikes it before it is in the line (`Unhurt`
  in `QInv`), because targets stand in a row, so the commits take nothing from it.
* `VerdictIsSymmetric` and `WinnersAreWhole` are of the verdict as an operator, for any
  strengths, thresholds and answers to what the routine asks; two sides are never both twice
  as strong as the other, so settling the defender first never spares or condemns the
  attacker. `SidesAreTreatedAlike` (`RolesDoNotMatter`) and `LosersAreBroken`
  (`OnlyBrokenSidesFall`) carry them to the states of a battle, where the strength of a side is
  a sum and so a natural.
* `LosingNeverPays` (`NobodyGrowsStrongerByLosing`) asks that the rating of a type is not
  negative: with a negative one the formula does make a regiment worth more by losing men.
  `PInv` keeps strength and organization within what the regiment began with.
* `AveragesStayWithin` (`AveragesKeepWithinTheirParts`) asks the same of ratings, that
  regiments begin with men and organization, and that each side has a regiment: the sums are
  divided by these. The last bound of the property had to be corrected for the proof:
  power was first compared with the number of regiments times a truncated product, which held
  on the instance but not in general. Each regiment's ratio is truncated before the average
  is, so a side may be worth up to one thousandth of its best regiment more, per regiment,
  than its cohesion says: hence `n * (cohesion + 1)`, multiplied before it is truncated.

### Market and industry

`EconomyProofs` proves `StatesAreWellBuilt` for any types, categories, circumstances and
number of places, of which any number is reserved (`WellBuilt`). The invariant is inductive
with the types: the gate looks at the whole list, so a request has to be shown to keep
both that no category is doubled and that the places left are worth both categories. The
market's theorems of one day are for any base price, price and target:
`NoDayOvershoots` (the distance to the goal does not grow) and `EveryDayAStep` (a price
within its limits and further than a step from its goal is exactly one step nearer the next
day), which is the argument behind `PriceSettles`.

`PricesAnswerToSupply` states `PricesFollowSupply` of the specification. That a day does not
overshoot is `NoDayOvershoots`; that a new factory never lowers a goal needs the target to
rise with the supply (`TargetRises`), over the whole chain:

* the deliveries are a sum of naturals, of which a new factory adds one (`SupplyGrows`);
* the share of the demand they cover, and the product with the base price, rise with them
  (`QuotientsGrow`, `ProductsGrow`);
* the thirteen factors of the curve rise (`CurveRises`), and above the last the root is at least
  the last factor (`RootTakesOver`): the curve has no step down where the root takes over;
* the root rises (`RootGrows`). Newton's iteration is a recursion that no function on naturals
  bounds syntactically, so it is characterised by where it stops: from above the root it
  only falls, and it stops at the integer part of the root or where it began (`NewtonsFloor`, by
  the least start at which that would fail). The rounding to the nearest integer keeps the order.

The quantities are naturals of any size there; the program's words hold 64 bits, and the
root's argument 31, which the fixtures do not come near.

### Object registry

`ObjectRegistryProofs` proves, for any threads, objects, handles, modulus and number of
buckets, the run's three invariants and the types.

* `DrawnKeysDiffer` (`AutoKeysDistinct`) and `DrawingIsExclusive` hold also in histories in
  which threads meet at the tables. The lock protects the counter only, so `IInv` follows
  each id: the counter is the last id drawn; a thread about to write the counter has the
  next one, which no one has; after that an issued id is in the register of one thread or in
  the key of one object that is not being freed. That no two threads are busy with one
  object is needed too, since a freed object's id becomes its kind for a moment.
* `TablesHold` (`TablesMatchObjects`) needs `TInv`: as long as no two threads have met, every
  chain holds the linked objects of its bucket and no others, none twice; the counter of a
  table is the sum of the lengths of its chains; the keys of the linked objects differ; and
  a thread about to publish a link knows the head it read and has a key that is still free.
  An object is linked before it is marked active and unmarked before it is unlinked, so
  *linked* is not the same as *registered* in between.
* `HandlesHold` (`HandlesAreGood`) needs `HInv`: an id that a handle names has been issued, is in
  no thread's register, and can only be held by the object the handle was made for. So when the
  memory of that object is used again its new key differs, and the pointer the handle keeps
  is not believed.

Both assumptions about callers are in `RegistryAssumption` and neither is tested by the program:
fewer ids are drawn than there are words (`MaxDraws < Modulus`), and callers' keys are not
of the automatic kind.

### POP migration

`EconomyProofs` is for any provinces, POPs and slots, any sizes, any natural numbers as requests
(`POP-TRANSFER.md:37-38` calls negative ones synthetic), any cap, scale and word within
`MigrationAssumption`. First what single steps do: `TransferKeepsMoney` takes two
ends that together hold no more than `Wealth`; the ratio is then at most one and the product
stays in the word, so the share is a part of the balance. `TransferMovesWhatItCounts`,
`DeliveryKeepsMoney` and `PromotionKeepsPeople` are the other three. Then the world: its
people, its money and its movements are sums over provinces of sums over POPs and slots,
and each step changes one or two entries, so the sum changes by what the step does. That
gives `MoneyIsKept` (`MoneyConserved`), `MovementsAreCounted` (`MovementsBalance`) and
`TypeCorrect`; the three are inductive only together (`IInv`), since money stays in the word
because of what all of it amounts to. The two action properties follow from it:
`PopulationIsKept` (`PopulationOnlyLostAtCap`), and `JourneysLiftNobody`
(`NobodyRisesByMoving`), which sums over the people of a culture group above a level and goes
through the passes of the consumer's search.

### Laboratory

`EvidenceGateProofs` is for any laboratory that `GateAssumption` allows: any of the scripts in
any order, repeated or not, run by hand or not, any of the five benches or none, sources
mistaken from the start, and any number of edits, crashes and timeouts. The tables of the
scripts, of what the gate runs and of what it hashes are those of the source, and three facts
about them carry the proofs (`ScriptSteps`, `GateKnowsItsModels`, `BenchesInOrder`): every
script checks the executable first and saves its ledger last; the gate hashes every model of
every script that it runs, and the one script it does not run shares no model with the
others; what the gate compares with a native receipt includes the whole harness and all
judges, which a bench with a builder of its own also records when it builds.

The invariant speaks of each process by itself (`ProcessInv`), and a step has to be shown to keep
it for the process that takes it and for every *other* one (`Aside`: what a step of another
process can do to a gate is to overwrite a receipt, which takes it out of `written` and puts the
script in `beside`, or to save the ledger).

* `Current` is about the script that a process runs: it has passed every check it has come by; unless
  somebody edited, what a gate has loaded is what is on disk. Some scripts write a receipt
  before they check (`verify_claims`), so a receipt alone says nothing; only when the process has
  ended does it stand for sources that pass.
* `Progress` is about a gate's scripts before that one: each is still to come or is `Done`: its
  receipts are `Vouched` for, that is, still this gate's and of sources the script passes on, or
  another process has loaded the script beside the gate.
* `Beside` ties the histories to the processes: a script that another process has loaded is in the
  `beside` of every gate, and if it is not in `underway` its sources are those there are, as long
  as nobody edited.
* `LedgerIsSound` is said of the ledger and of every open copy of it, since any of them may be the
  one that is written back.
* `Drafted` carries all this through the four steps of the gate's end, and `Reported` says it of the
  report.

`FlawsAreStopped`, `ReceiptsAreFresh` and `HashesAreOfTheSources` follow, with any number of
processes of either kind side by side. The first needs
`MistakesAreFound`: every mistake a check of any script can find in a file is found by a check of
a script of the gate that reads it. When two scripts compare one model differently that is another
script than the receipt's, which the gate may have run *before* an edit (`Differently` in
`MCEvidenceGate`), so the strong half is for reports without edits.

`NativeEvidenceHolds` needs `BenchInv`, which follows a probe through its files. A build without
an edit was made from the sources it records (`BuildOK`); the runner refuses a build whose
hashes are not those on disk, so the judges it hashes and the probe it runs are the recorded ones
(`RunningOK`); where one script builds and runs, the sources are hashed only with the receipt
and the process must not have been edited under. The receipt then names what was run and judged
(`ReceiptOK`), and the gate's comparison carries this over to what is on disk when it reports
(`CitedEvidenceIsBound`). An edit under the *gate* does not matter: the property compares with the
files as they were when the gate looked at them (`report.native.now`), though it writes its report
later. An edit under the *bench* does: what is compiled is hashed later.

### Only model-checked

* Liveness (`EventuallyFires`, `EventuallySettled`, `EventuallyCompact`, `BrokenLeavesTheFront`,
  `DrawingNeverStalls`, `PriceSettles`, `RepairedLabPasses`): out of the prover's reach.
* `TypeOK` of `LandBattle` is in no run and in no theorem: `Ranks`, `Unhurt` and `DInv` hold the
  types its proofs need.

## 5. Plan

In order:

1. Proofs: the day of several countries as so many steps of the model.
2. `PopList`: append, unlink and growth on intrusive
   lists that are walked meanwhile (`native_registry_cases.h`, `verify_pop_unlink.py`,
   `verify_pop_growth.py`), composed with `ObjectRegistry`.
3. `NavyDay`: movement, attrition, resupply (`navy_daily_update_model.py`).
4. `ProjectBuffer`: the funding gate of a project.

## 6. Not modelled

* Country economy (taxes, tariffs, spending, modifiers, supply of the military), life
  rating and modifiers of a province, targets and quotas of promotion: formulas that keep
  no state between calls; the repository's batteries cover them input by input.
* The funding gate of a project compares the high halves of a 64-bit product; it keeps no
  state between calls, and TLC's words have 32 bits.
* Navy: the daily update, supply limits and attrition of ships; in the plan.
* POP lists, lifetime and quotas: in the plan.
* Generators, event odds, calendar, x87 conversions: words and conversions that no
  modelled routine depends on. Draws are any value of a small set.
* In `Forces`: maximum experience and strength of a formation, maximum morale, the census
  by category, the weight of a unit in supply, the counts of the troops of a province, the ratio of
  two forces.
* Ghidra scripts, the v2probe plugin, the patch and the reference tables are input and
  output around external programs.
