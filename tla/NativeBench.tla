------------------------------- MODULE NativeBench -------------------------------
(***************************************************************************)
(* The five native benches of research/scripts: which files a probe is     *)
(* built from and run with, and which of them each script and the gate     *)
(* compare by hash.                                                        *)
(*                                                                         *)
(*   builder   the script that makes fixtures and compiles the probe       *)
(*   runner    the script that executes it and writes the receipt          *)
(*   harness   the sources compiled into the probe                         *)
(*   fixtures  the models the builder computes the fixtures with           *)
(*   judges    the models the runner judges the output with                *)
(*   recorded  the sources whose hashes build.json keeps, and the runner   *)
(*             compares again before it executes anything                  *)
(*   bound     the sources the gate compares with the receipt              *)
(*   output    whether the gate also compares the saved outputs            *)
(*   early     whether the outputs are saved before they are judged        *)
(*                                                                         *)
(* Then the two processes, step by step.  A source has a revision and the  *)
(* step that finds its mistake ("probe" for the sources of a bench); a     *)
(* hash is the content itself.  Builds are taken to be reproducible: the   *)
(* same ingredients give the same probe.                                   *)
(***************************************************************************)
EXTENDS Naturals

VARIABLES
    lab,        \* the laboratory of this behaviour (see Labs); lab.bench names its bench
    content,    \* source file -> its content now
    faults,     \* crashes and timeouts so far
    native,     \* the probe, build.json, the saved outputs and execution.json
    bench       \* the process that builds or runs the probe

Nothing == [none |-> TRUE]   \* a file that does not exist

Snapshot(files) == [f \in files |-> content[f]]

\* Copied helper bytes executed in a PE32 process.
IntegerBench ==
    [builder  |-> "build_native_integer_probe", runner |-> "run_native_integer_probe",
     harness  |-> {"native_integer_helpers.c"}, fixtures |-> {"integer_model"}, judges |-> {},
     recorded |-> {"native_integer_helpers.c"}, bound |-> {"native_integer_helpers.c"},
     output   |-> FALSE, early |-> TRUE]

\* The same helpers under the i386 ABI of the host: one script builds and runs.
ElfBench ==
    [builder  |-> "run_elf32_integer_probe", runner |-> "run_elf32_integer_probe",
     harness  |-> {"elf32_integer_helpers.S"}, fixtures |-> {"integer_model"}, judges |-> {},
     recorded |-> {}, bound |-> {"elf32_integer_helpers.S"},
     output   |-> FALSE, early |-> TRUE]

\* POP lifetime and registry in a private image.
PopBench ==
    [builder  |-> "build_native_pop_probe", runner |-> "run_native_pop_probe",
     harness  |-> {"native_pop_lifetime.c", "native_registry_cases.h"},
     fixtures |-> {}, judges |-> {},
     recorded |-> {"native_pop_lifetime.c", "native_registry_cases.h"},
     bound    |-> {"native_pop_lifetime.c", "native_registry_cases.h",
                   "build_native_pop_probe", "run_native_pop_probe"},
     output   |-> FALSE, early |-> FALSE]

\* x87 and SSE conversions.
FloatBench ==
    [builder  |-> "build_native_float_probe", runner |-> "run_native_float_probe",
     harness  |-> {"native_float_conversion.c"},
     fixtures |-> {"float_model"}, judges |-> {"float_model"},
     recorded |-> {"native_float_conversion.c", "float_model"},
     bound    |-> {"native_float_conversion.c", "build_native_float_probe",
                   "run_native_float_probe", "float_model"},
     output   |-> TRUE, early |-> FALSE]

\* Growth of POP vectors, merges and factory selection.
GrowthBench ==
    [builder  |-> "build_native_growth_probe", runner |-> "run_native_growth_probe",
     harness  |-> {"native_pop_growth.c", "native_private_image.h"},
     fixtures |-> {}, judges |-> {"pop_merge_model", "pop_factory_selection_model"},
     recorded |-> {"native_pop_growth.c", "native_private_image.h"},
     bound    |-> {"native_pop_growth.c", "native_private_image.h",
                   "build_native_growth_probe", "run_native_growth_probe",
                   "pop_merge_model", "pop_factory_selection_model"},
     output   |-> TRUE, early |-> FALSE]

Bench == [integer |-> IntegerBench, elf32 |-> ElfBench, pop |-> PopBench,
          float |-> FloatBench, growth |-> GrowthBench]

\* Everything a bench reads.
Sources(b) ==
    {b.builder, b.runner, "v2game.exe"} \cup b.harness \cup b.fixtures \cup b.judges

\* What the fixtures and the probe are made from.
Ingredients(b) == {b.builder} \cup b.harness \cup b.fixtures

B == Bench[lab.bench]
OneScript == B.builder = B.runner   \* builds and runs in one process

BenchIdle == [at |-> "idle", clean |-> TRUE]
NoProbe == [products |-> Nothing, build |-> Nothing, output |-> Nothing, receipt |-> Nothing]

Mistaken(snapshot, k) == \E f \in DOMAIN snapshot : snapshot[f].mistake = k

-----------------------------------------------------------------------------
(* Building *)

\* The builder stops on the wrong executable; otherwise it writes the fixtures
\* and compiles the probe.
Compile ==
    /\ bench.at = "idle"
    /\ content["v2game.exe"].mistake = "none"
    /\ native' = [native EXCEPT !.products = Snapshot(Ingredients(B))]
    /\ bench' = [at |-> "compiled", clean |-> TRUE]
    /\ UNCHANGED <<lab, content, faults>>

\* Only then are the sources hashed, into build.json.
WriteBuild ==
    /\ bench.at = "compiled" /\ ~OneScript
    /\ native' = [native EXCEPT !.build = [products |-> native.products,
                                           hashes   |-> Snapshot(B.recorded),
                                           clean    |-> bench.clean]]
    /\ bench' = BenchIdle
    /\ UNCHANGED <<lab, content, faults>>

-----------------------------------------------------------------------------
(* Running *)

\* What the runner compares with build.json before it executes anything.
BuildIsCurrent ==
    /\ native.build # Nothing
    /\ native.products = native.build.products
    /\ Snapshot(B.recorded) = native.build.hashes
    /\ content["v2game.exe"].mistake = "none"

\* The receipt copies the hashes of build.json and adds those of the scripts and
\* of the judges as they are now.
Execute ==
    /\ \/ OneScript /\ bench.at = "compiled"
       \/ ~OneScript /\ bench.at = "idle" /\ BuildIsCurrent
    /\ bench' = [at     |-> "running",
                 clean  |-> IF OneScript THEN bench.clean ELSE native.build.clean,
                 ran    |-> native.products,
                 judged |-> Snapshot(B.judges \cup {B.runner}),
                 hashes |-> IF OneScript THEN << >>
                            ELSE [f \in B.recorded \cup B.bound |->
                                    IF f \in B.recorded THEN native.build.hashes[f]
                                    ELSE content[f]]]
    /\ UNCHANGED <<lab, content, faults, native>>

Sound == ~Mistaken(bench.ran, "probe") /\ ~Mistaken(bench.judged, "probe")

\* The probe ends, in a verdict the runner may or may not live to save: an
\* assertion about the output raises before anything is written, except where
\* the outputs are saved first.
Ended(verdict) ==
    bench' = CASE verdict = "raised" /\ ~B.early -> BenchIdle
               [] OTHER -> [at |-> "outputs", clean |-> bench.clean, ran |-> bench.ran,
                            judged |-> bench.judged, hashes |-> bench.hashes,
                            verdict |-> verdict]

Finish ==
    /\ bench.at = "running"
    /\ \E verdict \in IF Sound THEN {"passed"}
                      ELSE IF OneScript THEN {"failed"} ELSE {"failed", "raised"} : Ended(verdict)
    /\ UNCHANGED <<lab, content, faults, native>>

\* Wine never answers: the runner saves a receipt that says so; the script that
\* does everything itself dies of the exception.
TimeOut ==
    /\ bench.at = "running" /\ faults < lab.faults
    /\ faults' = faults + 1
    /\ IF OneScript THEN bench' = BenchIdle ELSE Ended("timeout")
    /\ UNCHANGED <<lab, content, native>>

SaveOutputs ==
    /\ bench.at = "outputs"
    /\ native' = [native EXCEPT !.output = [ran |-> bench.ran, verdict |-> bench.verdict]]
    /\ bench' = IF bench.verdict = "raised" THEN BenchIdle ELSE [bench EXCEPT !.at = "receipt"]
    /\ UNCHANGED <<lab, content, faults>>

\* A receipt that is there is kept.
SaveReceiptOnce ==
    /\ bench.at = "receipt"
    /\ native' = IF native.receipt # Nothing THEN native
                 ELSE [native EXCEPT !.receipt =
                        [pass     |-> bench.verdict = "passed",
                         products |-> bench.ran,
                         hashes   |-> IF OneScript THEN Snapshot(B.bound) ELSE bench.hashes,
                         output   |-> native.output,
                         judged   |-> bench.judged,
                         clean    |-> bench.clean]]
    /\ bench' = BenchIdle
    /\ UNCHANGED <<lab, content, faults>>

SaveReceipt ==
    /\ bench.at = "receipt"
    /\ native' = [native EXCEPT !.receipt =
                    [pass     |-> bench.verdict = "passed",
                     products |-> bench.ran,
                     hashes   |-> IF OneScript THEN Snapshot(B.bound) ELSE bench.hashes,
                     output   |-> native.output,
                     judged   |-> bench.judged,
                     clean    |-> bench.clean]]
    /\ bench' = BenchIdle
    /\ UNCHANGED <<lab, content, faults>>

\* What goes on once a process has been started.
BenchProceeds ==
    \/ WriteBuild
    \/ OneScript /\ Execute
    \/ Finish \/ SaveOutputs \/ SaveReceipt

BenchStep == lab.bench # "none" /\ (Compile \/ Execute \/ BenchProceeds \/ TimeOut)

-----------------------------------------------------------------------------
(* What the gate makes of a receipt *)

\* A receipt that says pass is checked against the files it names; one that does
\* not, or that is not there, is passed over.
Cited == lab.bench # "none" /\ native.receipt # Nothing /\ native.receipt.pass

\* Only the probe compared.
CitationHoldsForProbe == native.products = native.receipt.products

\* The float receipt is also read by analyze_extended_float.py, which compares
\* once more what is compared here.
CitationHolds ==
    /\ native.products = native.receipt.products
    /\ \A f \in B.bound : native.receipt.hashes[f] = content[f]
    /\ B.output => native.output = native.receipt.output
==============================================================================
