------------------------------ MODULE Campaign ------------------------------
(***************************************************************************)
(* A decorated test, called again and again: SimulationTest.run and check, *)
(* SimulationConfig.with_environment and seed_for, Replay, and the event   *)
(* log with the tail of it that a failure shows.                           *)
(*                                                                         *)
(* What an iteration comes to is a property of its seed, here the set of   *)
(* seeds that fail; for the seeds in flaky it is not, since a scenario may *)
(* break the rules and look at a clock of the real world.  How the seed of *)
(* an iteration is mixed is left to Rng.                                   *)
(***************************************************************************)
EXTENDS Integers, Sequences

CONSTANTS
    Mixed(_, _),    \* SeedMixer.mix, of a base seed and an index
    Bases,          \* the base seeds a test may be configured with
    MaxIterations,  \* bound: the iterations it may be configured with
    MaxEvents,      \* bound: the events of an iteration
    Limits,         \* trace_limit may be any of these,
    Lines,          \* and trace_lines of these
    MaxCalls        \* bound: calls of a behaviour

Unset == -1

ASSUME CampaignAssumption ==
    /\ Bases \subseteq Nat
    /\ \A seed \in Bases, i \in 0 .. MaxIterations - 1 : Mixed(seed, i) \in Nat
    /\ {MaxIterations, MaxEvents, MaxCalls} \subseteq Nat
    /\ Limits \cup Lines \subseteq Nat

VARIABLES
    config,    \* seed, iterations, trace, trace_limit and trace_lines
    scenario,  \* fails, flaky: sets of seeds; events: how many every run logs
    env,       \* ASKEW_SEED and ASKEW_ITERATIONS, as the call finds them
    running,   \* whether a call of the test is under way
    iteration, \* the iteration it comes to next
    ran,       \* ghost: what it has simulated: seed, iteration, and whether traced
    result,    \* what the last call came to: its verdict, "none" before there is
               \* one, and what a failure says
    calls,     \* bound: calls so far
    printed    \* ghost: the seeds that failures have reported

vars == <<config, scenario, env, running, iteration, ran, result, calls, printed>>

seed_for(i) == Mixed(config.seed, i)
Derived == {seed_for(i) : i \in 0 .. MaxIterations - 1}

Pinned == env.seed # Unset

\* with_environment: a pinned seed asks for one iteration, but ASKEW_ITERATIONS
\* has the last word.
Iterations ==
    CASE env.iterations # Unset -> env.iterations
      [] env.iterations = Unset /\ Pinned -> 1
      [] OTHER -> config.iterations

-----------------------------------------------------------------------------
(* The event log.                                                          *)

\* add: a full log drops its oldest record.
Add(records, event) ==
    LET all == Append(records, event)
    IN  IF Len(all) > config.limit THEN Tail(all) ELSE all

\* The log after so many events, numbered in their order.
Logged[n \in Nat] == IF n = 0 THEN << >> ELSE Add(Logged[n - 1], n)

\* The log of an iteration.
Log(traced) == IF traced THEN Logged[scenario.events] ELSE << >>

\* Variant: the start is not kept from falling before the first record.
TailFirst(records, count) ==
    SubSeq(records, 1, IF count < Len(records) THEN count ELSE Len(records))

\* tail: the last records, oldest first.
LogTail(records, count) ==
    LET start == IF Len(records) > count THEN Len(records) - count ELSE 0
    IN  SubSeq(records, start + 1, Len(records))

-----------------------------------------------------------------------------

\* Whether a simulation under this seed may fail, and whether it may pass.
MayFail(seed) == seed \in scenario.fails \cup scenario.flaky
MayPass(seed) == seed \notin scenario.fails \/ seed \in scenario.flaky

NoFailure(verdict) ==
    [verdict |-> verdict, seed |-> Unset, iteration |-> 0, events |-> << >>]

\* A SimulationFailure, made of the Report of a run.
Failure(seed, i, traced) ==
    [verdict |-> "failed", seed |-> seed, iteration |-> i,
     events |-> LogTail(Log(traced), config.lines)]

Simulated(seed, i, traced) == [seed |-> seed, iteration |-> i, traced |-> traced]

\* SimulationTest.check of an iteration that passes.
Passes(seed, i) ==
    /\ MayPass(seed)
    /\ ran' = Append(ran, Simulated(seed, i, config.trace))

\* SimulationTest.check of one that fails: the second run has the trace.  If that
\* one passes, the failure is told from the first.
Fails(seed, i) ==
    /\ MayFail(seed)
    /\ ran' = ran \o <<Simulated(seed, i, config.trace), Simulated(seed, i, TRUE)>>
    /\ \/ result' = Failure(seed, i, TRUE)
       \/ MayPass(seed) /\ result' = Failure(seed, i, config.trace)
    /\ printed' = printed \cup {seed}
    /\ running' = FALSE

Return ==
    /\ running' = FALSE
    /\ result' = NoFailure("passed")

\* The developer sets the variables, to a seed that was printed for one, and calls
\* the test.
Call ==
    /\ ~running /\ calls < MaxCalls
    /\ calls' = calls + 1
    /\ env' \in [seed : {Unset} \cup Derived \cup printed,
                 iterations : {Unset} \cup 0 .. MaxIterations]
    /\ running' = TRUE
    /\ iteration' = 0
    /\ ran' = << >>
    /\ result' = NoFailure("none")
    /\ UNCHANGED <<config, scenario, printed>>

\* Variant: a pinned seed is taken for the base seed of a run.
RunPinnedDerives ==
    /\ running /\ Pinned
    /\ LET seed == Mixed(env.seed, 0)
       IN  \/ Passes(seed, 0) /\ Return /\ UNCHANGED printed
           \/ Fails(seed, 0)
    /\ UNCHANGED <<config, scenario, env, iteration, calls>>

\* SimulationTest.run with ASKEW_SEED.
RunPinned ==
    /\ running /\ Pinned
    /\ \/ Passes(env.seed, 0) /\ Return /\ UNCHANGED printed
       \/ Fails(env.seed, 0)
    /\ UNCHANGED <<config, scenario, env, iteration, calls>>

\* One turn of its loop otherwise, and the end of it.
RunNext ==
    /\ running /\ ~Pinned
    /\ iteration < Iterations
    /\ LET seed == seed_for(iteration)
       IN  \/ Passes(seed, iteration) /\ UNCHANGED <<running, result, printed>>
           \/ Fails(seed, iteration)
    /\ iteration' = iteration + 1
    /\ UNCHANGED <<config, scenario, env, calls>>

\* Variant: the last iteration is left out.
RunEndsEarly ==
    /\ running /\ ~Pinned
    /\ iteration >= Iterations - 1
    /\ Return
    /\ UNCHANGED <<config, scenario, env, iteration, ran, calls, printed>>

RunEnds ==
    /\ running /\ ~Pinned
    /\ iteration >= Iterations
    /\ Return
    /\ UNCHANGED <<config, scenario, env, iteration, ran, calls, printed>>

\* run_seed, which Replay.run, iteration and check come down to: the environment
\* is not asked, the log is on, and the iteration is not known.
RunSeed(seed) ==
    /\ ~running /\ calls < MaxCalls
    /\ calls' = calls + 1
    /\ ran' = <<Simulated(seed, 0, TRUE)>>
    /\ \/ MayPass(seed) /\ result' = NoFailure("passed") /\ UNCHANGED printed
       \/ MayFail(seed) /\ result' = Failure(seed, 0, TRUE) /\ printed' = printed \cup {seed}
    /\ UNCHANGED <<config, scenario, env, running, iteration>>

ReplayRun == \E seed \in printed : RunSeed(seed)

ReplayIteration == \E i \in 0 .. MaxIterations - 1 : RunSeed(seed_for(i))

Init ==
    /\ config \in [seed : Bases, iterations : 0 .. MaxIterations, trace : BOOLEAN,
                   limit : Limits, lines : Lines]
    /\ scenario \in [fails : SUBSET Derived, flaky : {{}, {seed_for(0)}},
                     events : {0, MaxEvents}]
    /\ env = [seed |-> Unset, iterations |-> Unset]
    /\ running = FALSE /\ iteration = 0 /\ ran = << >> /\ result = NoFailure("none")
    /\ calls = 0 /\ printed = {}

Next == Call \/ RunPinned \/ RunNext \/ RunEnds \/ ReplayRun \/ ReplayIteration

Spec == Init /\ [][Next]_vars

-----------------------------------------------------------------------------

Reliable == scenario.fails \ scenario.flaky
Ends     == running /\ ~running'

\* "Stops at the first failure": a call passes only if each iteration it was asked
\* for passed, and one that fails names the first that does not.  Each was simulated
\* once, in its turn and under its own seed, and the one that failed twice.
NoFailureIsMissed ==
    [][Ends /\ ~Pinned =>
          LET passed == result'.verdict = "passed"
              before == IF passed THEN Iterations ELSE result'.iteration
          IN  /\ Len(ran') = IF passed THEN before ELSE before + 2
              /\ \A i \in 0 .. before - 1 :
                    seed_for(i) \notin Reliable /\ ran'[i + 1].seed = seed_for(i)
              /\ ~passed => /\ ran'[before + 1].seed = ran'[before + 2].seed
                            /\ ran'[before + 2].traced]_vars

\* A failure can be had again: with the seed it printed in ASKEW_SEED, the test
\* fails, and under this very seed, whatever ASKEW_ITERATIONS says; and the
\* iteration it names, unless the seed was pinned, is the one with that seed.
FailuresComeBack ==
    [][Ends => IF Pinned
               THEN env.seed \in printed \cap Reliable =>
                       result'.verdict = "failed" /\ result'.seed = env.seed
               ELSE result'.verdict = "failed" =>
                       result'.seed = seed_for(result'.iteration)]_vars

\* The events a failure shows are the last ones before it, as many as the log
\* keeps and the report asks for; there are none only if the run with the log on
\* passed.
FailureShowsTheEnd ==
    result.verdict = "failed" =>
        LET least == CHOOSE k \in {config.limit, config.lines, scenario.events} :
                        \A j \in {config.limit, config.lines, scenario.events} : k <= j
        IN  \/ result.events = [k \in 1 .. least |-> scenario.events - least + k]
            \/ result.events = << >> /\ result.seed \in scenario.flaky
=============================================================================
