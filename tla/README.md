# askew in TLA+

askew runs asyncio code in a simulation: an event loop whose clock is virtual
and whose order of callbacks is drawn from a seed, a network that loses, delays
and duplicates messages, nodes that crash and are restarted, and a runner that
repeats a scenario under many seeds. What it is good for is finding bugs of other
people's code in rare interleavings, so a rare bug of its own costs twice: it
hides theirs, or it invents one.

This directory holds TLA+ specifications of the library, the configurations with
which TLC checks them on small instances, and theorems about them, for every
value of the constants, with proofs checked by TLAPS. Paths are relative to the
repository; `loop.py` and so on are the files of that name under `src/askew/`.

## 1. The system

| Component | State it keeps | Operations | Modelled in |
|---|---|---|---|
| Event loop, `core/loop.py` | `_now`, the heap `_scheduled`, `_ready`, `_batch`, `_steps`, `_timer_cancelled_count`, `_stopping` | `_run_once`, `_purge_cancelled_timers`; inherited: `call_soon`, `call_at`, `Handle.cancel`, `stop`, `run_forever` | SimLoop, VirtualTime |
| Clock, `core/clock.py` | none of its own | `advance`, `sleep`, `until` | as timers of SimLoop and Network |
| Schedulers, `core/scheduler.py` | none | `order` of Fifo, Random, Reverse, Partial | Rng; as any order in SimLoop and Runner |
| Generator and seeds, `core/rng.py` | the generator | draws, `shuffle`, `sample`, `fork`, `SeedMixer.mix` | Rng, SeedMixer; single draws are choices elsewhere |
| Network, `sim/net.py` | `_partitions`, `_links`, four counters, `_seq`, timers of copies in flight | `send`, `broadcast`, `configure`, `partition`, `isolate`, `heal`, `_deliver`; `Partition.apply`, `heal` | Partitions, Network |
| Node, `sim/node.py` | `alive`, `task`, `_inbox` | `send`, `broadcast`, `recv`, `try_recv`, `deliver` | Network, Cluster; `recv` step by step in Mailbox |
| World, `sim/world.py` | `nodes`, `node_errors`, `_chaos` | `spawn`, `restart`, `crash`, `start_chaos`, `cancel_all`, `_node_finished` | Cluster, Runner |
| Faults, `sim/faults.py` | `crashed` | `crash`, `crash_random`, `partition_random`, `chaos` | Cluster |
| One iteration, `testing/runner.py` | the report | `Simulation.run`, `main`, `teardown` | Runner |
| A campaign, `testing/runner.py`, `config.py`, `replay.py` | the configuration, two environment variables | `SimulationTest.run`, `check`, `run_seed`, `with_environment`, `seed_for`, `Replay` | Campaign |
| Event log, `core/log.py` | a bounded deque | `add`, `tail` | Campaign |
| Reports, errors | copies of counters | | as "ok or not", and the events shown |
| Examples, `src/examples/` | balances and a lock; term, leader and votes | `transfer`, `apply`; `Replica.run` | Ledger, Bank; Election |

How they interact. Everything runs on the one loop and in its thread. A coroutine
suspends by leaving a callback somewhere: in the ready queue, on the heap, or on
a future. `Network.send` draws the fate of a message and leaves one timer per
copy; `_deliver` runs when the timer fires and puts the message into the
mailbox, which wakes a `recv`. `FaultInjector.crash` marks a node, empties its
mailbox and cancels its task, which learns of that at its next step. A task that
ends queues `World._node_finished`, which runs a tick later. `Simulation.run`
enters the loop twice, for the scenario and for the clean-up, and closes it.

What is hard in it. There are no threads and no real failures, so what could go
wrong is order: which callback is in which tick; what changed between a send and
an arrival, an await and its end, a cancellation and the clean-up that answers
it; which of two flags that mean the same is out of date; what is left behind
when a tick is abandoned in the middle. A test runs a few of those orders. The
list of `hazards` in PROJECT.json names each at its line, with the properties
that watch it.

What makes each component correct:

- Loop: a callback runs once, at its instant; time never goes back, and jumps only
  when nothing is due; a limit ends a run; a reported deadlock is one; the
  heap stays bounded; nobody is starved.
- Splits: nobody is cut off any longer than some split is active, and none ends
  another.
- Network: every copy ends in exactly one counter, a number stands for one
  message, a link is one direction, a refused broadcast stops.
- Nodes and world: what is down holds no message; the list of the crashed is the
  nodes that are down, also for the chaos loop's limit; what chaos cuts is healed.
- Mailbox: a message in it has a task that will take it, if any waits; a `recv` that
  was struck by a crash says so, and one with a timeout comes back.
- Iteration: the failure of a node is recorded, the failed iteration fails, no
  clean-up is forgotten, and clean-up does not change the verdict.
- Campaign: it stops at the first seed that fails, a failure comes back under
  the seed it printed, and its trace ends where the run did. Seeds are distinct, and
  each order of a batch is as likely as the other.
- Examples: the guarded ledger is a bank; a term has one leader.

## 2. The modules

    VirtualTime      what a loop with virtual time promises (abstract)
    SimLoop          the loop; implements VirtualTime          SimLoop_proofs
    Partitions       Partition objects and the list they share Partitions_proofs
    Network          EXTENDS Partitions: links, messages, mailboxes
    Cluster          EXTENDS Network: nodes, crashes, chaos; implements Partitions
                                                               Cluster_proofs
    Runner           the tasks of one iteration, tick by tick  Runner_proofs
    Mailbox          recv on an asyncio.Queue, step by step    Mailbox_proofs
    Rng              draws and the orders of the schedulers    Rng_proofs
    SeedMixer        the seeds of a run                        Rng_proofs
    Campaign         calls of a test, replay, the log          Campaign_proofs
    Bank             what a ledger promises (abstract)
    Ledger           transfers around a lock; implements Bank  Examples_proofs
    Election         the replicas of leader_election.py        Examples_proofs
    MC<module>       values of constants for TLC
    MCCampaign       Campaign, with Rng and SeedMixer counted out next to it
    MCSmall          Mailbox, Ledger and Election in one run

`Variant` operators next to a definition are the ways it could plausibly have
been written wrong; nothing uses them except the mutants that PROJECT.json lists,
which show that each property is sensitive to the code it is about.

### SimLoop

The variables are the fields, with the names of the code. A handle is a member of
`Handles`, free to be used again once it is in no queue. `_scheduled`, the heap,
is a function from the timers on it to their deadlines: which of two equal ones is
in front is not decided, and `Sweeps` has every result the popping of cancelled
timers can come to. `flagged` is the set of handles with `_scheduled = True`; the
count of cancelled timers is kept by that flag, so it is a variable of its own,
and the type invariant states that the flag tells the truth.

`_run_once` is cut where code of a user runs: `Tick` (the sweep or purge, the
jump, the promotion, filling `_batch`), one `Skip` or `RunHandle` per handle of
the batch, `EndTick`. The ways out are actions of their own: `RaiseTimeLimit`,
`RaiseDeadlock`, `ReturnIdle`, `RaiseStepLimit`. While a callback runs, and
outside `run_forever`, the user may call `CallSoon`, `CallAt`, `CancelHandle` and
`Stop` in any order. A callback ends by `Finish`, or by `Interrupt`
(KeyboardInterrupt and SystemExit are the two exceptions `Handle._run` lets
pass), which leaves `_batch` and the local count of steps as they are. A batch is
visited in any order: the orders of every scheduler, and so every property holds
with each of them.

`due` is a ghost: what has been asked for and neither started nor cancelled, with
the instant it is owed at. `VirtualTime` is the same seen from outside: register,
cancel, fire at the instant, jump to the earliest. It is implemented with
`pending <- due` and `broken <- Broken`. Its promise ends when a run was broken
off in the middle of a batch, by the limit on steps or by an interruption: the code
then throws the rest of the batch away, or keeps the whole of it, and the next
tick runs it again at a later instant, what had run already included; the specification
says no more than that time does not go back. `started` is a ghost too, the callbacks
started, to set the limit on steps against: the code's own count is kept in two places.

### Partitions, Network, Cluster

`Network._partitions` is a list of groupings, from which `deactivate` removes the
first equal one; `Partition._active` is a flag per object. Only how often a
grouping is listed can matter, so `held` is a bag. The two can disagree, since
`Network.heal` clears the list and tells no object; that disagreement is what
the module is about. `overruled` is a ghost: the splits that were active when it
happened.

A send (`Dispatch`) settles loss, duplication and latency at once, for one
target or for the targets of a broadcast in turn, and leaves a record per copy in
`inflight`; `at` is the deadline of its timer and `deliver_at` the field of the
message, the same for both copies, as in the code. `Deliver` looks at
reachability and at `alive` when the timer fires. Probabilities are the sets of
outcomes a draw can have: {FALSE} for 0.0, {TRUE} for 1.0, BOOLEAN between.
Latencies are whole numbers, and both ends of the range are taken; `uniform`
excludes the upper end unless the ends are equal, which makes no difference to
order. `PassTime` relies on what SimLoop is proved to do: no timer is passed
over, none fires early.

`Cluster` adds the nodes: `Spawn`, `Crash`, `Restart`, and the chaos loop, with
its next wakeup and the timers that heal what it cut. The coroutines of the nodes
and of the scenario may send, broadcast, receive, split, heal, crash and restart in
any order, in the clean-up of a crashed node too: `Node.broadcast` and `recv` do
not ask whether the node is up, and the model does not either.

### Runner

One iteration on the tasks of a loop, at the level at which asyncio makes the
order: `next` holds the callbacks queued for the next tick, `left` those of this
one, and a tick may run them in any order. A task that ends queues its done
callbacks: `_node_finished` for a node's task, the step of a scenario that awaits
it, the callback of `run_until_complete`, of `gather`. A cancelled task gets a
CancelledError at its next step, which it may answer with a clean-up that awaits
as often as it likes, or swallow. `LeaveMain` is everything from the end of the
first `run_until_complete` to the second: the report, `cancel_all`, the list of
pending tasks. `Creates` with `Spawn`, `Restart`, `StartChaos` and `CreateTask` is
how a task of `Workers` gets an owner, and `spawned` remembers those of nodes;
`cancel_all` (`LeftBehind`) knows the tasks that nodes hold now, and the last
chaos loop.

`since` and `refused` are ghosts: how many ticks before the end of the scenario a
node failed, and who swallowed a cancellation.

### Mailbox

One mailbox and the tasks that wait at it: the node's own and those that crashes
left behind, which may go on to receive in their clean-up, from the mailbox their
successor has. `asyncio.Queue` and `asyncio.timeout` are external code, modelled from
how `recv` uses them: `getters` is the line of futures, and `stage` is where a task
is, or the state of its future. `Deliver` puts a message and wakes the first that is
still pending (`WakeNext`); the message stays in the mailbox until `Resume`, and by then
a timeout (`Expire`) or a crash may have cancelled the task (`Throw`), or another one
may have been faster (`TakeAtOnce`). `Outcome` is the `except TimeoutError` of recv:
the timeout is told by None only if it alone cancelled the task. `struck` and `last` are
ghosts: whom a crash has met inside recv, and what came out of it.

### Rng, SeedMixer and Campaign

`Rng` has the algorithms as functions of the values drawn: `below`, `shuffle`, `sample`,
`partial`, `Order`. The three that draw places are rows of swaps, made one after the other
by `Swapped`. A draw is a multiple of 1 / `Resolution` instead of 2^-53; with 12, which the
bounds used divide, "equally likely" is a count. `SeedMixer` has `mix`, its arithmetic
modulo 2^`Width`, with shifts and factors made for that width; `>>` divides by a
power of two and `^` goes by halves, both for numbers of any size, so that only the masks of
`mix` keep a seed to its width. `Campaign` knows it only as
the constant `Mixed`, so what is proved of it holds for any mixer; in the run `Mixed` is `mix`.

`Campaign` is a decorated test that is called several times. What an iteration does is
the business of Runner; here the seeds in `scenario.fails` fail, those in `scenario.flaky`
may do either, since a scenario can break the rules and look at a real clock. `Call`
is the developer with the two variables set to anything, a printed seed included.
`RunPinned` and `RunNext` are the two branches of `SimulationTest.run`, `Fails` is
`check` with its second, traced run, and `RunSeed` what `Replay` comes down to. A failure
carries the tail of the log, and `Logged` builds that log by `Add`, event by event.
`ran` and `printed` are ghosts.

### Ledger, Bank and Election

`Ledger` is `apply` with its await in the middle: `Check` reads the balance, `Audited`
moves the money. The asyncio.Lock is external code: a transfer that finds it free takes
it at once; otherwise it stands in line, behind a waiter that was woken and has not
run as well (`Free`). `Bank` is a transfer in one step, implemented with
`settled <- Settled`. Without the guard that is false, as the example means to show.

`Election` is `Replica.run`: `Timeout`, and one disjunct of `Receive` for each kind of
message. `sent` only grows: any message may be received at any time, again, or never.
That is more than Network does, so what holds here holds on it.

## 3. What TLC checks

| Run | Bounds | Distinct states | What it shows |
|---|---|---|---|
| loop | 3 handles, instants 0..3, limit 2 on time and 3 on steps, 2 calls of `run_forever`, threshold 1, interruptions | 258,630 | TypeOK, Consistent, NothingLost, OnTime, LimitsAreExact, ClockMonotone, DeadlockIsReal, HeapBounded, ImplementsVirtualTime |
| loop_live | 3 handles, instants 0..1, no limits | 24,244 | NoStarvation, Termination |
| cluster | 2 nodes, 2 sends, latency 0..1, loss and duplication, 1 crash, 2 instants | 613,585 | Conservation, DownIsEmpty |
| cluster_links | 3 nodes, 2 splits with one grouping, raise_on_partition, 2 sends, 2 links to configure, 2 instants | 318,864 | TypeOK, NoPhantomSplit, EachHoldsItsOwn, OneWayOnly, NothingBehindARefusal |
| cluster_chaos | 2 nodes, chaos loop, 1 split of the scenario's, 3 crashes, 4 instants | 597,815 | CrashedAreDown, ChaosIsHealed, ChaosKeepsQuorum, PartitionsSpec |
| runner | main and 2 workers, which may be tasks of nodes, the chaos loop or the scenario's own; both limits | 695,246 | TypeOK, ErrorsAreFailures, MissedDeathsAreLate, CleanupRuns, VerdictIsFinal |
| campaign | 3 iterations, any set of failing seeds, 2 calls; 3 events, logs of 2 and 4, tails of 1 and 3; batches of up to 4 and 12 values of a draw; seeds of 8 bits | 267,848 | FailureShowsTheEnd, DrawsAreFair, SeedsAreUnique, NoFailureIsMissed, FailuresComeBack |
| small | mailbox: 3 incarnations, 3 messages. Ledger: 4 transfers of 1 or 2 between 2 accounts with 2 each. Election: 3 replicas, 2 terms, quorum | 151,172 | MailboxTypeOK, EveryMessageHasATaker, CrashIsNotSwallowed, TimedRecvReturns; ImplementsBank, TransfersSettle; OneLeaderPerTerm, LeadersAreElected |

Each of the following runs checks one sentence of the documentation, and TLC
finds a behaviour of the code that breaks it; see section 5: cluster_down,
cluster_restart, runner_deaths, runner_raises.

Why the bounds are enough to be interesting:

- Three handles make a batch with a rest: one runs, one is cancelled by it, one is
  queued behind. Four instants let a deadline be before, at and after the limit.
  The threshold of 1 is crossed by two cancellations; in the code it is 100, and
  the proofs leave it open. Two calls of `run_forever` show what the first one leaves
  to the second. The handles are interchangeable, so `loop` uses symmetry;
  `loop_live` does not, since it checks liveness.
- Two objects with one grouping let one be healed while the other holds it, after
  `Network.heal` as well. The theorems hold for any number.
- Two nodes suffice for what concerns one message and its target; both copies of one
  message, or one message in each direction, can be under way during a crash and a
  restart. What concerns a broadcast needs three nodes. Node 1 is
  the one that is cut off: a broadcast of node 0 is refused there with node 2 in reach
  behind it, one of node 1 at once, and one of node 2 behind node 0.
- Two objects of the chaos loop let one split be made before the other is healed;
  four instants are two turns of it and the timers of both splits.
- Two workers are a node and its second incarnation, two nodes, or a node and a task
  that `cancel_all` does not know of. They are interchangeable, hence the symmetry.
- Three tasks at a mailbox are one that was woken and is cancelled, one to pass the
  wake-up on to, and one that is faster; three messages come before, between and
  after.
- Three iterations have a first, a last and one that is neither; a log of 2 with
  3 events has dropped one, and a log of 4 is shorter than it could be.
- Four transfers are one that holds the lock, one woken in its place, one in line
  behind it and one that begins just then. Three replicas are the smallest number with
  a majority that is not all; two terms let a grant come in the wrong one. The
  theorems hold for any number of either.

`small` puts three specifications into one run: `part` is settled at the start of a
behaviour, and the other two do not move in it. In `campaign`, the sizes of a batch and
the seeds of a run are states of their own (`size`), in which draws are counted.

Bounds that are guards and no code: `Entries` in SimLoop, `MaxSent` and `Horizon`
in Network, `MaxCrashes` in Cluster, `MaxSent` and `Incarnations` in Mailbox, `MaxCalls`
in Campaign, `MaxTerm` in Election. A run that reaches them stops, as does the
closed loop of Runner, a ledger whose transfers are settled, and a simulation in
which nobody does anything any more; hence CHECK_DEADLOCK FALSE in those
configurations.

Fairness. `FairSpec` of SimLoop states weak fairness of `LoopStep` and of
`Finish`. The first is the `while True` of `run_forever`, which calls
`_run_once` again and again, and the `for` over the batch; the second says that
a callback, which is synchronous code, returns. Nothing obliges a user to call
`run_forever` or to do anything in a callback. Under that, `NoStarvation` says
that a ready callback starts, is cancelled, or the loop is left, though others
queue callbacks for ever; it holds because a tick takes the whole ready queue.
`Termination` says that a loop for which nothing new is registered comes back;
it depends on cancelled timers being swept before the queues are looked at.

Mailbox and Ledger build on that (`FairSpec`, `LedgerFairness`, together in `MCSpec`). A
task that was woken or cancelled has its step in the ready queue, and gets it
(`Resume`, `Throw`, `LedgerStep`): that is NoStarvation. A timer that is armed is
reached (`Expire`): the clock jumps when nothing is due. The weak fairness of
`Resume` and `Throw` is one condition for both, since a crash may turn one into the
other. Nothing obliges a message to arrive or a node to crash. `TimedRecvReturns` says
that a recv with a timeout comes back although others take each message before it, and
`TransfersSettle` that whoever stands in line for the lock will have it.

## 4. What TLAPS proves

All proofs are for any value of the constants under the assumptions that the
modules name (`ConstantsAssumption`, `SplitsAssumption`, `NetworkAssumption`,
`ClusterAssumption`, `RunnerAssumption`, `MailboxAssumption`, `CampaignAssumption`,
`RngAssumption`, `SeedMixerAssumption`, `LedgerAssumption`, `ElectionAssumption`):
finite sets of handles, splits and replicas, limits that are natural numbers, nodes numbered from zero, names of tasks
that are not those of anything else, an increment and two factors of the mixer that are odd, as
the code's are. The theorems about the ledger also assume that it is
`Guarded`; `EverySeedOnce` that the mixer is the one of the code (`MixerOfTheCode`), and
`EveryOrderAsLikely` that draws are fine enough (`FineDraws`).

**SimLoop_proofs.** The invariant properties are not inductive one by one. `IInv`
is their conjunction: TypeOK, Consistent, CountCovers, NothingLost, OnTime.
`NothingLost` needs `Consistent` (a handle in
the ready queue is not on the heap, so clearing one queue loses nothing of
the other); `OnTime` needs NothingLost (what is not on the heap is of this
instant); `HeapBounded` and the purge need `CountCovers`, since the code trusts
a count and not the heap. There is one lemma per group of actions
(`CallSoonIInv` ... `ControlIInv`), about the sweep one of its own
(`SweepFacts`). From `InvariantHolds` follow

- `TypeCorrect`, `QueuesFitTogether`, `NothingIsLost`, `EverythingOnTime`;
- `ClockIsMonotone`, by way of `ClockStep`: a step leaves the clock alone or moves it
  forward, to an instant within the limit;
- `LimitsHoldExactly`, which needs two invariants more. `StepsCounted`: the callbacks started are
  the local count of steps, until it is over the limit, and that count is the field
  between ticks. `ClockLimited`. That nothing due by the limit is given up
  (`AllPastTheLimit`) follows from NothingLost and OnTime: with the ready queue empty,
  what is owed is on the heap, none of it earlier than where the jump would have gone;
- `DeadlocksAreReal`, `HeapIsBounded`;
- `LoopImplementsVirtualTime`: each action maps to a step of VirtualTime or to
  none of its variables; a `Tick` is a `Jump` or a stutter, `RunHandle` is `Fire`.

What the two liveness properties rest on is safety, and proved too. `TicksGoOn`: between two
ticks there is a way on, whatever is on the heap (`SweepExists`, `JumpExists`; both need that a
set of instants has a least). `LoadsFall`: as long as nothing new is asked for, `Load`, a number, never
grows, and each step of the loop and each callback that returns lowers it; this is why
Termination holds. It counts four for each handle still to be put into a batch, two for each
that is in one, and one for the callback that runs. `PlacesAlwaysFall`: the same of
`Place(h)` for a callback that waits for its turn, whatever else is asked for, since a batch
that is being visited only gets smaller and the next one takes the whole ready queue; this
is why NoStarvation holds.

**Partitions_proofs.** Both invariants compare a number in the bag with the size of
the set of active splits of a grouping; `ApplyHolders` and `HealHolders` say how
that size changes. `PartitionsTypeCorrect`; `NoPhantoms`, with the corollary
`WholeAgain`: when no split is active everybody reaches everybody, whatever was
applied, healed, and healed over the heads of others; `SplitsAreIndependent`.

**Cluster_proofs.** Lemmas sort the steps of a cluster into classes by what they do to the
variables a proof is about: `Classes` (splits, clock and heal timers), `NodeClasses` (nodes
and mailboxes), `TrafficClasses` (messages and counters). What a send does is in
`SendersDispatch`, `SendingCopies` and `SentType`, for `Send` and `Broadcast` together.

- `ClusterKeepsToPartitions` is the refinement: a cluster is a run of Partitions, so the
  theorems above hold of it (`ClusterHasNoPhantoms`). `ChaosWillBeHealed`: an active
  split of the chaos loop has a timer that is not yet past. Both use `TimersTyped`, the part
  of the type invariant that concerns the timers.
- `ClusterTypeCorrect`. The type invariant is inductive. It is what the next ones rest on.
- `MailboxesOfTheDown`: inductive with the types, since a delivery looks at `alive`.
- `TheCrashedAreTheDown`. CrashedAreDown is not inductive in a form that can be used: that the
  list is as long as the set has to be said as "no node is listed twice" (`Listed`), or taking
  one entry off might leave the node on it. `ListedOnce` gets the length back.
- `ChaosLeavesAQuorum` follows: the loop compares the length of the list, and that is the
  number of nodes that are down, whoever crashed them.
- `BooksBalance`. The invariant (`Books`) adds that what is in flight is finite and has
  numbers that were given out: otherwise a new copy could be one that is in flight already,
  and be counted once instead of twice. `CopiesCounted` counts the copies of a send: those
  accepted and those doubled, no two of them the same.
- `LinksAreOneWay`. It is inductive with the types; `MailboxesGather` and `LinksGrow` are
  the two directions: no message comes out of nothing, no configuration is taken back.
- `NothingIsSentBehindARefusal` holds whatever the links lose or double. What a broadcast sends
  to is the set of those with nobody out of reach before them, and that is everyone up to
  the first who is (`RefusedTargets`).

**Runner_proofs.** `VerdictsAreFinal`: the report is made on leaving the first
phase and only then (`ReportedOnce`), and not touched after it. The other theorems rest on
one invariant, `RunnerInv`, since asyncio's order of things hangs together:

- `QueueOK`: a task that is alive is suspended, or running, or its step is queued, and only
  one of these; the limit on steps is the only thing that loses a step.
- `CallbacksOK`: done callbacks are queued for tasks that have ended, and that somebody
  listens to. Without it a callback could come for a task that has not failed.
- `RolesOK`: no task is a node's and the chaos loop's.
- `StopsOK`: the loop is stopped for the end of main in the first phase, and in the second
  for the end of all that `gather` waits for.
- `AgesOK`: a failure that is one tick old has its callback in this tick or behind it.
- `ToldOK`: whoever lost its node, and everybody in teardown, has a CancelledError ahead, or
  has had it.

From it follow `RunnerTypeCorrect`; `EveryFailureIsAnError`; `DeathsAreMissedByATick`, the
exact extent of the divergence in `runner_deaths`: with QueueOK and AgesOK, whatever
is older than a tick has had its callback; and `NobodyMissesItsCleanup`, from ToldOK and
StopsOK.

**Mailbox_proofs.** `NoWakeUpIsLost`: while a task waits, there is a task woken for each
message. The invariant adds that whoever is pending stands in line (`InLine`): otherwise
a wake-up could find the line empty and be lost. The number of tasks woken goes up by
one with each message (`DeliverInv`), down by one with each that is taken
(`ResumeInv`), and stays when a task leaves with an error, which wakes the next
(`ThrowInv`); `Counting`, `Waking` and `Moving` are the lemmas about it.
`MailboxTypeCorrect` and `CrashesAreHeard` need `LineInv`: nobody stands in line twice
(`LineOK`), and whoever was struck by a crash, or whose time is up, has a CancelledError
ahead as long as it is in recv (`CancelOK`). So a crash is heard: the expiry of a timeout
finds the cancellation of the crash and cannot take it for its own.

`TimedOutAreDue` and `TimedOutRecvReturns` are what TimedRecvReturns rests on: a task whose timer
has expired does not depend on anybody's wake-up (`ErrorsDoNotWait`), and stays so, whoever takes
or brings messages meanwhile, up to its own next step, which leaves recv.

**Campaign_proofs.** `CampaignInv` says that in a call under way, every iteration so far was
simulated once, under its own seed, and may have passed (`InTurn`). `HowCallsEnd` has the
two ways a call comes to its end. `FailuresAreFound` and `FailuresAreReproduced` follow, for any
mixer of seeds. `FailuresShowTheEnd` is about data: after n events the log has the last of
them, as many as it keeps (`LoggedIsTheLast`), for any capacity, zero included, and the tail
of that is the end (`TailOfTheLast`).

`EverySeedOnce` is `MixPermutesSeeds` (below) for the mixer of the run: as many iterations as
there are seeds get each of them. `EveryOrderAsLikely` is DrawsAreFair for any resolution
that the bounds of these batches divide (`FineDraws`), as 12 in the configuration.

**Rng_proofs.** For a batch of any size. `OrdersRearrange`: whatever
is drawn, each of the four schedulers makes a rearrangement of the batch, which is what SimLoop
assumes when it visits a batch in any order. `EveryOrderComes`: for every order of a batch
there are draws with which the shuffle makes it, and `OneWayToAnOrder`: two shuffles that make
the same order drew the same places. So orders and choices of places are one to one, and
where the draws favour no place the shuffle favours no order. `OrdersAreEquallyLikely` counts
that out: if every bound divides the number of values of a draw, each order has as many draws. A
draw is then a place and a rest (`DrawSplits`), and the draws for one order become those for
another by a change of places under the same rests, which can be taken back (`EvenlySpread`,
`DrawsSpread`). The code's 2^53 values are not divided by 3, so there a place may have one value
more than another: that bias is the draw's, and the shuffle adds none. `SamplesAreOfPlaces` and
`PairsAreEquallyLikely` are about `sample`.

For seeds of any width, `MixIsOneToOne`: from one base, two indices below 2^`Width` never get
the same seed. `MixPermutesSeeds` adds that what they get are seeds, so that each number of
`Width` bits is the seed of one index. Each step of `mix` can be undone. The first, adding a multiple of
`Gamma`, and the two multiplications can because an odd number has no factor in common with a power
of two (`OddFactor`). That a number mixed with itself shifted to the right by an exclusive-or can
be undone is seen from the top down: the topmost bits are those of the number, and each lower bit
follows from the bits above (`XorShiftIsOneToOne`).

Two things make these proofs possible without induction over data. A recursive function is
a CHOOSE, so it first has to be shown that its recursion has a solution: `LoggedDefinition`
by giving one, `SwappedDefinition` step by step, and for the powers of the mixer
`RecursionHasASolution`, from a solution up to each number. The exclusive-or calls itself with
halves: `XorReaches` and `XorAgrees` have a solution up to each number and that any two
agree, `XorDefinition` puts them together, and `XorHasBits` reads off the bits. And
induction on a number is the least counterexample of a set of numbers (`LeastMember`, from
WellFoundedInduction).

**Examples_proofs.** The ledger: `LedgerImplementsBank`, and `NoAccountIsOverdrawn`, the assertion that
the example makes. Neither is inductive: what is needed is that one transfer at
most is between its check and its end (`OneAudits`), that what it checked still
holds (`CheckHolds`), and that nobody stands in line twice or with a check behind him
(`InLine`). A check that fails is Refuse, the step after the audit is Transfer.
What TransfersSettle rests on: while somebody waits for the lock, an audit is under way or the
first in line has the lock for the taking (`LockAlwaysMovesOn`), and nobody in line is ever overtaken:
`Ahead`, two for each place in line and one for the audit under way, never grows, and each step
of whoever is in front lowers it (`NobodyIsOvertaken`).

The election: `OneLeader` and `LeadersHaveMajorities`. Two majorities have a
replica in common (`MajoritiesMeet`), and a replica grants a term once and not if it
stands in it itself (`OneVote`). That needs `Past`: who granted a term, or stood in it,
is in no earlier one. `VotesAreOfTheTerm` is why old votes do no harm: as long as a
replica is in the term it stood in, the votes it has are of that term.

Only model-checked: NoStarvation, Termination, TimedRecvReturns and TransfersSettle, which
are liveness: the numbers behind them are theorems, the inference from fairness is not, since the
provers know nothing of ENABLED. All other properties of passing runs are theorems.

## 5. Where the code and its documentation disagree

With a run:

1. `cluster_down`. `Node.broadcast` (node.py:79) does not test `alive` as `send`
   does: the clean-up of a crashed node sends to everybody, and the messages
   arrive. errors.py:164 says such code "gets told plainly, instead of sending
   into a network that would drop it".
2. `cluster_restart`. `_deliver` asks whether the target is up when the message
   arrives. A node that crashed and came back meanwhile receives what was sent to
   it before; world.py:161 says its mailbox "starts empty, since whatever was in
   flight when it died is gone".
3. `runner_deaths`. `main` reads `node_errors` in the step in which the scenario
   returns; a death is recorded by a done callback one tick after it. A node that
   dies in that tick is not reported, though run and teardown both come later
   than the callback; runner.py:85 says it is "reported even when the scenario
   itself passed". `MissedDeathsAreLate` shows that no other death is missed.
4. `runner_raises`. A scenario that awaits the task of a crashed node ends in
   CancelledError, which is no Exception: it leaves `run` without a report, and
   the campaign with it. runner.py:49 says run "never raises for a failure in the
   scenario".

Met while modelling, and visible in the models without a run of their own:

- After `Network.heal` a Partition still believes it is active: `apply` does nothing
  (net.py:133), and a late `heal` takes the entry of an equal split (net.py:322).
  `EachHoldsItsOwn` makes an exception of exactly that (`overruled`).
- A message in flight survives a split that forms and is healed before it arrives;
  net.py:12 and 140 say it is lost.
- Both copies of a duplicated message carry the `deliver_at` of the first.
- `sent` counts messages that are refused on the spot; net.py:165 says accepted.
- `partition_random(2)` cuts three nodes into three parts (faults.py:155).
- On the limit, `steps` is one more than the callbacks executed (loop.py:202, 69);
  and as the count stays over, teardown's clean-up runs nothing at all
  (`RaiseStepLimit` of Runner with `over`, against runner.py:100).
- Teardown waits for tasks that are no node's and does not cancel them, the
  scenario's own after a deadlock among them (runner.py:111, 97).
- A second `start_chaos` forgets the task of the first.
- An interruption leaves `_batch` full; the next tick runs the whole of it again, the
  callbacks that had run already included.
- Runs under FifoScheduler and RandomScheduler do not "see the same latencies and the
  same faults" (scheduler.py:72): there is one generator, and the shuffle of a batch
  takes n - 1 draws out of it (`shuffle` of Rng). `with_environment` and `Replay` do not
  change the scheduler, so a printed seed is not affected.
- PartialScheduler at its default intensity leaves a batch of fewer than four as it is,
  and swaps any two places (`partial`); scheduler.py:124 speaks of "occasional
  inversions between neighbours".
- "Pinning a seed also forces a single iteration" (config.py:141), but
  ASKEW_ITERATIONS overrules it (`Iterations` of Campaign). It makes no difference, since
  a pinned run has no loop.
- A failure under a pinned or replayed seed names iteration 0, whichever it came from.
- leader_election.py:104 asks that "at no point may two nodes each believe they are in
  charge". `OneLeaderPerTerm` is what the quorum gives; a leader that grants a later term
  keeps `leader == id` until it hears of the new one (`Grant` leaves `leader` alone), so
  for that time two of them do believe it.
- A timer promoted while cancelled is not discounted, so the count may exceed what
  is on the heap; `CountCovers` is an inequality for that reason.

## 6. Abstractions

Messages have no payload; nodes have no names; the log is left out of the models of a
run, since nothing reads it there. Exceptions of a callback go to the loop's handler and
change nothing here. A message to a number that no node has, which raises in
`_deliver`, is not sent. A task does not crash its own node in Runner. Control-c
is modelled in SimLoop and not in Runner. The attributes that `restart(fresh=True)`
wipes belong to the scenario. Time is left out of Runner: a task waits for a timer,
an event, or a node's task, and any timer may be the next. With
`detect_deadlock=False` a run without callbacks ends in a RuntimeError of
asyncio's instead of a DeadlockError, to the same effect.

Mailbox: one node, and only its own tasks receive; the code lets a scenario call
`node.recv` as well, which adds a waiter that no crash cancels. A node does not crash
itself inside its own recv. A crash that meets a task outside recv is `Return`, or
nothing yet: what the clean-up does next is free. Campaign: the outcome of a run is a
set of seeds, and what fails is told by seed alone. Ledger: `Amounts` are what the
scenario draws; the `guard` and `quorum` of the two examples are constants, and the runs
and theorems are about the correct variants, which the naive ones are compared with.
Election: replicas do not crash, as in the scenario, and time is left out: a timeout
may come whenever a replica waits.

## 7. Not modelled

Not modelled: `Rng.fork`, which nothing in the library calls, and `between`, `uniform`,
`chance` and `choice`, each a draw that the other modules take for a free choice; the
arithmetic of units in clock.py; the refusals of real I/O in the second half of loop.py,
and of variables that are no integers in config.py (they raise and change no state); the
wording of reports, exceptions and records of the log; package metadata.

Two hazards have no property. That three nodes in two parts come out as three
(faults.py:155), and that draws of the scheduler shift those of the network
(scheduler.py:73), are divergences of section 5; no property of the models depends on
them, since each takes every grouping and every draw.

## 8. Running it

    tlc -config SimLoop.cfg MCSimLoop       # a run: its cfg and MC module
    tlapm SimLoop_proofs.tla                # a proof module
