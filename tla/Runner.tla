------------------------------- MODULE Runner -------------------------------
(***************************************************************************)
(* One iteration of askew.testing.runner: Simulation.run, main and         *)
(* teardown, with World.spawn, restart, crash, start_chaos, cancel_all and *)
(* _node_finished, on the tasks of a loop.                                 *)
(*                                                                         *)
(* What matters here is which callback runs in which tick.  A task that    *)
(* ends does not tell anybody at once: its done callbacks are queued, and  *)
(* run in the next tick, in any order among the steps that are due there.  *)
(* A tick is the set of callbacks left to run; what they queue is next.    *)
(* Time and messages are left out: a task waits for a timer, which is an   *)
(* instant some jump of the clock reaches, or for an event, which is       *)
(* something another task does, or for the end of a node's task.           *)
(***************************************************************************)
EXTENDS Integers, FiniteSets

CONSTANTS
    Workers,         \* the tasks that may be created: those of nodes, the chaos
                     \* loop, and the scenario's own
    Main,            \* the task of main, and of the scenario it awaits
    Strict,          \* strict
    StepLimited,     \* whether max_steps may be reached
    TimeLimited      \* whether max_time may be reached

Tasks  == Workers \cup {Main}
Nobody == "nobody"

ASSUME RunnerAssumption ==
    /\ Main \notin Workers
    /\ Nobody \notin Tasks
    /\ {"no", "timer", "event"} \cap Tasks = {}
    /\ {Strict, StepLimited, TimeLimited} \subseteq BOOLEAN

VARIABLES
    phase,      \* "main": the first run_until_complete, "teardown": the second,
                \* "closed": the loop is closed
    pc,         \* where the coroutine of a task is
    waiting,    \* what a task is suspended on; "no" if its step is queued
    cancelling, \* CancelledError awaits the task at its next step
    end,        \* how a task ended
    running,    \* the task whose step is under way
    next,       \* the callbacks queued for the next tick
    left,       \* the callbacks of this tick that have not run
    stopping,   \* _stopping
    spawned,    \* the tasks that spawn and restart created
    owned,      \* task of every node: what cancel_all knows of, with ...
    chaos,      \* ... _chaos, the task of the chaos loop if there is one
    down,       \* those whose node is not alive
    errors,     \* node_errors, as the tasks they came from
    over,       \* the limit on steps was reached
    gathered,   \* the tasks teardown waits for
    gone,       \* those of them it has heard the end of
    report,     \* what run gives back: "none" before it is made, "ok", "failed",
                \* or "raised" if an exception leaves it instead
    since,      \* ghost: ticks from the failure of a node to the return of the
                \* scenario, 2 for more, -1 if it did not fail before that
    refused     \* ghost: the tasks that swallowed a cancellation

tasks == <<pc, waiting, cancelling, end>>
world == <<spawned, owned, chaos, down, errors>>
loop  == <<running, next, left, stopping, over>>
ends  == <<phase, gathered, gone, report>>
ghost == <<since, refused>>
vars  == <<tasks, world, loop, ends, ghost>>

Step(t) == <<"step", t>>    \* the next step of a coroutine
Done(n) == <<"done", n>>    \* _node_finished
Heard(t) == <<"heard", t>>  \* the callback of gather
StopRun == <<"stop", Main>> \* the callback of run_until_complete

Ended(t) == pc[t] = "done"
Alive(t) == pc[t] \in {"new", "body", "cleanup"}
Sleeping == {t \in Tasks : waiting[t] = "timer"}

-----------------------------------------------------------------------------
(* The step of a task: it begins, does what it does, and suspends or ends. *)

\* Task.cancel for each of S: one that is suspended is queued, one that is
\* queued already finds the error there.
Cancel(S) ==
    LET hit == {t \in S : Alive(t)}
    IN  /\ cancelling' = [t \in Tasks |-> cancelling[t] \/ t \in hit]
        /\ waiting' = [t \in Tasks |-> IF t \in hit THEN "no" ELSE waiting[t]]
        /\ next' = next \cup {Step(t) : t \in {u \in hit : waiting[u] # "no"}}

\* The coroutine of t is over.  Whoever waits for the task is told in the next
\* tick; to the scenario, the end of a cancelled task is a CancelledError.
Settle(t, how) ==
    LET heirs == {u \in {Main} : waiting[u] = t}
    IN  /\ pc' = [pc EXCEPT ![t] = "done"]
        /\ end' = [end EXCEPT ![t] = how]
        /\ cancelling' = [u \in Tasks |->
              IF u = t THEN FALSE
                       ELSE cancelling[u] \/ (u \in heirs /\ how = "cancelled")]
        /\ waiting' = [u \in Tasks |-> IF u \in heirs THEN "no" ELSE waiting[u]]
        /\ next' = next \cup {Step(u) : u \in heirs}
                        \cup {Done(n) : n \in {t} \cap spawned}
                        \cup {Heard(u) : u \in {t} \cap gathered}
                        \cup (IF t = Main /\ phase = "main" THEN {StopRun} ELSE {})
        /\ since' = IF t \in spawned /\ how = "failed" /\ ~Ended(Main)
                    THEN [since EXCEPT ![t] = 0] ELSE since
        /\ running' = Nobody

Called(c) ==
    /\ ~over /\ running = Nobody
    /\ c \in left
    /\ left' = left \ {c}

\* A coroutine that was not cancelled runs on.
Begin(t) ==
    /\ Called(Step(t))
    /\ ~cancelling[t]
    /\ running' = t
    /\ pc' = [pc EXCEPT ![t] = IF @ = "new" THEN "body" ELSE @]
    /\ UNCHANGED <<waiting, cancelling, end, next, stopping, over, world, ends, ghost>>

\* One that was cancelled before it began is over at once.
NeverBegins(t) ==
    /\ Called(Step(t))
    /\ cancelling[t] /\ pc[t] = "new"
    /\ Settle(t, "cancelled")
    /\ UNCHANGED <<stopping, over, world, ends, refused>>

\* Any other enters its clean-up, or swallows the error and goes on.
TakesCancel(t) ==
    /\ Called(Step(t))
    /\ cancelling[t] /\ pc[t] # "new"
    /\ running' = t
    /\ cancelling' = [cancelling EXCEPT ![t] = FALSE]
    /\ \/ pc' = [pc EXCEPT ![t] = "cleanup"] /\ UNCHANGED refused
       \/ pc[t] = "body" /\ refused' = refused \cup {t} /\ UNCHANGED pc
    /\ UNCHANGED <<waiting, end, next, stopping, over, world, ends, since>>

\* An await: of something that is there, or that will be.
Suspends(t) ==
    /\ running = t
    /\ running' = Nobody
    /\ \/ next' = next \cup {Step(t)} /\ UNCHANGED waiting
       \/ /\ \E w \in {"timer", "event"}
                    \cup {u \in Workers : t = Main /\ Alive(u)} :
                waiting' = [waiting EXCEPT ![t] = w]
          /\ UNCHANGED next
    /\ UNCHANGED <<pc, cancelling, end, left, stopping, over, world, ends, ghost>>

\* Variant: the error of a node is looked for before the scenario runs on.
MainEndsLax == "returned"

\* main, once the scenario has returned: the first of node_errors is raised.
MainEnds == IF Strict /\ errors # {} THEN "failed" ELSE "returned"

\* The coroutine returns or raises; after a clean-up, it ends as cancelled.
Finishes(t) ==
    /\ running = t
    /\ \/ pc[t] = "body" /\ Settle(t, IF t = Main THEN MainEnds ELSE "returned")
       \/ pc[t] = "cleanup" /\ Settle(t, "cancelled")
       \/ Settle(t, "failed")
    /\ UNCHANGED <<left, stopping, over, world, ends, refused>>

\* What one task does in its step to another that waits for an event.
Wakes(t, u) ==
    /\ running = t
    /\ waiting[u] = "event"
    /\ waiting' = [waiting EXCEPT ![u] = "no"]
    /\ next' = next \cup {Step(u)}
    /\ UNCHANGED <<pc, cancelling, end, running, left, stopping, over, world,
                   ends, ghost>>

-----------------------------------------------------------------------------
(* What a step may do to the world.                                        *)

\* A task is created; its first step is due in the next tick.
Creates(t) ==
    /\ running # Nobody
    /\ pc[t] = "absent"
    /\ pc' = [pc EXCEPT ![t] = "new"]
    /\ next' = next \cup {Step(t)}
    /\ UNCHANGED <<waiting, cancelling, end, running, left, stopping, over, ends,
                   ghost>>

Spawn(n) ==
    /\ Creates(n)
    /\ spawned' = spawned \cup {n}
    /\ owned' = owned \cup {n}
    /\ UNCHANGED <<chaos, down, errors>>

\* Only the task of the last call is remembered.
StartChaos(s) ==
    /\ Creates(s)
    /\ chaos' = {s}
    /\ UNCHANGED <<spawned, owned, down, errors>>

\* A task of the scenario's own.
CreateTask(s) ==
    /\ Creates(s)
    /\ UNCHANGED world

\* A task does not crash its own node here.
Crash(n) ==
    /\ running \notin {Nobody, n}
    /\ n \in owned \ down
    /\ down' = down \cup {n}
    /\ Cancel({n})
    /\ UNCHANGED <<pc, end, running, left, stopping, over, spawned, owned, chaos,
                   errors, ends, ghost>>

\* Variant: the node keeps the task it had.
RestartKeepsTask(n, t) ==
    /\ n \in down
    /\ Creates(t)
    /\ spawned' = spawned \cup {t}
    /\ down' = down \ {n}
    /\ UNCHANGED <<owned, chaos, errors>>

\* Variant: the node is not taken off the list of the crashed.
RestartUnlisted(n, t) ==
    /\ n \in down
    /\ Creates(t)
    /\ spawned' = spawned \cup {t}
    /\ owned' = (owned \ {n}) \cup {t}
    /\ UNCHANGED <<chaos, down, errors>>

\* The task of the crash may still be cleaning up when its node gets another.
Restart(n, t) ==
    /\ n \in down
    /\ Creates(t)
    /\ spawned' = spawned \cup {t}
    /\ down' = down \ {n}
    /\ owned' = (owned \ {n}) \cup {t}
    /\ UNCHANGED <<chaos, errors>>

TaskStep ==
    \/ \E t \in Tasks : \/ Begin(t) \/ NeverBegins(t) \/ TakesCancel(t)
                        \/ Suspends(t) \/ Finishes(t)
                        \/ \E u \in Tasks : Wakes(t, u)
    \/ \E n \in Workers : \/ Spawn(n) \/ Crash(n) \/ StartChaos(n) \/ CreateTask(n)
                          \/ \E t \in Workers : Restart(n, t)

-----------------------------------------------------------------------------
(* The other callbacks.                                                    *)

\* Variant: the end of a task that was cancelled is an error like any other.
NodeFinishedAll(n) ==
    /\ Called(Done(n))
    /\ errors' = IF end[n] # "returned" THEN errors \cup {n} ELSE errors
    /\ UNCHANGED <<tasks, running, next, stopping, over, spawned, owned,
                   chaos, down, ends, ghost>>

NodeFinished(n) ==
    /\ Called(Done(n))
    /\ errors' = IF end[n] = "failed" THEN errors \cup {n} ELSE errors
    /\ UNCHANGED <<tasks, running, next, stopping, over, spawned, owned,
                   chaos, down, ends, ghost>>

RunDone ==
    /\ Called(StopRun)
    /\ stopping' = TRUE
    /\ UNCHANGED <<tasks, running, next, over, world, ends, ghost>>

\* gather is done when the last of its tasks is.
GatherHears(t) ==
    /\ Called(Heard(t))
    /\ gone' = gone \cup {t}
    /\ next' = IF gone' = gathered THEN next \cup {StopRun} ELSE next
    /\ UNCHANGED <<tasks, running, stopping, over, world, phase, gathered, report,
                   ghost>>

Callback ==
    \/ \E n \in Workers : NodeFinished(n)
    \/ RunDone
    \/ \E t \in Tasks : GatherHears(t)

-----------------------------------------------------------------------------
(* Leaving the loop.                                                       *)

\* What run_until_complete comes to: a failure of the loop, or the future's.
Outcome(failure) ==
    IF failure \/ end[Main] = "failed" THEN "failed"
    ELSE IF end[Main] = "cancelled" THEN "raised" ELSE "ok"

\* What cancel_all cancels.
LeftBehind == owned \cup chaos

\* After the scenario, run makes the report and goes on with teardown.
LeaveMain(failure) ==
    /\ phase = "main"
    /\ report' = Outcome(failure)
    /\ Cancel(LeftBehind)
    /\ gathered' = {t \in Tasks : Alive(t)}
    /\ phase' = IF gathered' = {} THEN "closed" ELSE "teardown"
    /\ stopping' = FALSE
    /\ UNCHANGED <<pc, end, gone>>

\* Variant: a failure in teardown is the failure of the iteration.
LeaveTeardownLoud(failure) ==
    /\ phase = "teardown"
    /\ phase' = "closed"
    /\ report' = IF failure THEN "failed" ELSE report
    /\ UNCHANGED <<tasks, next, stopping, gathered, gone>>

\* After teardown, whatever ended it is swallowed and the loop is closed.
LeaveTeardown(failure) ==
    /\ phase = "teardown"
    /\ phase' = "closed"
    /\ UNCHANGED <<tasks, next, stopping, gathered, gone, report>>

Leave(failure) == LeaveMain(failure) \/ LeaveTeardown(failure)

\* The ticks between a failure and the return of the scenario are counted.
Older == [n \in Workers |-> IF since[n] \in {0, 1} /\ ~Ended(Main)
                              THEN since[n] + 1 ELSE since[n]]

\* A tick is over, or none has begun.
Between == phase # "closed" /\ running = Nobody /\ left = {}

Stopped ==
    /\ Between /\ stopping
    /\ Leave(FALSE)
    /\ UNCHANGED <<running, left, over, world, ghost>>

NextTick ==
    /\ Between /\ ~stopping /\ next # {}
    /\ left' = next
    /\ next' = {}
    /\ since' = Older
    /\ UNCHANGED <<tasks, running, stopping, over, world, ends, refused>>

\* Nothing is queued: the clock jumps to some timers.
Jump ==
    /\ Between /\ ~stopping /\ next = {}
    /\ \E W \in SUBSET Sleeping \ {{}} :
          /\ left' = {Step(t) : t \in W}
          /\ waiting' = [t \in Tasks |-> IF t \in W THEN "no" ELSE waiting[t]]
    /\ since' = Older
    /\ UNCHANGED <<pc, cancelling, end, running, next, stopping, over, world,
                   ends, refused>>

RaiseTimeLimit ==
    /\ TimeLimited
    /\ Between /\ ~stopping /\ next = {} /\ Sleeping # {}
    /\ Leave(TRUE)
    /\ UNCHANGED <<running, left, over, world, ghost>>

\* With deadlock detection off, run_until_complete raises for a future that is
\* not done; the end is the same.
RaiseDeadlock ==
    /\ Between /\ ~stopping /\ next = {} /\ Sleeping = {}
    /\ Leave(TRUE)
    /\ UNCHANGED <<running, left, over, world, ghost>>

\* The rest of the tick is thrown away, and what is over stays over.
RaiseStepLimit ==
    /\ StepLimited
    /\ phase # "closed" /\ running = Nobody /\ left # {}
    /\ over' = TRUE
    /\ left' = {}
    /\ Leave(TRUE)
    /\ UNCHANGED <<running, world, ghost>>

Loop == NextTick \/ Jump \/ Stopped \/ RaiseTimeLimit \/ RaiseDeadlock \/ RaiseStepLimit

-----------------------------------------------------------------------------

Init ==
    /\ phase = "main"
    /\ pc = [t \in Tasks |-> IF t = Main THEN "new" ELSE "absent"]
    /\ waiting = [t \in Tasks |-> "no"]
    /\ cancelling = [t \in Tasks |-> FALSE]
    /\ end = [t \in Tasks |-> "no"]
    /\ running = Nobody
    /\ next = {Step(Main)}
    /\ left = {}
    /\ stopping = FALSE
    /\ spawned = {} /\ owned = {} /\ chaos = {} /\ down = {} /\ errors = {}
    /\ over = FALSE
    /\ gathered = {} /\ gone = {}
    /\ report = "none"
    /\ since = [n \in Workers |-> -1]
    /\ refused = {}

Next == TaskStep \/ Callback \/ Loop

Spec == Init /\ [][Next]_vars

-----------------------------------------------------------------------------

\* What is suspended is not queued, and what is down has the task of its crash.
TypeOK ==
    /\ phase \in {"main", "teardown", "closed"}
    /\ pc \in [Tasks -> {"absent", "new", "body", "cleanup", "done"}]
    /\ waiting \in [Tasks -> {"no", "timer", "event"} \cup Workers]
    /\ cancelling \in [Tasks -> BOOLEAN]
    /\ end \in [Tasks -> {"no", "returned", "failed", "cancelled"}]
    /\ running \in Tasks \cup {Nobody}
    /\ {stopping, over} \subseteq BOOLEAN
    /\ \A t \in Tasks : end[t] # "no" <=> Ended(t)
    /\ \A t \in Tasks : waiting[t] # "no" => Alive(t) /\ Step(t) \notin next \cup left
    /\ down \subseteq owned /\ owned \subseteq spawned
    /\ spawned \subseteq Workers /\ chaos \subseteq Workers \ spawned
    /\ errors \subseteq spawned
    /\ gone \subseteq gathered /\ gathered \subseteq Tasks
    /\ report \in {"none", "ok", "failed", "raised"}
    /\ since \in [Workers -> -1 .. 2]
    /\ refused \subseteq Tasks

\* node_errors has the failure of every node task, of each incarnation of the
\* node, once its callback has run, and nothing else; so long as the loop runs.
ErrorsAreFailures ==
    \A n \in spawned :
        /\ n \in errors => end[n] = "failed"
        /\ end[n] = "failed" /\ ~over => n \in errors \/ Done(n) \in next \cup left

\* A strict run that passed missed no node that died more than a tick before
\* the scenario returned.
MissedDeathsAreLate ==
    Strict /\ report = "ok" => \A n \in Workers : since[n] < 2

\* When the loop is closed, every node task that was pending, the task a crashed
\* node left behind included, and the chaos loop started last have had the
\* CancelledError, and so the chance to run a finally; unless the run came to its
\* limit of steps.
CleanupRuns ==
    phase = "closed" /\ ~over =>
        \A t \in gathered \cap (spawned \cup chaos) :
            pc[t] \in {"cleanup", "done"} \/ t \in refused

\* "A node that refuses to die cleanly must not replace the reason its iteration
\* failed": nothing that happens in teardown changes the report.
VerdictIsFinal == [][report # "none" => report' = report]_vars

\* "A node that died of its own exception is reported even when the scenario
\* itself passed."
DeathsAreReported ==
    Strict /\ report = "ok" => \A n \in Workers : since[n] = -1

\* run "never raises for a failure in the scenario".
NeverRaises == report # "raised"
=============================================================================
