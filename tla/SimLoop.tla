------------------------------ MODULE SimLoop ------------------------------
(***************************************************************************)
(* askew.core.loop.SimLoop: an asyncio loop with a virtual clock, together *)
(* with what it inherits from asyncio.BaseEventLoop (call_soon, call_at,   *)
(* Handle.cancel, stop, run_forever).                                      *)
(*                                                                         *)
(* One run of _run_once is cut at the points where the code of a user      *)
(* runs: Tick is everything up to the loop over the batch, RunHandle one   *)
(* turn of that loop, EndTick what follows it.  While a callback is        *)
(* running, it may call the loop's own API in any order, and then returns  *)
(* (Finish) or lets an interruption escape (Interrupt).                    *)
(*                                                                         *)
(* The order in which a batch runs is the scheduler's.  Here it is any     *)
(* order: every order some seed of RandomScheduler produces, and with it   *)
(* those of FifoScheduler, ReverseScheduler and PartialScheduler.          *)
(***************************************************************************)
EXTENDS Integers, FiniteSets

CONSTANTS
    Handles,         \* identities of callbacks, each one free to be reused
    Horizon,         \* bound: the latest deadline ever asked for
    StartTime,       \* start_time
    MaxSteps,        \* max_steps, 0 for no limit
    MaxTime,         \* max_time, 0 for no limit
    DetectDeadlock,  \* detect_deadlock
    PurgeThreshold,  \* PURGE_THRESHOLD
    Entries,         \* bound: calls of run_forever
    Interrupts,      \* whether a callback may let KeyboardInterrupt escape
    None

Instants == 0 .. Horizon

ASSUME ConstantsAssumption ==
    /\ IsFiniteSet(Handles)
    /\ None \notin Handles
    /\ Horizon \in Nat
    /\ StartTime \in Instants
    /\ MaxSteps \in Nat
    /\ MaxTime \in Nat
    /\ DetectDeadlock \in BOOLEAN
    /\ PurgeThreshold \in Nat
    /\ Entries \in Nat
    /\ Interrupts \in BOOLEAN

VARIABLES
    now,          \* _now
    scheduled,    \* _scheduled, the heap: timer on it -> its _when
    flagged,      \* the handles whose _scheduled is True
    cancelled,    \* the handles whose _cancelled is True
    cancelCount,  \* _timer_cancelled_count
    ready,        \* _ready
    batch,        \* _batch, as it was filled
    left,         \* what the loop over the batch has not visited
    running,      \* the handle whose _run() is on the stack
    steps,        \* _steps
    tally,        \* the local variable steps of _run_once
    stopping,     \* _stopping
    mode,         \* "idle": outside run_forever, "poll": between two ticks,
                  \* "run": inside the loop over the batch
    error,        \* how the last run_forever ended
    interrupted,  \* ghost: an interruption escaped from a callback
    entries,      \* bound: calls of run_forever so far
    started,      \* ghost: callbacks started, if there is a limit on steps and no
                  \* interruption so far
    due           \* ghost: registered, neither started nor cancelled ->
                  \* the instant it is to run at

queues == <<scheduled, flagged, cancelled, cancelCount, ready>>
tick   == <<batch, left, running, steps, tally, started>>
life   == <<stopping, mode, error, interrupted, entries>>
vars   == <<now, queues, tick, life, due>>

-----------------------------------------------------------------------------

OnHeap == DOMAIN scheduled
Owed   == DOMAIN due
Dead   == OnHeap \cap cancelled
Live   == OnHeap \ cancelled

Without(f, S) == [h \in DOMAIN f \ S |-> f[h]]
With(f, h, t) == [g \in DOMAIN f \cup {h} |-> IF g = h THEN t ELSE f[g]]

Later(s, t) == IF s >= t THEN s ELSE t

Over(s)      == MaxSteps > 0 /\ s > MaxSteps
\* Variant: a deadline at the limit counts as one behind it.
PastLimitInclusive(t) == MaxTime > 0 /\ t >= MaxTime
PastLimit(t) == MaxTime > 0 /\ t > MaxTime
\* Without a limit nothing is ever compared with the count, so it stays put.
CountStep(s) == IF MaxSteps = 0 THEN s ELSE s + 1

\* The promises of the loop are off once it was left in the middle of a batch.
Broken == interrupted \/ Over(steps)

-----------------------------------------------------------------------------
(* The code of the user: what a callback, or code outside run_forever, may *)
(* do to the loop.                                                         *)

UserCode == mode = "idle" \/ running # None

Fresh(h) == h \notin OnHeap \cup ready \cup batch

CallSoon(h) ==
    /\ UserCode
    /\ Fresh(h)
    /\ ready' = ready \cup {h}
    /\ cancelled' = cancelled \ {h}
    /\ due' = With(due, h, now)
    /\ UNCHANGED <<now, scheduled, flagged, cancelCount, tick, life>>

\* call_at takes any deadline, one that has passed included.
CallAt(h, t) ==
    /\ UserCode
    /\ Fresh(h)
    /\ scheduled' = With(scheduled, h, t)
    /\ flagged' = flagged \cup {h}
    /\ cancelled' = cancelled \ {h}
    /\ due' = With(due, h, Later(t, now))
    /\ UNCHANGED <<now, cancelCount, ready, tick, life>>

\* Variant: a timer that is already due is not counted when cancelled.
CancelHandleUncounted(h) ==
    /\ UserCode
    /\ h \notin cancelled
    /\ cancelled' = cancelled \cup {h}
    /\ cancelCount' = IF h \in flagged /\ scheduled[h] > now
                      THEN cancelCount + 1 ELSE cancelCount
    /\ due' = Without(due, {h})
    /\ UNCHANGED <<now, scheduled, flagged, ready, tick, life>>

\* A timer that is cancelled stays where it is; only one on the heap counts.
CancelHandle(h) ==
    /\ UserCode
    /\ h \notin cancelled
    /\ cancelled' = cancelled \cup {h}
    /\ cancelCount' = IF h \in flagged THEN cancelCount + 1 ELSE cancelCount
    /\ due' = Without(due, {h})
    /\ UNCHANGED <<now, scheduled, flagged, ready, tick, life>>

Stop ==
    /\ UserCode
    /\ ~stopping
    /\ stopping' = TRUE
    /\ UNCHANGED <<now, queues, tick, mode, error, interrupted, entries, due>>

-----------------------------------------------------------------------------
(* run_forever and _run_once.                                              *)

RunForever ==
    /\ mode = "idle"
    /\ entries < Entries
    /\ entries' = entries + 1
    /\ mode' = "poll"
    /\ error' = "none"
    /\ UNCHANGED <<now, queues, tick, stopping, interrupted, due>>

\* The finally of run_forever, whatever made it return.
LeaveLoop(how) ==
    /\ mode' = "idle"
    /\ error' = how
    /\ stopping' = FALSE
    /\ UNCHANGED entries

\* Variant: cancelled timers in front of the heap are left there.
SweepsNothing == IF cancelCount > PurgeThreshold THEN {Dead} ELSE {{}}

\* What the housekeeping at the head of a tick may take off the heap: every
\* cancelled timer when enough of them are counted, and otherwise those that
\* are in front of the first live one, or tie with it.
Sweeps ==
    IF cancelCount > PurgeThreshold
    THEN {Dead}
    ELSE {P \in SUBSET Dead :
            /\ \A h \in P, g \in Live : scheduled[h] <= scheduled[g]
            /\ \A h \in Dead \ P : \E g \in Live : scheduled[g] <= scheduled[h]}

\* Variant: the count starts afresh at every tick.
CountAfterForgets(P) == 0

CountAfter(P) ==
    IF cancelCount > PurgeThreshold THEN 0 ELSE cancelCount - Cardinality(P)

\* What the sweep leaves in the queues when the tick goes no further.
SweepOnly(P) ==
    /\ scheduled' = Without(scheduled, P)
    /\ flagged' = flagged \ P
    /\ cancelCount' = CountAfter(P)
    /\ UNCHANGED <<now, cancelled, ready, tick, interrupted, due>>

Earliest(H, t) ==
    /\ \E h \in H : scheduled[h] = t
    /\ \A h \in H : t <= scheduled[h]

\* Variant: the jump is made even to a deadline that has passed.
JumpsToEarliest(H, t) ==
    IF ready = {} /\ H # {} THEN Earliest(H, t) ELSE t = now

\* The clock after the jump, if there is one: H is what is on the heap.
JumpsTo(H, t) ==
    IF ready = {} /\ (\A h \in H : scheduled[h] > now)
    THEN Earliest(H, t)
    ELSE t = now

\* The head of a tick, up to the loop over the batch.
Tick(P) ==
    LET H == OnHeap \ P
    IN  /\ mode = "poll"
        /\ ready # {} \/ H # {}
        /\ \E t \in Instants :
              /\ JumpsTo(H, t)
              /\ t > now => ~PastLimit(t)
              /\ LET promoted == {h \in H : scheduled[h] <= t}
                 IN  /\ now' = t
                     /\ scheduled' = Without(scheduled, P \cup promoted)
                     /\ flagged' = flagged \ (P \cup promoted)
                     /\ batch' = batch \cup ready \cup promoted
        /\ left' = batch'
        /\ ready' = {}
        /\ cancelCount' = CountAfter(P)
        /\ tally' = steps
        /\ mode' = "run"
        /\ UNCHANGED <<cancelled, running, steps, started, stopping, error,
                       interrupted, entries, due>>

RaiseTimeLimit(P) ==
    LET H == OnHeap \ P
    IN  /\ mode = "poll"
        /\ ready = {} /\ H # {}
        /\ \E t \in Instants :
              /\ JumpsTo(H, t)
              /\ t > now /\ PastLimit(t)
        /\ SweepOnly(P)
        /\ LeaveLoop("time")

\* Variant: an empty ready queue is taken for a deadlock.
RaiseDeadlockEarly(P) ==
    /\ mode = "poll"
    /\ ready = {}
    /\ ~stopping /\ DetectDeadlock
    /\ SweepOnly(P)
    /\ LeaveLoop("deadlock")

\* Variant: the heap is looked at before it is swept.
RaiseDeadlockUnswept(P) ==
    /\ mode = "poll"
    /\ ready = {} /\ OnHeap = {}
    /\ ~stopping /\ DetectDeadlock
    /\ SweepOnly(P)
    /\ LeaveLoop("deadlock")

RaiseDeadlock(P) ==
    /\ mode = "poll"
    /\ ready = {} /\ OnHeap \ P = {}
    /\ ~stopping /\ DetectDeadlock
    /\ SweepOnly(P)
    /\ LeaveLoop("deadlock")

\* Nothing left to do: the tick returns with _stopping set, and so does
\* run_forever.
ReturnIdle(P) ==
    /\ mode = "poll"
    /\ ready = {} /\ OnHeap \ P = {}
    /\ stopping \/ ~DetectDeadlock
    /\ SweepOnly(P)
    /\ LeaveLoop("stopped")

\* A cancelled handle is passed over and counts as no step.
Skip(h) ==
    /\ mode = "run" /\ running = None
    /\ h \in left /\ h \in cancelled
    /\ left' = left \ {h}
    /\ UNCHANGED <<now, queues, batch, running, steps, tally, started, life, due>>

RunHandle(h) ==
    /\ mode = "run" /\ running = None
    /\ h \in left /\ h \notin cancelled
    /\ ~Over(CountStep(tally))
    /\ tally' = CountStep(tally)
    /\ left' = left \ {h}
    /\ running' = h
    /\ started' = IF interrupted THEN started ELSE CountStep(started)
    /\ due' = Without(due, {h})
    /\ UNCHANGED <<now, queues, batch, steps, life>>

\* Variant: the rest of the batch is kept for the next tick.
RaiseStepLimitKeeps(h) ==
    /\ mode = "run" /\ running = None
    /\ h \in left /\ h \notin cancelled
    /\ Over(CountStep(tally))
    /\ tally' = CountStep(tally)
    /\ steps' = CountStep(tally)
    /\ left' = {}
    /\ LeaveLoop("steps")
    /\ UNCHANGED <<now, queues, batch, running, started, interrupted, due>>

\* The limit is noticed after the step is counted and before it is run; the
\* rest of the batch is thrown away.
RaiseStepLimit(h) ==
    /\ mode = "run" /\ running = None
    /\ h \in left /\ h \notin cancelled
    /\ Over(CountStep(tally))
    /\ tally' = CountStep(tally)
    /\ steps' = CountStep(tally)
    /\ batch' = {}
    /\ left' = {}
    /\ LeaveLoop("steps")
    /\ UNCHANGED <<now, queues, running, started, interrupted, due>>

\* The callback returns; an exception of its own ends up in the handler of
\* the loop and makes no difference here.
Finish ==
    /\ running # None
    /\ running' = None
    /\ UNCHANGED <<now, queues, batch, left, steps, tally, started, life, due>>

\* KeyboardInterrupt or SystemExit leaves _run, _run_once and run_forever.
\* Neither the batch nor the count of steps is put in order on the way.
Interrupt ==
    /\ Interrupts
    /\ running # None
    /\ running' = None
    /\ left' = {}
    /\ tally' = steps
    /\ interrupted' = TRUE
    /\ started' = 0
    /\ LeaveLoop("interrupt")
    /\ UNCHANGED <<now, queues, batch, steps, due>>

\* Variant: the ready queue is cleared after the batch and not before it.
EndTickClears ==
    /\ mode = "run" /\ running = None
    /\ left = {}
    /\ steps' = tally
    /\ batch' = {}
    /\ ready' = {}
    /\ IF stopping
       THEN LeaveLoop("stopped")
       ELSE mode' = "poll" /\ UNCHANGED <<stopping, error, entries>>
    /\ UNCHANGED <<now, scheduled, flagged, cancelled, cancelCount,
                   left, running, tally, started, interrupted, due>>

\* After the batch, run_forever looks at _stopping.
EndTick ==
    /\ mode = "run" /\ running = None
    /\ left = {}
    /\ steps' = tally
    /\ batch' = {}
    /\ IF stopping
       THEN LeaveLoop("stopped")
       ELSE mode' = "poll" /\ UNCHANGED <<stopping, error, entries>>
    /\ UNCHANGED <<now, queues, left, running, tally, started, interrupted, due>>

-----------------------------------------------------------------------------

Init ==
    /\ now = StartTime
    /\ scheduled = [h \in {} |-> StartTime]
    /\ flagged = {}
    /\ cancelled = {}
    /\ cancelCount = 0
    /\ ready = {}
    /\ batch = {}
    /\ left = {}
    /\ running = None
    /\ steps = 0
    /\ tally = 0
    /\ started = 0
    /\ stopping = FALSE
    /\ mode = "idle"
    /\ error = "none"
    /\ interrupted = FALSE
    /\ entries = 0
    /\ due = [h \in {} |-> StartTime]

User ==
    \/ \E h \in Handles :
          \/ CallSoon(h)
          \/ \E t \in Instants : CallAt(h, t)
          \/ CancelHandle(h)
    \/ Stop

Poll ==
    \E P \in Sweeps :
       Tick(P) \/ RaiseTimeLimit(P) \/ RaiseDeadlock(P) \/ ReturnIdle(P)

Visit == \E h \in left : Skip(h) \/ RunHandle(h) \/ RaiseStepLimit(h)

LoopStep == Poll \/ Visit \/ EndTick

Next == RunForever \/ User \/ LoopStep \/ Finish \/ Interrupt

Spec == Init /\ [][Next]_vars

\* The loop runs on as long as it is inside run_forever, and a callback, being
\* synchronous code between two awaits, returns.  Nothing obliges anybody to
\* call run_forever, or a callback to do anything.
Fairness == WF_vars(LoopStep) /\ WF_vars(Finish)

FairSpec == Spec /\ Fairness

-----------------------------------------------------------------------------
(* What holds of the loop.                                                 *)

\* Every variable has its type, and a handle is flagged exactly while it is on
\* the heap; the loop counts on that flag in _timer_handle_cancelled.
TypeOK ==
    /\ now \in Instants
    /\ OnHeap \subseteq Handles /\ scheduled \in [OnHeap -> Instants]
    /\ flagged = OnHeap
    /\ cancelled \subseteq Handles
    /\ cancelCount \in Nat
    /\ ready \subseteq Handles
    /\ batch \subseteq Handles
    /\ left \subseteq batch
    /\ running \in Handles \cup {None}
    /\ steps \in Nat
    /\ tally \in Nat
    /\ started \in Nat
    /\ stopping \in BOOLEAN
    /\ mode \in {"idle", "poll", "run"}
    /\ error \in {"none", "stopped", "deadlock", "time", "steps", "interrupt"}
    /\ interrupted \in BOOLEAN
    /\ entries \in 0 .. Entries
    /\ Owed \subseteq Handles /\ due \in [Owed -> Instants]

\* Unless the run was broken off, a callback that was asked for is in one of
\* the loop's queues until it starts or is cancelled (_run_once moves handles
\* from the heap to _ready to _batch, and clears two of the three).
NothingLost == Broken \/ Owed \subseteq OnHeap \cup ready \cup left

\* Unless the run was broken off, a callback waiting on the heap has not been
\* overtaken by the clock, and one that was taken off it is due this instant.
OnTime ==
    Broken \/ \A h \in Owed :
        IF h \in OnHeap THEN due[h] = Later(scheduled[h], now)
                        ELSE due[h] = now

\* How the queues fit together.  A handle is in one queue at a time; what is on
\* the heap and not cancelled is owed, and so is what is in the other queues,
\* unless the run was broken off.  The batch is empty between ticks, except
\* after an interruption.
Consistent ==
    /\ running # None => mode = "run"
    /\ mode # "run" => left = {}
    /\ mode # "run" => interrupted \/ batch = {}
    /\ OnHeap \cap (ready \cup batch) = {}
    /\ ready \cap batch = {}
    /\ cancelled \cap Owed = {}
    /\ Live \subseteq Owed
    /\ Broken \/ (ready \cup left) \ cancelled \subseteq Owed
    /\ mode # "idle" => error = "none"
    /\ mode = "run" => steps <= tally /\ (Over(tally) => Over(steps))

\* _timer_cancelled_count may run ahead of the cancelled timers on the heap (one
\* promoted to a batch is not discounted) and never behind them.
CountCovers == Cardinality(Dead) <= cancelCount

\* Both limits are exact.  The clock reads at most max_time, and TimeLimitExceeded is
\* raised only if something is owed, all of it later than that: a callback due at the
\* limit itself still runs, and cancelled timers behind it do no harm.  At most max_steps
\* callbacks start, over all ticks and calls of run_forever, and StepLimitExceeded is
\* raised only when that many have.
LimitsAreExact ==
    [][/\ MaxTime > 0 => now' <= Later(MaxTime, StartTime)
       /\ mode = "poll" /\ error' = "time"
             => Broken \/ (Owed # {} /\ \A h \in Owed : due[h] > MaxTime)
       /\ MaxSteps > 0 => started' <= MaxSteps
       /\ mode = "run" /\ error' = "steps" => interrupted \/ started = MaxSteps]_vars

\* The clock never goes back, whatever deadlines are asked for and however a
\* run is left.
ClockMonotone == [][now' >= now]_vars

\* DeadlockError is raised only when no callback is owed to anybody: the
\* module says such a state "is unambiguously a deadlock".
DeadlockIsReal ==
    [][mode = "poll" /\ error' = "deadlock" => Broken \/ Owed = {}]_vars

\* The head of a tick leaves at most PURGE_THRESHOLD cancelled timers on the heap,
\* for all that cancelling alone never takes one off it.
HeapBounded ==
    [][mode = "poll" /\ mode' # "poll" => Cardinality(Dead') <= PurgeThreshold]_vars

\* What code on the loop may rely on: a callback fires once, exactly at its
\* instant, and time jumps straight to the next one (see VirtualTime).
VT == INSTANCE VirtualTime WITH pending <- due, broken <- Broken

ImplementsVirtualTime == VT!Spec

\* If from some time on nothing new is asked for, run_forever comes back:
\* timers that were cancelled do not keep the loop going.
Termination == <>[][Owed' \subseteq Owed]_vars => []<>(mode = "idle")

\* A callback in the ready queue starts or is cancelled, or the loop is left:
\* callbacks that keep queueing others cannot starve it.
NoStarvation ==
    \A h \in Handles :
        (h \in ready /\ h \in Owed) ~> (h \notin Owed \/ mode = "idle")
=============================================================================
