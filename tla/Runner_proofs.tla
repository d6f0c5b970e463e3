--------------------------- MODULE Runner_proofs ---------------------------
(***************************************************************************)
(* What TLAPS proves of Runner, for any number of tasks: the verdict of a  *)
(* run is final, its errors are the failures of node tasks, those it       *)
(* misses came in the last tick, and nobody misses its clean-up.  The      *)
(* invariant behind it, RunnerInv, says where the callbacks of a tick are: *)
(* every task is queued, suspended, running or over, and only one of them. *)
(***************************************************************************)
EXTENDS Runner, TLAPS

\* The report is made when the first run_until_complete is left, and with it.
ReportedOnce == (phase = "main") <=> (report = "none")

LEMMA ReportedOnceStep ==
    ASSUME ReportedOnce, [Next]_vars
    PROVE  ReportedOnce' /\ (report # "none" => report' = report)
<1> USE DEF ReportedOnce, vars, tasks, world, loop, ends, ghost
<1>1. ASSUME NEW f \in BOOLEAN, Leave(f)
      PROVE  ReportedOnce' /\ (report # "none" => report' = report)
  <2>1. CASE LeaveMain(f)
    BY <2>1 DEF LeaveMain, Outcome
  <2>2. CASE LeaveTeardown(f)
    BY <2>2 DEF LeaveTeardown
  <2> QED
    BY <1>1, <2>1, <2>2 DEF Leave
<1>2. CASE TaskStep
  BY <1>2 DEF TaskStep, Begin, NeverBegins, TakesCancel, Suspends, Finishes,
              Wakes, Spawn, Crash, Restart, StartChaos, CreateTask, Creates
<1>3. CASE Callback
  BY <1>3 DEF Callback, NodeFinished, RunDone, GatherHears
<1>4. CASE Loop
  BY <1>1, <1>4 DEF Loop, NextTick, Jump, Stopped, RaiseTimeLimit,
                    RaiseDeadlock, RaiseStepLimit
<1>5. CASE UNCHANGED vars
  BY <1>5
<1> QED
  BY <1>2, <1>3, <1>4, <1>5 DEF Next

\* "A node that refuses to die cleanly must not replace the reason its iteration
\* failed": no step after the report is made changes it.
THEOREM VerdictsAreFinal == Spec => VerdictIsFinal
<1>1. Init => ReportedOnce
  BY DEF Init, ReportedOnce
<1>2. Spec => []ReportedOnce
  BY <1>1, ReportedOnceStep, PTL DEF Spec
<1> QED
  BY <1>2, ReportedOnceStep, PTL DEF Spec, VerdictIsFinal

-----------------------------------------------------------------------------
(* The inductive invariant.                                                *)

Queued(t) == Step(t) \in next \cup left

\* A task is suspended, or its step is queued, once, or its step is under way, or
\* it has not begun or is over; only the limit on steps loses a step.
QueueOK ==
    /\ \A t \in Tasks : Queued(t) => /\ Alive(t) /\ waiting[t] = "no" /\ running # t
                                     /\ ~(Step(t) \in next /\ Step(t) \in left)
    /\ \A t \in Tasks : waiting[t] # "no" => Alive(t) /\ running # t
    /\ \A t \in Tasks : running = t => pc[t] \in {"body", "cleanup"}
    /\ \A t \in Tasks : cancelling[t] => Alive(t) /\ waiting[t] = "no" /\ running # t
    /\ ~over => \A t \in Tasks :
          Alive(t) /\ waiting[t] = "no" /\ running # t => Queued(t)

\* The callbacks of tasks are queued for those that have ended, and only for
\* those that have somebody to tell.
CallbacksOK ==
    /\ \A n \in Workers : Done(n) \in next \cup left => n \in spawned /\ Ended(n)
    /\ \A t \in Tasks : Heard(t) \in next \cup left => t \in gathered /\ Ended(t)
    /\ \A t \in gone : t \in gathered /\ Ended(t)

\* What has a role has been created, and no task has two.
RolesOK ==
    /\ \A t \in spawned \cup chaos \cup gathered : pc[t] # "absent"
    /\ down \subseteq owned /\ owned \subseteq spawned /\ spawned \subseteq Workers
    /\ chaos \subseteq Workers /\ chaos \cap spawned = {}

\* The first stop is for the end of main, the second for the end of all that
\* teardown waits for; nothing runs in a loop that is closed, or that is over
\* its limit of steps.
StopsOK ==
    /\ phase = "main" => gathered = {} /\ gone = {} /\ report = "none"
    /\ phase = "main" => /\ StopRun \in next \cup left => Ended(Main) /\ ~stopping
                         /\ ~(StopRun \in next /\ StopRun \in left)
                         /\ stopping => Ended(Main)
    /\ phase = "teardown" /\ ~over =>
          (StopRun \in next \cup left \/ stopping => gone = gathered)
    /\ phase = "closed" => left = {} /\ running = Nobody
    /\ over => running = Nobody
    /\ report = "ok" => end[Main] = "returned"

\* The age of a failure is right: one that is a tick old has its callback in this
\* tick or behind it, an older one is among the errors.
AgesOK ==
    /\ \A n \in Workers : since[n] # -1 => n \in spawned /\ end[n] = "failed"
    /\ ~over /\ ~Ended(Main) => \A n \in Workers :
          /\ since[n] = 1 => n \in errors \/ Done(n) \in left
          /\ since[n] = 2 => n \in errors
    /\ Strict /\ end[Main] = "returned" => \A n \in Workers : since[n] < 2

\* The CancelledError is ahead of a task, or it has had it.
Told(t) == cancelling[t] \/ pc[t] \in {"cleanup", "done"} \/ t \in refused

\* A task that lost its node was told, and in teardown everybody was.
ToldOK ==
    /\ \A t \in down \cup (spawned \ owned) : Told(t)
    /\ phase # "main" => \A t \in gathered \cap (spawned \cup chaos) : Told(t)

-----------------------------------------------------------------------------
(* Types.                                                                  *)

Phases == {"main", "teardown", "closed"}
Places == {"absent", "new", "body", "cleanup", "done"}
Awaits == {"no", "timer", "event"} \cup Workers
Finals == {"no", "returned", "failed", "cancelled"}

\* The part of the type invariant that says what each variable alone may be.
TasksTyped ==
    /\ pc \in [Tasks -> Places]
    /\ waiting \in [Tasks -> Awaits]
    /\ cancelling \in [Tasks -> BOOLEAN]
    /\ end \in [Tasks -> Finals]
    /\ running \in Tasks \cup {Nobody}
    /\ \A t \in Tasks : end[t] # "no" <=> Ended(t)

RestTyped ==
    /\ phase \in Phases
    /\ stopping \in BOOLEAN /\ over \in BOOLEAN
    /\ errors \subseteq spawned
    /\ gathered \subseteq Tasks
    /\ report \in {"none", "ok", "failed", "raised"}
    /\ since \in [Workers -> -1 .. 2]
    /\ refused \subseteq Tasks

\* No task is mistaken for what else stands in its place.
LEMMA Names ==
    /\ Main \in Tasks /\ Main \notin Workers /\ Workers \subseteq Tasks
    /\ Nobody \notin Tasks
    /\ \A t \in Tasks : t # "no" /\ t # "timer" /\ t # "event"
  BY RunnerAssumption DEF Tasks

\* No callback is mistaken for another.
LEMMA Callbacks ==
    ASSUME NEW t, NEW u
    PROVE  /\ Step(t) = Step(u) => t = u
           /\ Done(t) = Done(u) => t = u
           /\ Heard(t) = Heard(u) => t = u
           /\ Step(t) # Done(u) /\ Step(t) # Heard(u) /\ Done(t) # Heard(u)
           /\ Step(t) # StopRun /\ Done(t) # StopRun /\ Heard(t) # StopRun
  BY DEF Step, Done, Heard, StopRun

LEMMA SettleTyped ==
    ASSUME TasksTyped, NEW t \in Tasks, NEW how \in {"returned", "failed", "cancelled"},
           Settle(t, how)
    PROVE  TasksTyped'
<1> USE DEF Settle, TasksTyped, Places, Awaits, Finals, Ended
<1>1. pc' \in [Tasks -> Places] /\ end' \in [Tasks -> Finals]
  OBVIOUS
<1>2. waiting' \in [Tasks -> Awaits]
  OBVIOUS
<1>3. cancelling' \in [Tasks -> BOOLEAN]
  BY Zenon
<1>4. running' \in Tasks \cup {Nobody}
  OBVIOUS
<1>5. \A u \in Tasks : end'[u] # "no" <=> Ended(u)'
  OBVIOUS
<1> QED
  BY <1>1, <1>2, <1>3, <1>4, <1>5

LEMMA CancelTyped ==
    ASSUME TasksTyped, NEW S, Cancel(S), UNCHANGED <<pc, end, running>>
    PROVE  TasksTyped'
<1> USE DEF Cancel, TasksTyped, Awaits
<1>1. cancelling' \in [Tasks -> BOOLEAN]
  BY Zenon
<1>2. waiting' \in [Tasks -> Awaits]
  OBVIOUS
<1> QED
  BY <1>1, <1>2 DEF Ended

LEMMA TasksTypedStep ==
    ASSUME TasksTyped, QueueOK, [Next]_vars
    PROVE  TasksTyped'
<1> USE DEF Places, Awaits, Finals
<1>1. ASSUME NEW t \in Tasks, Begin(t) PROVE TasksTyped'
  BY <1>1 DEF TasksTyped, Begin, Ended
<1>2. ASSUME NEW t \in Tasks, NeverBegins(t) PROVE TasksTyped'
  BY <1>2, SettleTyped DEF NeverBegins
<1>3. ASSUME NEW t \in Tasks, TakesCancel(t) PROVE TasksTyped'
  <2>1. pc[t] # "done"
    BY <1>3 DEF TakesCancel, QueueOK, Queued, Called, Alive
  <2>2. cancelling' \in [Tasks -> BOOLEAN]
    BY <1>3, Zenon DEF TasksTyped, TakesCancel
  <2> QED
    BY <1>3, <2>1, <2>2 DEF TasksTyped, TakesCancel, Ended
<1>4. ASSUME NEW t \in Tasks, Suspends(t) PROVE TasksTyped'
  BY <1>4 DEF TasksTyped, Suspends, Ended
<1>5. ASSUME NEW t \in Tasks, Finishes(t) PROVE TasksTyped'
  BY <1>5, SettleTyped DEF Finishes, MainEnds
<1>6. ASSUME NEW t \in Tasks, NEW u \in Tasks, Wakes(t, u) PROVE TasksTyped'
  BY <1>6 DEF TasksTyped, Wakes, Ended
<1>7. ASSUME NEW t, Creates(t) PROVE TasksTyped'
  BY <1>7 DEF TasksTyped, Creates, Ended
<1>8. ASSUME NEW n \in Workers, Crash(n) PROVE TasksTyped'
  BY <1>8, CancelTyped DEF Crash
<1>9. CASE TaskStep
  BY <1>1, <1>2, <1>3, <1>4, <1>5, <1>6, <1>7, <1>8, <1>9
     DEF TaskStep, Spawn, StartChaos, CreateTask, Restart
<1>10. CASE Callback
  BY <1>10 DEF Callback, NodeFinished, RunDone, GatherHears, TasksTyped, tasks, Ended
<1>11. ASSUME NEW f, Leave(f), UNCHANGED running PROVE TasksTyped'
  <2>1. CASE LeaveMain(f)
    BY <1>11, <2>1, CancelTyped DEF LeaveMain
  <2>2. CASE LeaveTeardown(f)
    BY <1>11, <2>2 DEF LeaveTeardown, TasksTyped, tasks, Ended
  <2> QED
    BY <1>11, <2>1, <2>2 DEF Leave
<1>12. CASE NextTick
  BY <1>12 DEF NextTick, TasksTyped, tasks, Ended
<1>13. CASE Jump
  BY <1>13 DEF Jump, TasksTyped, Ended
<1>14. CASE Loop
  BY <1>11, <1>12, <1>13, <1>14 DEF Loop, Stopped, RaiseTimeLimit, RaiseDeadlock, RaiseStepLimit
<1>15. CASE UNCHANGED vars
  BY <1>15 DEF vars, tasks, loop, TasksTyped, Ended
<1> QED
  BY <1>9, <1>10, <1>14, <1>15 DEF Next

\* A task that was created stays so, and one that has ended has ended for good.
LEMMA PcStep ==
    ASSUME TasksTyped, QueueOK, [Next]_vars, NEW t \in Tasks
    PROVE  /\ pc[t] # "absent" => pc'[t] # "absent"
           /\ Ended(t) => Ended(t)' /\ end'[t] = end[t]
           /\ pc[t] = "cleanup" => pc'[t] \in {"cleanup", "done"}
<1> DEFINE P == /\ pc[t] # "absent" => pc'[t] # "absent"
                /\ Ended(t) => Ended(t)' /\ end'[t] = end[t]
                /\ pc[t] = "cleanup" => pc'[t] \in {"cleanup", "done"}
<1> USE DEF TasksTyped, Ended
<1>1. ASSUME NEW u \in Tasks, Begin(u) PROVE P
  BY <1>1 DEF Begin
<1>2. ASSUME NEW u \in Tasks, pc[u] # "done", NEW how, Settle(u, how) PROVE P
  BY <1>2 DEF Settle
<1>3. ASSUME NEW u \in Tasks, NeverBegins(u) PROVE P
  BY <1>2, <1>3 DEF NeverBegins
<1>4. ASSUME NEW u \in Tasks, TakesCancel(u) PROVE P
  BY <1>4 DEF TakesCancel, QueueOK, Queued, Called, Alive
<1>5. ASSUME NEW u \in Tasks, Finishes(u) PROVE P
  <2>1. pc[u] # "done"
    BY <1>5 DEF Finishes, QueueOK
  <2> QED
    BY <1>2, <1>5, <2>1 DEF Finishes
<1>6. ASSUME NEW u, NEW v, Suspends(u) \/ Wakes(u, v) PROVE P
  BY <1>6 DEF Suspends, Wakes
<1>7. ASSUME NEW u, Creates(u) PROVE P
  BY <1>7 DEF Creates
<1>8. ASSUME NEW n, Crash(n) PROVE P
  BY <1>8 DEF Crash
<1>9. CASE TaskStep
  BY <1>1, <1>3, <1>4, <1>5, <1>6, <1>7, <1>8, <1>9
     DEF TaskStep, Spawn, StartChaos, CreateTask, Restart
<1>10. CASE Callback
  BY <1>10 DEF Callback, NodeFinished, RunDone, GatherHears, tasks
<1>11. CASE Loop
  BY <1>11 DEF Loop, NextTick, Jump, Stopped, RaiseTimeLimit, RaiseDeadlock,
               RaiseStepLimit, Leave, LeaveMain, LeaveTeardown, tasks
<1>12. CASE UNCHANGED vars
  BY <1>12 DEF vars, tasks
<1> QED
  BY <1>9, <1>10, <1>11, <1>12 DEF Next

LEMMA RolesStep ==
    ASSUME TasksTyped, RestTyped, QueueOK, RolesOK, [Next]_vars
    PROVE  RolesOK'
<1> USE DEF RolesOK
<1>0. /\ \A t \in Tasks : pc[t] # "absent" => pc'[t] # "absent"
      /\ Workers \subseteq Tasks /\ gathered \subseteq Tasks
  BY PcStep, Names DEF RestTyped
<1>1. CASE UNCHANGED <<spawned, owned, chaos, down, gathered>>
  BY <1>0, <1>1
<1>2. ASSUME NEW n \in Workers, Creates(n)
      PROVE  /\ pc[n] = "absent" /\ pc'[n] # "absent"
             /\ n \notin spawned /\ n \notin chaos /\ gathered' = gathered
  BY <1>0, <1>2 DEF Creates, ends, TasksTyped
<1>3. ASSUME NEW n \in Workers, Spawn(n) PROVE RolesOK'
  BY <1>0, <1>2, <1>3 DEF Spawn
<1>4. ASSUME NEW n \in Workers, StartChaos(n) PROVE RolesOK'
  BY <1>0, <1>2, <1>4 DEF StartChaos
<1>5. ASSUME NEW n \in Workers, CreateTask(n) PROVE RolesOK'
  BY <1>0, <1>2, <1>5 DEF CreateTask, world
<1>6. ASSUME NEW n \in Workers, NEW t \in Workers, Restart(n, t) PROVE RolesOK'
  BY <1>0, <1>2, <1>6 DEF Restart
<1>7. ASSUME NEW n \in Workers, Crash(n) PROVE RolesOK'
  BY <1>0, <1>7 DEF Crash, ends
<1>8. CASE TaskStep
  <2>1. ASSUME NEW t \in Tasks, \/ Begin(t) \/ NeverBegins(t) \/ TakesCancel(t)
                                \/ Suspends(t) \/ Finishes(t)
                                \/ \E u \in Tasks : Wakes(t, u)
        PROVE  UNCHANGED <<spawned, owned, chaos, down, gathered>>
    BY <2>1 DEF Begin, NeverBegins, TakesCancel, Suspends, Finishes, Wakes, world, ends
  <2> QED
    BY <1>1, <1>3, <1>4, <1>5, <1>6, <1>7, <1>8, <2>1 DEF TaskStep
<1>9. CASE Callback
  BY <1>1, <1>9 DEF Callback, NodeFinished, RunDone, GatherHears, world, ends
<1>10. ASSUME NEW f, Leave(f), UNCHANGED world PROVE RolesOK'
  BY <1>0, <1>10 DEF Leave, LeaveMain, LeaveTeardown, world, Alive
<1>11. CASE Loop
  BY <1>1, <1>10, <1>11 DEF Loop, NextTick, Jump, Stopped, RaiseTimeLimit, RaiseDeadlock,
                            RaiseStepLimit, world, ends
<1>12. CASE UNCHANGED vars
  BY <1>1, <1>12 DEF vars, world, ends
<1> QED
  BY <1>8, <1>9, <1>11, <1>12 DEF Next

LEMMA SettleSince ==
    ASSUME RestTyped, NEW t, NEW how, Settle(t, how)
    PROVE  since' \in [Workers -> -1 .. 2]
<1>1. since' = since \/ since' = [since EXCEPT ![t] = 0]
  BY Zenon DEF Settle
<1>2. 0 \in -1 .. 2 /\ since \in [Workers -> -1 .. 2]
  BY DEF RestTyped
<1> QED
  BY <1>1, <1>2

LEMMA OlderType ==
    ASSUME RestTyped
    PROVE  Older \in [Workers -> -1 .. 2]
  BY DEF RestTyped, Older

LEMMA OutcomeType ==
    ASSUME NEW failure
    PROVE  Outcome(failure) \in {"ok", "failed", "raised"}
  BY DEF Outcome

LEMMA RestTypedStep ==
    ASSUME TasksTyped, RestTyped, QueueOK, RolesOK, CallbacksOK, [Next]_vars
    PROVE  RestTyped'
<1> USE DEF RestTyped
<1>0. Workers \subseteq Tasks
  BY Names
<1>1. ASSUME NEW t, Creates(t) PROVE UNCHANGED <<ends, ghost, stopping, over>>
  BY <1>1 DEF Creates
<1>2. CASE TaskStep
  <2>1. ASSUME NEW t \in Tasks, Begin(t) \/ Suspends(t) \/ \E u \in Tasks : Wakes(t, u)
        PROVE  RestTyped'
    BY <2>1 DEF Begin, Suspends, Wakes, world, ends, ghost
  <2>2. ASSUME NEW t \in Tasks, NeverBegins(t) \/ Finishes(t)
        PROVE  RestTyped'
    <3>1. since' \in [Workers -> -1 .. 2]
      BY <2>2, SettleSince DEF NeverBegins, Finishes
    <3> QED
      BY <2>2, <3>1 DEF NeverBegins, Finishes, world, ends
  <2>3. ASSUME NEW t \in Tasks, TakesCancel(t) PROVE RestTyped'
    BY <2>3 DEF TakesCancel, world, ends
  <2>4. ASSUME NEW n \in Workers, Spawn(n) \/ StartChaos(n) \/ CreateTask(n)
        PROVE  RestTyped'
    BY <1>1, <2>4 DEF Spawn, StartChaos, CreateTask, world, ends, ghost
  <2>5. ASSUME NEW n \in Workers, NEW t \in Workers, Restart(n, t) PROVE RestTyped'
    BY <1>1, <2>5 DEF Restart, ends, ghost
  <2>6. ASSUME NEW n \in Workers, Crash(n) PROVE RestTyped'
    BY <2>6 DEF Crash, ends, ghost
  <2> QED
    BY <1>2, <2>1, <2>2, <2>3, <2>4, <2>5, <2>6 DEF TaskStep
<1>3. CASE Callback
  <2>1. ASSUME NEW n \in Workers, NodeFinished(n) PROVE RestTyped'
    <3>1. n \in spawned
      BY <2>1 DEF NodeFinished, Called, CallbacksOK
    <3> QED
      BY <2>1, <3>1 DEF NodeFinished, ends, ghost
  <2>2. CASE RunDone
    BY <2>2 DEF RunDone, world, ends, ghost
  <2>3. ASSUME NEW t \in Tasks, GatherHears(t) PROVE RestTyped'
    BY <2>3 DEF GatherHears, world, ghost
  <2> QED
    BY <1>3, <2>1, <2>2, <2>3 DEF Callback
<1>4. ASSUME NEW f, Leave(f), UNCHANGED <<world, ghost>>, over' \in BOOLEAN PROVE RestTyped'
  <2>1. CASE LeaveMain(f)
    BY <1>4, <2>1, OutcomeType DEF LeaveMain, world, ghost, Phases
  <2>2. CASE LeaveTeardown(f)
    BY <1>4, <2>2 DEF LeaveTeardown, world, ghost, Phases
  <2> QED
    BY <1>4, <2>1, <2>2 DEF Leave
<1>5. CASE Loop
  <2>1. CASE NextTick \/ Jump
    BY <2>1, OlderType DEF NextTick, Jump, world, ends
  <2> QED
    BY <1>4, <1>5, <2>1 DEF Loop, Stopped, RaiseTimeLimit, RaiseDeadlock, RaiseStepLimit
<1>6. CASE UNCHANGED vars
  BY <1>6 DEF vars, loop, world, ends, ghost
<1> QED
  BY <1>2, <1>3, <1>5, <1>6 DEF Next

-----------------------------------------------------------------------------
(* Queues.                                                                 *)

\* What a step does to the queue and to the tasks, as far as QueueOK is
\* concerned: t suspends, is resumed, begins, ends, or is created.
LEMMA SettleQueue ==
    ASSUME TasksTyped, QueueOK, NEW t \in Tasks,
           NEW how \in {"returned", "failed", "cancelled"}, Settle(t, how),
           Alive(t), waiting[t] = "no", ~cancelling[t] \/ running = Nobody,
           running \in {t, Nobody}, Step(t) \notin next, 
           left' = left \ {Step(t)}, over' = over
    PROVE  QueueOK'
<1> USE DEF QueueOK, Queued, TasksTyped, Alive
<1>1. /\ pc' = [pc EXCEPT ![t] = "done"]
      /\ running' = Nobody /\ Nobody \notin Tasks
      /\ \A u \in Tasks : u # t => pc'[u] = pc[u]
  BY Names DEF Settle
<1>2. \A u \in Tasks : \/ waiting'[u] = waiting[u]
                       \/ /\ u = Main /\ waiting[u] = t /\ waiting'[u] = "no"
                          /\ Step(u) \in next'
  BY DEF Settle
<1>3. \A u \in Tasks : Step(u) \in next' => \/ Step(u) \in next
                                            \/ u = Main /\ waiting[u] = t
  BY Callbacks DEF Settle
<1>4. next \subseteq next'
  BY DEF Settle
<1>5. \A u \in Tasks : cancelling'[u] => u # t /\ (cancelling[u] \/ (u = Main /\ waiting[u] = t))
  BY Zenon DEF Settle
<1>6. waiting[Main] = t => /\ Main # t /\ waiting[Main] # "no" /\ waiting'[Main] = "no"
                           /\ Step(Main) \in next' /\ Alive(Main) /\ ~Queued(Main)
  BY Names DEF Settle
<1>7. \A u \in Tasks : Step(u) \in left' <=> Step(u) \in left /\ u # t
  BY Callbacks
<1>8. ~Queued(t)' /\ ~Alive(t)' /\ waiting'[t] = "no" /\ ~cancelling'[t]
  BY <1>1, <1>2, <1>3, <1>5, <1>7, Names
<1>9. ASSUME NEW u \in Tasks, u # t
      PROVE  /\ Queued(u)' => /\ Alive(u)' /\ waiting'[u] = "no" /\ running' # u
                              /\ ~(Step(u) \in next' /\ Step(u) \in left')
             /\ waiting'[u] # "no" => Alive(u)' /\ running' # u
             /\ running' # u
             /\ cancelling'[u] => Alive(u)' /\ waiting'[u] = "no"
             /\ ~over' /\ Alive(u)' /\ waiting'[u] = "no" => Queued(u)'
  <2>1. CASE u = Main /\ waiting[u] = t
    BY <1>1, <1>6, <1>7, <2>1, <1>9
  <2>2. CASE ~(u = Main /\ waiting[u] = t)
    <3>1. /\ waiting'[u] = waiting[u] /\ pc'[u] = pc[u] /\ running # u /\ running' # u
          /\ Step(u) \in next' <=> Step(u) \in next
          /\ Step(u) \in left' <=> Step(u) \in left
          /\ cancelling'[u] => cancelling[u]
      BY <1>1, <1>2, <1>3, <1>4, <1>5, <1>7, <1>9, <2>2
    <3> QED
      BY <3>1
  <2> QED
    BY <2>1, <2>2
<1> QED
  BY <1>1, <1>8, <1>9

LEMMA CancelQueue ==
    ASSUME TasksTyped, QueueOK, NEW S, Cancel(S), running \notin S,
           UNCHANGED <<pc, running>>,
           \/ UNCHANGED <<left, over>>
           \/ over' = TRUE /\ left' = {}
    PROVE  QueueOK'
<1> USE DEF QueueOK, Queued, TasksTyped, Alive
<1>1. ASSUME NEW t \in Tasks, t \in S, Alive(t)
      PROVE  /\ waiting'[t] = "no" /\ running' # t
             /\ Step(t) \in next' <=> Step(t) \in next \/ waiting[t] # "no"
  BY <1>1, Callbacks DEF Cancel
<1>2. ASSUME NEW t \in Tasks, ~(t \in S /\ Alive(t))
      PROVE  /\ waiting'[t] = waiting[t]
             /\ Step(t) \in next' <=> Step(t) \in next
  BY <1>2, Callbacks DEF Cancel
<1>3. \A t \in Tasks : cancelling'[t] => cancelling[t] \/ (t \in S /\ Alive(t))
  BY Zenon DEF Cancel
<1>4. \A t \in Tasks : Alive(t)' <=> Alive(t)
  OBVIOUS
<1>5. \A t \in Tasks : Step(t) \in left' => Step(t) \in left
  OBVIOUS
<1>6. ASSUME NEW t \in Tasks
      PROVE  /\ Queued(t)' => /\ Alive(t)' /\ waiting'[t] = "no" /\ running' # t
                              /\ ~(Step(t) \in next' /\ Step(t) \in left')
             /\ waiting'[t] # "no" => Alive(t)' /\ running' # t
             /\ running' = t => pc'[t] \in {"body", "cleanup"}
             /\ cancelling'[t] => Alive(t)' /\ waiting'[t] = "no" /\ running' # t
  <2>1. CASE t \in S /\ Alive(t)
    BY <1>1, <1>4, <1>5, <2>1
  <2>2. CASE ~(t \in S /\ Alive(t))
    <3>1. cancelling'[t] => cancelling[t]
      BY <1>3, <2>2
    <3> QED
      BY <1>2, <1>4, <1>5, <2>2, <3>1
  <2> QED
    BY <2>1, <2>2
<1>7. ASSUME ~over', NEW t \in Tasks, Alive(t)', waiting'[t] = "no", running' # t
      PROVE  Queued(t)'
  <2>0. over' # TRUE
    BY <1>7, Zenon
  <2>1. left' = left /\ over' = over
    BY <2>0
  <2>4. ~over
    BY <1>7, <2>1, Zenon
  <2>2. CASE t \in S /\ Alive(t)
    BY <1>1, <1>7, <2>1, <2>2
  <2>3. CASE ~(t \in S /\ Alive(t))
    BY <1>2, <1>4, <1>7, <2>1, <2>4, <2>3
  <2> QED
    BY <2>2, <2>3
<1> QED
  BY <1>6, <1>7

LEMMA QueueStep ==
    ASSUME TasksTyped, QueueOK, RolesOK, [Next]_vars
    PROVE  QueueOK'
<1>0. Workers \subseteq Tasks /\ Main \in Tasks /\ Nobody \notin Tasks
  BY Names
<1>1. ASSUME NEW t \in Tasks, Begin(t) PROVE QueueOK'
  <2>1. \A u \in Tasks : Step(u) \in left' <=> Step(u) \in left /\ u # t
    BY <1>1, Callbacks DEF Begin, Called
  <2> QED
    BY <1>0, <1>1, <2>1 DEF Begin, Called, QueueOK, Queued, Alive, TasksTyped
<1>2. ASSUME NEW t \in Tasks, NeverBegins(t) PROVE QueueOK'
  <2>1. /\ Step(t) \in left /\ running = Nobody /\ left' = left \ {Step(t)} /\ over' = over
        /\ Settle(t, "cancelled")
    BY <1>2 DEF NeverBegins, Called
  <2>2. Alive(t) /\ waiting[t] = "no" /\ Step(t) \notin next
    BY <2>1 DEF QueueOK, Queued
  <2> QED
    BY <2>1, <2>2, SettleQueue
<1>3. ASSUME NEW t \in Tasks, TakesCancel(t) PROVE QueueOK'
  <2>1. \A u \in Tasks : Step(u) \in left' <=> Step(u) \in left /\ u # t
    BY <1>3, Callbacks DEF TakesCancel, Called
  <2>2. \A u \in Tasks : cancelling'[u] => cancelling[u] /\ u # t
    BY <1>3, Zenon DEF TakesCancel, TasksTyped
  <2> QED
    BY <1>0, <1>3, <2>1, <2>2 DEF TakesCancel, Called, QueueOK, Queued, Alive, TasksTyped
<1>4. ASSUME NEW t \in Tasks, Suspends(t) PROVE QueueOK'
  <2>1. /\ running = t /\ running' = Nobody /\ UNCHANGED <<pc, cancelling, left, over>>
        /\ Alive(t) /\ ~Queued(t) /\ ~cancelling[t]
    BY <1>4 DEF Suspends, QueueOK, Alive
  <2>2. CASE next' = next \cup {Step(t)} /\ waiting' = waiting
    <3>1. \A u \in Tasks : Step(u) \in next' <=> Step(u) \in next \/ u = t
      BY <2>2, Callbacks
    <3> QED
      BY <1>0, <2>1, <2>2, <3>1 DEF QueueOK, Queued, Alive
  <2>3. ASSUME NEW w \in {"timer", "event"} \cup Workers,
               waiting' = [waiting EXCEPT ![t] = w], next' = next
        PROVE  QueueOK'
    <3>1. w # "no"
      BY Names
    <3> QED
      BY <1>0, <2>1, <2>3, <3>1 DEF QueueOK, Queued, Alive, TasksTyped
  <2> QED
    BY <1>4, <2>2, <2>3 DEF Suspends
<1>5. ASSUME NEW t \in Tasks, Finishes(t) PROVE QueueOK'
  <2>1. /\ running = t /\ over' = over /\ left' = left
        /\ \E how \in {"returned", "failed", "cancelled"} : Settle(t, how)
    BY <1>5 DEF Finishes, MainEnds
  <2>2. Alive(t) /\ waiting[t] = "no" /\ ~Queued(t) /\ ~cancelling[t]
    BY <2>1 DEF QueueOK, Alive
  <2>3. left' = left \ {Step(t)} /\ Step(t) \notin next
    BY <2>1, <2>2 DEF Queued
  <2> QED
    BY <2>1, <2>2, <2>3, SettleQueue
<1>6. ASSUME NEW t \in Tasks, NEW u \in Tasks, Wakes(t, u) PROVE QueueOK'
  <2>1. \A v \in Tasks : Step(v) \in next' <=> Step(v) \in next \/ v = u
    BY <1>6, Callbacks DEF Wakes
  <2> QED
    BY <1>6, <2>1 DEF Wakes, QueueOK, Queued, Alive, TasksTyped
<1>7. ASSUME NEW t \in Workers, Creates(t) PROVE QueueOK'
  <2>1. \A v \in Tasks : Step(v) \in next' <=> Step(v) \in next \/ v = t
    BY <1>7, Callbacks DEF Creates
  <2> QED
    BY <1>0, <1>7, <2>1 DEF Creates, QueueOK, Queued, Alive, TasksTyped
<1>8. ASSUME NEW n \in Workers, Crash(n) PROVE QueueOK'
  BY <1>8, CancelQueue DEF Crash
<1>9. CASE TaskStep
  BY <1>1, <1>2, <1>3, <1>4, <1>5, <1>6, <1>7, <1>8, <1>9
     DEF TaskStep, Spawn, StartChaos, CreateTask, Restart
<1>10. CASE Callback
  <2>1. /\ UNCHANGED <<tasks, running, over>>
        /\ \A t \in Tasks : (Step(t) \in next' <=> Step(t) \in next)
                            /\ (Step(t) \in left' <=> Step(t) \in left)
    BY <1>10, Callbacks DEF Callback, NodeFinished, RunDone, GatherHears, Called
  <2> QED
    BY <2>1 DEF QueueOK, Queued, Alive, tasks
<1>11. ASSUME NEW f, Leave(f), UNCHANGED running, running = Nobody,
              UNCHANGED <<left, over>> \/ (over' = TRUE /\ left' = {})
       PROVE  QueueOK'
  <2>1. CASE LeaveMain(f)
    <3>1. running \notin LeftBehind
      BY <1>0, <1>11 DEF LeftBehind, RolesOK
    <3> QED
      BY <1>11, <2>1, <3>1, CancelQueue DEF LeaveMain
  <2>2. CASE LeaveTeardown(f)
    BY <1>11, <2>2 DEF LeaveTeardown, tasks, QueueOK, Queued, Alive
  <2> QED
    BY <1>11, <2>1, <2>2 DEF Leave
<1>12. CASE NextTick
  BY <1>12 DEF NextTick, Between, tasks, QueueOK, Queued, Alive
<1>13. CASE Jump
  <2>1. PICK W \in SUBSET Sleeping :
           /\ left' = {Step(t) : t \in W}
           /\ waiting' = [t \in Tasks |-> IF t \in W THEN "no" ELSE waiting[t]]
    BY <1>13 DEF Jump
  <2>2. /\ next = {} /\ next' = {} /\ left = {} /\ running = Nobody
        /\ UNCHANGED <<pc, cancelling, running, over>>
    BY <1>13 DEF Jump, Between
  <2>3. \A t \in Tasks : Step(t) \in left' <=> t \in W
    BY <2>1, Callbacks
  <2>4. \A t \in W : t \in Tasks /\ waiting[t] = "timer"
    BY DEF Sleeping
  <2> QED
    BY <1>0, <2>1, <2>2, <2>3, <2>4 DEF QueueOK, Queued, Alive
<1>14. CASE Loop
  BY <1>11, <1>12, <1>13, <1>14
     DEF Loop, Stopped, RaiseTimeLimit, RaiseDeadlock, RaiseStepLimit, Between
<1>15. CASE UNCHANGED vars
  BY <1>15 DEF vars, tasks, loop, QueueOK, Queued, Alive
<1> QED
  BY <1>9, <1>10, <1>14, <1>15 DEF Next

\* What a cancellation queues is the next step of tasks.
LEMMA CancelSteps ==
    ASSUME NEW S \in SUBSET Tasks, Cancel(S)
    PROVE  /\ next \subseteq next'
           /\ \A c \in next' : c \in next \/ \E t \in Tasks : c = Step(t)
  BY DEF Cancel

\* Where the callbacks other than steps come from: the end of a task, and the
\* end of the last of those that teardown waits for.
LEMMA Sources ==
    ASSUME TasksTyped, QueueOK, CallbacksOK, RolesOK, [Next]_vars
    PROVE  /\ \A n \in Workers : Done(n) \in next' \cup left' =>
                 Done(n) \in next \cup left \/ (n \in spawned /\ Ended(n)')
           /\ \A t \in Tasks : Heard(t) \in next' \cup left' =>
                 Heard(t) \in next \cup left \/ (t \in gathered /\ Ended(t)')
           /\ gone' \subseteq gone \cup {t \in gathered : Ended(t)}
           /\ spawned \subseteq spawned'
           /\ gathered' = gathered \/ phase = "main"
<1> DEFINE P == /\ \A n \in Workers : Done(n) \in next' \cup left' =>
                      Done(n) \in next \cup left \/ (n \in spawned /\ Ended(n)')
                /\ \A t \in Tasks : Heard(t) \in next' \cup left' =>
                      Heard(t) \in next \cup left \/ (t \in gathered /\ Ended(t)')
                /\ gone' \subseteq gone \cup {t \in gathered : Ended(t)}
                /\ spawned \subseteq spawned'
                /\ gathered' = gathered \/ phase = "main"
           Same == UNCHANGED <<spawned, gathered, gone>>
           Steps == \A c \in next' \cup left' :
                       c \in next \cup left \/ \E t \in Tasks : c = Step(t)
<1>0. Workers \subseteq Tasks /\ Main \in Tasks
  BY Names
<1>1. ASSUME Steps, Same PROVE P
  BY <1>1, Callbacks
<1>2. ASSUME NEW t \in Tasks, NEW how, Settle(t, how), left' \subseteq left, Same PROVE P
  <2>1. Ended(t)'
    BY <1>2 DEF Settle, TasksTyped, Ended
  <2>2. \A c \in next' : \/ c \in next \/ \E u \in Tasks : c = Step(u)
                         \/ c = Done(t) /\ t \in spawned
                         \/ c = Heard(t) /\ t \in gathered
                         \/ c = StopRun
    BY <1>0, <1>2 DEF Settle
  <2> QED
    BY <1>2, <2>1, <2>2, Callbacks
<1>3. ASSUME NEW t \in Tasks, \/ Begin(t) \/ TakesCancel(t) \/ Suspends(t)
                              \/ \E u \in Tasks : Wakes(t, u)
      PROVE  P
  BY <1>1, <1>3 DEF Begin, TakesCancel, Suspends, Wakes, Called, world, ends
<1>4. ASSUME NEW t \in Tasks, NeverBegins(t) \/ Finishes(t) PROVE P
  BY <1>2, <1>4 DEF NeverBegins, Finishes, Called, world, ends
<1>5. ASSUME NEW n \in Workers, Creates(n), spawned \subseteq spawned' PROVE P
  <2>1. Steps /\ UNCHANGED <<gathered, gone>>
    BY <1>0, <1>5 DEF Creates, ends
  <2> QED
    BY <1>5, <2>1, Callbacks
<1>6. ASSUME NEW n \in Workers, Crash(n) PROVE P
  <2>1. {n} \in SUBSET Tasks /\ Cancel({n}) /\ left' = left /\ Same
    BY <1>0, <1>6 DEF Crash, ends
  <2>2. \A c \in next' : c \in next \/ \E t \in Tasks : c = Step(t)
    BY <2>1, CancelSteps, Zenon
  <2> QED
    BY <1>1, <2>1, <2>2
<1>7. CASE TaskStep
  BY <1>3, <1>4, <1>5, <1>6, <1>7 DEF TaskStep, Spawn, StartChaos, CreateTask, Restart, world
<1>8. CASE Callback
  <2>1. ASSUME NEW n \in Workers, NodeFinished(n) PROVE P
    BY <1>1, <2>1 DEF NodeFinished, Called, ends
  <2>2. CASE RunDone
    BY <1>1, <2>2 DEF RunDone, Called, world, ends
  <2>3. ASSUME NEW t \in Tasks, GatherHears(t) PROVE P
    <3>1. t \in gathered /\ Ended(t)
      BY <2>3 DEF GatherHears, Called, CallbacksOK
    <3>2. \A c \in next' \cup left' : c \in next \cup left \/ c = StopRun
      BY <2>3 DEF GatherHears, Called
    <3> QED
      BY <2>3, <3>1, <3>2, Callbacks DEF GatherHears, world
  <2> QED
    BY <1>8, <2>1, <2>2, <2>3 DEF Callback
<1>9. ASSUME NEW f, Leave(f), left' \subseteq left, UNCHANGED world PROVE P
  <2>1. CASE LeaveMain(f)
    <3>0. LeftBehind \in SUBSET Tasks /\ Cancel(LeftBehind)
      BY <1>0, <2>1 DEF LeaveMain, LeftBehind, RolesOK
    <3>1. Steps
      BY <1>9, <3>0, CancelSteps
    <3>2. UNCHANGED <<gone, spawned>> /\ phase = "main"
      BY <1>9, <2>1 DEF LeaveMain, world
    <3> QED
      BY <3>1, <3>2, Callbacks
  <2>2. CASE LeaveTeardown(f)
    BY <1>1, <1>9, <2>2 DEF LeaveTeardown, world
  <2> QED
    BY <1>9, <2>1, <2>2 DEF Leave
<1>10. CASE NextTick \/ Jump
  BY <1>1, <1>10 DEF NextTick, Jump, Between, Sleeping, world, ends
<1>11. CASE Loop
  BY <1>9, <1>10, <1>11
     DEF Loop, Stopped, RaiseTimeLimit, RaiseDeadlock, RaiseStepLimit, Between
<1>12. CASE UNCHANGED vars
  BY <1>1, <1>12 DEF vars, loop, world, ends
<1> QED
  BY <1>7, <1>8, <1>11, <1>12 DEF Next

LEMMA CallbacksStep ==
    ASSUME TasksTyped, RestTyped, QueueOK, CallbacksOK, RolesOK, StopsOK, [Next]_vars
    PROVE  CallbacksOK'
<1>1. \A t \in Tasks : Ended(t) => Ended(t)'
  BY PcStep
<1>2. phase = "main" => gathered = {} /\ gone = {}
  BY DEF StopsOK
<1>3. Workers \subseteq Tasks /\ gathered \subseteq Tasks
  BY Names DEF RestTyped
<1> QED
  BY <1>1, <1>2, <1>3, Sources DEF CallbacksOK

-----------------------------------------------------------------------------
(* Stops.                                                                  *)

\* A loop that is closed does not move.
LEMMA ClosedStays ==
    ASSUME phase = "closed", StopsOK, [Next]_vars
    PROVE  UNCHANGED vars
<1> USE DEF StopsOK
<1>1. ~TaskStep
  <2>1. running = Nobody /\ left = {} /\ Nobody \notin Tasks
    BY Names
  <2>2. ASSUME NEW t \in Tasks
        PROVE  ~(\/ Begin(t) \/ NeverBegins(t) \/ TakesCancel(t) \/ Suspends(t)
                 \/ Finishes(t) \/ \E u \in Tasks : Wakes(t, u))
    BY <2>1 DEF Begin, NeverBegins, TakesCancel, Suspends, Finishes, Wakes, Called
  <2>3. ASSUME NEW n PROVE ~(Creates(n) \/ Crash(n))
    BY <2>1 DEF Creates, Crash
  <2> QED
    BY <2>2, <2>3 DEF TaskStep, Spawn, StartChaos, CreateTask, Restart
<1>2. ~Callback
  BY DEF Callback, NodeFinished, RunDone, GatherHears, Called
<1>3. ~Loop
  BY DEF Loop, NextTick, Jump, Stopped, RaiseTimeLimit, RaiseDeadlock, RaiseStepLimit, Between
<1> QED
  BY <1>1, <1>2, <1>3 DEF Next

\* What a step does to stops that are none of its business.
LEMMA StopsKept ==
    ASSUME StopsOK, phase # "closed",
           UNCHANGED <<phase, gathered, gone, report, stopping, over>>,
           StopRun \in next' <=> StopRun \in next,
           StopRun \in left' => StopRun \in left,
           Ended(Main) => Ended(Main)' /\ end'[Main] = end[Main],
           report = "ok" => Ended(Main),
           running' \in {running, Nobody} \/ ~over
    PROVE  StopsOK'
  BY DEF StopsOK

\* The end of a task stops the first run, if it is the end of main.
LEMMA SettleStops ==
    ASSUME TasksTyped, StopsOK, phase # "closed", NEW t \in Tasks, ~Ended(t),
           NEW how, Settle(t, how),
           UNCHANGED <<phase, gathered, gone, report, stopping, over>>,
           left' \subseteq left,
           Ended(Main) => Ended(Main)' /\ end'[Main] = end[Main],
           report = "ok" => Ended(Main)
    PROVE  StopsOK'
<1>1. /\ running' = Nobody
      /\ StopRun \in next' <=> \/ StopRun \in next
                               \/ t = Main /\ phase = "main"
  BY Callbacks DEF Settle
<1>2. t = Main => Ended(Main)'
  BY DEF Settle, TasksTyped, Ended
<1>3. CASE ~(t = Main /\ phase = "main")
  BY <1>1, <1>3, StopsKept
<1>4. CASE t = Main /\ phase = "main"
  BY <1>1, <1>2, <1>4 DEF StopsOK
<1> QED
  BY <1>3, <1>4

\* Leaving the first run, for teardown or for good.
LEMMA LeaveMainStops ==
    ASSUME TasksTyped, RestTyped, RolesOK, StopsOK, NEW f, LeaveMain(f),
           running = Nobody, running' = Nobody, left' = {},
           f \/ stopping,
           over' = TRUE \/ StopRun \notin next
    PROVE  StopsOK'
<1>0. LeftBehind \in SUBSET Tasks
  BY Names DEF LeftBehind, RolesOK
<1>1. phase = "main" /\ phase' # "main" /\ stopping' = FALSE /\ UNCHANGED <<end, gone>>
  BY DEF LeaveMain
<1>2. StopRun \in next' => StopRun \in next
  BY <1>0, CancelSteps, Callbacks DEF LeaveMain
<1>3. report' = "ok" => end[Main] = "returned"
  <2>1. report' = "ok" => ~f /\ end[Main] \notin {"failed", "cancelled"}
    BY DEF LeaveMain, Outcome
  <2>2. stopping => Ended(Main)
    BY <1>1 DEF StopsOK
  <2>3. end[Main] \in Finals /\ (end[Main] # "no" <=> Ended(Main))
    BY Names DEF TasksTyped
  <2> QED
    BY <2>1, <2>2, <2>3 DEF Finals
<1>4. ~(over' = TRUE) => ~(StopRun \in next' \cup left' \/ stopping')
  BY <1>1, <1>2
<1>5. over' => over' = TRUE \/ ~(StopRun \in next' \cup left' \/ stopping')
  BY <1>4
<1> QED
  BY <1>1, <1>3, <1>4 DEF StopsOK

LEMMA StopsStep ==
    ASSUME TasksTyped, RestTyped, QueueOK, CallbacksOK, RolesOK, StopsOK, [Next]_vars
    PROVE  StopsOK'
<1>0. /\ Workers \subseteq Tasks /\ Main \in Tasks /\ Nobody \notin Tasks
      /\ Ended(Main) => Ended(Main)' /\ end'[Main] = end[Main]
      /\ report = "ok" => Ended(Main)
  BY Names, PcStep DEF StopsOK, TasksTyped
<1>1. CASE phase = "closed"
  BY <1>1, ClosedStays DEF vars, tasks, loop, ends, StopsOK, Ended
<1>2. CASE UNCHANGED vars
  BY <1>2 DEF vars, tasks, loop, ends, StopsOK, Ended
<1> SUFFICES ASSUME phase # "closed", Next PROVE StopsOK'
  BY <1>1, <1>2
<1>3. ASSUME NEW t \in Tasks, \/ Begin(t) \/ TakesCancel(t) \/ Suspends(t)
                              \/ \E u \in Tasks : Wakes(t, u)
      PROVE  StopsOK'
  <2>1. /\ UNCHANGED <<phase, gathered, gone, report, stopping, over>>
        /\ StopRun \in next' <=> StopRun \in next
        /\ StopRun \in left' => StopRun \in left
        /\ running' \in {running, Nobody} \/ ~over
    BY <1>3, Callbacks DEF Begin, TakesCancel, Suspends, Wakes, Called, ends
  <2> QED
    BY <1>0, <2>1, StopsKept
<1>4. ASSUME NEW t \in Tasks, NeverBegins(t) \/ Finishes(t) PROVE StopsOK'
  <2>1. ~Ended(t)
    BY <1>4 DEF NeverBegins, Finishes, QueueOK, Ended
  <2>2. /\ \E how : Settle(t, how)
        /\ UNCHANGED <<phase, gathered, gone, report, stopping, over>> /\ left' \subseteq left
    BY <1>4 DEF NeverBegins, Finishes, Called, ends
  <2> QED
    BY <1>0, <2>1, <2>2, SettleStops
<1>5. ASSUME NEW t \in Workers, Creates(t) PROVE StopsOK'
  <2>1. /\ UNCHANGED <<phase, gathered, gone, report, stopping, over, left, running>>
        /\ StopRun \in next' <=> StopRun \in next
    BY <1>5, Callbacks DEF Creates, ends
  <2> QED
    BY <1>0, <2>1, StopsKept
<1>6. ASSUME NEW n \in Workers, Crash(n) PROVE StopsOK'
  <2>1. {n} \in SUBSET Tasks /\ Cancel({n})
    BY <1>0, <1>6 DEF Crash
  <2>2. /\ UNCHANGED <<phase, gathered, gone, report, stopping, over, left, running>>
        /\ StopRun \in next' <=> StopRun \in next
    BY <1>6, <2>1, CancelSteps, Callbacks DEF Crash, ends
  <2> QED
    BY <1>0, <2>2, StopsKept
<1>7. CASE TaskStep
  BY <1>3, <1>4, <1>5, <1>6, <1>7 DEF TaskStep, Spawn, StartChaos, CreateTask, Restart
<1>8. ASSUME NEW n \in Workers, NodeFinished(n) PROVE StopsOK'
  BY <1>0, <1>8, StopsKept DEF NodeFinished, Called, ends
<1>9. CASE RunDone
  BY <1>0, <1>9 DEF RunDone, Called, StopsOK, tasks, ends, Ended
<1>10. ASSUME NEW t \in Tasks, GatherHears(t) PROVE StopsOK'
  <2>1. /\ t \in gathered /\ gone' = gone \cup {t} /\ gone \subseteq gathered /\ ~over
        /\ UNCHANGED <<phase, gathered, report, stopping, over, running, pc, end>>
        /\ phase = "teardown" \/ phase = "closed"
        /\ left' \subseteq left
        /\ next' = next \/ gone' = gathered
    BY <1>10 DEF GatherHears, Called, CallbacksOK, tasks, StopsOK, RestTyped, Phases
  <2>2. gone = gathered => gone' = gathered
    BY <2>1
  <2> QED
    BY <1>0, <2>1, <2>2 DEF StopsOK, Ended
<1>11. CASE Callback
  BY <1>8, <1>9, <1>10, <1>11 DEF Callback
<1>12. CASE NextTick
  BY <1>0, <1>12 DEF NextTick, Between, StopsOK, tasks, ends, Ended
<1>13. CASE Jump
  <2>1. StopRun \notin next' \cup left'
    BY <1>13, Callbacks DEF Jump
  <2> QED
    BY <1>0, <1>13, <2>1 DEF Jump, Between, StopsOK, ends, Ended
<1>14. ASSUME NEW f, Leave(f), running = Nobody, running' = Nobody, left' = {},
              f \/ stopping, over' = over \/ over' = TRUE,
              phase = "main" => over' = TRUE \/ StopRun \notin next
       PROVE  StopsOK'
  <2>1. CASE LeaveMain(f)
    BY <1>14, <2>1, LeaveMainStops DEF LeaveMain
  <2>2. CASE LeaveTeardown(f)
    BY <1>0, <1>14, <2>2 DEF LeaveTeardown, StopsOK, tasks, Ended
  <2> QED
    BY <1>14, <2>1, <2>2 DEF Leave
<1>15. CASE Stopped
  BY <1>14, <1>15 DEF Stopped, Between, StopsOK
<1>16. CASE Loop
  BY <1>12, <1>13, <1>14, <1>15, <1>16
     DEF Loop, RaiseTimeLimit, RaiseDeadlock, RaiseStepLimit, Between
<1> QED
  BY <1>7, <1>11, <1>16 DEF Next

-----------------------------------------------------------------------------
(* Errors, and their ages.                                                 *)

\* Where no task ends and no end is heard of, the errors stay right.
LEMMA ErrorsKept ==
    ASSUME ErrorsAreFailures, UNCHANGED <<end, errors, over>>,
           \A n \in spawned : Done(n) \in next \cup left => Done(n) \in next' \cup left',
           \A n \in spawned' : n \in spawned \/ (end[n] = "no" /\ n \notin errors)
    PROVE  ErrorsAreFailures'
  BY DEF ErrorsAreFailures

\* The end of a task, and what is queued for it.
LEMMA SettleErrors ==
    ASSUME TasksTyped, RolesOK, ErrorsAreFailures, NEW t \in Tasks, ~Ended(t),
           NEW how, Settle(t, how), UNCHANGED <<over, errors, spawned>>,
           \A n \in spawned : Done(n) \in left => Done(n) \in left'
    PROVE  ErrorsAreFailures'
<1>1. end[t] = "no" /\ end' = [end EXCEPT ![t] = how]
  BY DEF Settle, TasksTyped
<1>2. next \subseteq next' /\ (t \in spawned => Done(t) \in next')
  BY DEF Settle
<1>3. spawned \subseteq Tasks
  BY Names DEF RolesOK
<1>4. t \in spawned => t \notin errors
  BY <1>1 DEF ErrorsAreFailures
<1> QED
  BY <1>1, <1>2, <1>3, <1>4 DEF ErrorsAreFailures, TasksTyped

LEMMA ErrorsStep ==
    ASSUME TasksTyped, RestTyped, QueueOK, RolesOK, ErrorsAreFailures, [Next]_vars
    PROVE  ErrorsAreFailures'
<1>0. /\ Workers \subseteq Tasks /\ Main \in Tasks /\ spawned \subseteq Workers
      /\ errors \subseteq spawned
  BY Names DEF RolesOK, RestTyped
<1>1. ASSUME NEW t \in Tasks, \/ Begin(t) \/ TakesCancel(t) \/ Suspends(t)
                              \/ \E u \in Tasks : Wakes(t, u)
      PROVE  ErrorsAreFailures'
  <2>1. /\ UNCHANGED <<end, errors, over, spawned>> /\ next \subseteq next'
        /\ \A n \in spawned : Done(n) \in left => Done(n) \in left'
    BY <1>1, Callbacks DEF Begin, TakesCancel, Suspends, Wakes, Called, world
  <2> QED
    BY <2>1, ErrorsKept
<1>2. ASSUME NEW t \in Tasks, NeverBegins(t) \/ Finishes(t) PROVE ErrorsAreFailures'
  <2>1. ~Ended(t)
    BY <1>2 DEF NeverBegins, Finishes, QueueOK, Ended
  <2>2. /\ \E how : Settle(t, how)
        /\ UNCHANGED <<errors, over, spawned>>
        /\ \A n \in spawned : Done(n) \in left => Done(n) \in left'
    BY <1>2, Callbacks DEF NeverBegins, Finishes, Called, world
  <2> QED
    BY <2>1, <2>2, SettleErrors
<1>3. ASSUME NEW t \in Workers, Creates(t), errors' = errors,
             spawned' \in {spawned, spawned \cup {t}}
      PROVE  ErrorsAreFailures'
  <2>1. pc[t] = "absent" /\ end[t] = "no" /\ t \notin spawned
    BY <1>0, <1>3 DEF Creates, TasksTyped, Ended, RolesOK
  <2>2. UNCHANGED <<end, errors, over, left>> /\ next \subseteq next'
    BY <1>3 DEF Creates
  <2> QED
    BY <1>0, <1>3, <2>1, <2>2, ErrorsKept
<1>4. ASSUME NEW n \in Workers, Crash(n) PROVE ErrorsAreFailures'
  <2>1. {n} \in SUBSET Tasks /\ Cancel({n})
    BY <1>0, <1>4 DEF Crash
  <2>2. next \subseteq next' /\ UNCHANGED <<end, errors, over, spawned, left>>
    BY <1>4, <2>1, CancelSteps DEF Crash
  <2> QED
    BY <2>2, ErrorsKept
<1>5. CASE TaskStep
  BY <1>1, <1>2, <1>3, <1>4, <1>5 DEF TaskStep, Spawn, StartChaos, CreateTask, Restart, world
<1>6. ASSUME NEW n \in Workers, NodeFinished(n) PROVE ErrorsAreFailures'
  <2>1. /\ UNCHANGED <<end, over, next, spawned>> /\ left' = left \ {Done(n)}
        /\ errors' = IF end[n] = "failed" THEN errors \cup {n} ELSE errors
    BY <1>6 DEF NodeFinished, Called, tasks
  <2>2. \A m \in spawned : m # n /\ Done(m) \in left => Done(m) \in left'
    BY <2>1, Callbacks
  <2> QED
    BY <2>1, <2>2 DEF ErrorsAreFailures
<1>7. CASE RunDone
  <2>1. /\ UNCHANGED <<end, errors, over, next, spawned>>
        /\ \A n \in spawned : Done(n) \in left => Done(n) \in left'
    BY <1>7, Callbacks DEF RunDone, Called, tasks, world
  <2> QED
    BY <2>1, ErrorsKept
<1>8. ASSUME NEW t \in Tasks, GatherHears(t) PROVE ErrorsAreFailures'
  <2>1. /\ UNCHANGED <<end, errors, over, spawned>> /\ next \subseteq next'
        /\ \A n \in spawned : Done(n) \in left => Done(n) \in left'
    BY <1>8, Callbacks DEF GatherHears, Called, tasks, world
  <2> QED
    BY <2>1, ErrorsKept
<1>9. CASE Callback
  BY <1>6, <1>7, <1>8, <1>9 DEF Callback
<1>10. CASE NextTick
  <2>1. /\ UNCHANGED <<end, errors, over, spawned>> /\ left = {} /\ left' = next
    BY <1>10 DEF NextTick, Between, tasks, world
  <2> QED
    BY <2>1, ErrorsKept
<1>11. CASE Jump
  <2>1. UNCHANGED <<end, errors, over, spawned>> /\ left = {} /\ next = {}
    BY <1>11 DEF Jump, Between, world
  <2> QED
    BY <2>1, ErrorsKept
<1>12. ASSUME NEW f, Leave(f) PROVE end' = end /\ next \subseteq next'
  <2>1. CASE LeaveMain(f)
    <3>1. LeftBehind \in SUBSET Tasks
      BY <1>0 DEF LeftBehind, RolesOK
    <3> QED
      BY <2>1, <3>1, CancelSteps DEF LeaveMain
  <2>2. CASE LeaveTeardown(f)
    BY <2>2 DEF LeaveTeardown, tasks
  <2> QED
    BY <1>12, <2>1, <2>2 DEF Leave
<1>13. ASSUME NEW f, Leave(f), UNCHANGED <<over, world, left>> PROVE ErrorsAreFailures'
  BY <1>12, <1>13, ErrorsKept DEF world
<1>14. CASE RaiseStepLimit
  <2>1. over' /\ UNCHANGED <<end, errors, spawned>>
    BY <1>12, <1>14 DEF RaiseStepLimit, world
  <2> QED
    BY <2>1 DEF ErrorsAreFailures
<1>15. CASE Loop
  BY <1>10, <1>11, <1>13, <1>14, <1>15 DEF Loop, Stopped, RaiseTimeLimit, RaiseDeadlock
<1>16. CASE UNCHANGED vars
  BY <1>16 DEF vars, tasks, loop, world, ErrorsAreFailures
<1> QED
  BY <1>5, <1>9, <1>15, <1>16 DEF Next

\* The ages of failures, where nothing fails and no tick ends.
LEMMA AgesKept ==
    ASSUME AgesOK, UNCHANGED <<since, end, over>>, Ended(Main)' <=> Ended(Main),
           errors \subseteq errors', spawned \subseteq spawned',
           \A n \in spawned : Done(n) \in left => Done(n) \in left'
                                 \/ n \in errors' \/ end[n] # "failed"
    PROVE  AgesOK'
  BY DEF AgesOK

\* main does not return while there are errors, if the run is strict.
LEMMA SettleAges ==
    ASSUME TasksTyped, RestTyped, RolesOK, AgesOK, ~over, NEW t \in Tasks, ~Ended(t),
           NEW how \in {"returned", "failed", "cancelled"}, Settle(t, how),
           UNCHANGED <<over, errors, spawned>>,
           t = Main /\ how = "returned" => ~Strict \/ errors = {},
           \A n \in Workers : Done(n) \in left => Done(n) \in left'
    PROVE  AgesOK'
<1>0. /\ Workers \subseteq Tasks /\ Main \in Tasks /\ Main \notin Workers
      /\ spawned \subseteq Workers
  BY Names DEF RolesOK
<1>1. /\ end[t] = "no" /\ end' = [end EXCEPT ![t] = how] /\ end'[t] = how
      /\ \A u \in Tasks : u # t => end'[u] = end[u]
      /\ \A u \in Tasks : Ended(u)' <=> Ended(u) \/ u = t
  BY DEF Settle, TasksTyped, Ended
<1>2. \A n \in Workers : \/ since'[n] = since[n]
                         \/ n = t /\ n \in spawned /\ how = "failed" /\ since'[n] = 0
  BY <1>0 DEF Settle, RestTyped
<1>3. \A n \in Workers : since'[n] # -1 => n \in spawned' /\ end'[n] = "failed"
  BY <1>0, <1>1, <1>2 DEF AgesOK
<1>4. ASSUME ~over', ~Ended(Main)', NEW n \in Workers
      PROVE  /\ since'[n] = 1 => n \in errors' \/ Done(n) \in left'
             /\ since'[n] = 2 => n \in errors'
  BY <1>0, <1>1, <1>2, <1>4 DEF AgesOK
<1>5. ASSUME Strict, end'[Main] = "returned", NEW n \in Workers
      PROVE  since'[n] < 2
  <2>1. since[n] \in -1 .. 2
    BY DEF RestTyped
  <2>2. CASE t = Main
    <3>1. n \notin errors /\ ~Ended(Main) /\ since'[n] = since[n]
      BY <1>0, <1>1, <1>2, <1>5, <2>2
    <3>2. since[n] # 2
      BY <3>1 DEF AgesOK
    <3> QED
      BY <2>1, <3>1, <3>2
  <2>3. CASE t # Main
    BY <1>0, <1>1, <1>2, <1>5, <2>3 DEF AgesOK
  <2> QED
    BY <2>2, <2>3
<1> QED
  BY <1>3, <1>4, <1>5 DEF AgesOK

\* At the end of a tick every failure that is a tick old is among the errors.
LEMMA OlderAges ==
    ASSUME TasksTyped, RestTyped, AgesOK, ErrorsAreFailures, left = {},
           next \subseteq left', since' = Older, UNCHANGED <<pc, end, over, errors, spawned>>
    PROVE  AgesOK'
<1>1. \A n \in Workers : since[n] \in -1 .. 2
  BY DEF RestTyped
<1>2. \A n \in Workers : since'[n] = IF since[n] \in {0, 1} /\ ~Ended(Main)
                                        THEN since[n] + 1 ELSE since[n]
  BY DEF Older
<1>3. Ended(Main)' <=> Ended(Main)
  BY DEF Ended
<1>4. \A n \in Workers : since'[n] # -1 => n \in spawned' /\ end'[n] = "failed"
  BY <1>1, <1>2 DEF AgesOK
<1>5. ASSUME ~over, ~Ended(Main), NEW n \in Workers
      PROVE  /\ since'[n] = 1 => n \in errors \/ Done(n) \in left'
             /\ since'[n] = 2 => n \in errors
  <2>1. /\ since[n] = 0 => n \in errors \/ Done(n) \in left'
        /\ since[n] = 1 => n \in errors
        /\ since[n] = 2 => n \in errors
    BY <1>5 DEF AgesOK, ErrorsAreFailures
  <2>2. /\ since'[n] = 1 => since[n] = 0
        /\ since'[n] = 2 => since[n] \in {1, 2}
    BY <1>1, <1>2, <1>5
  <2> QED
    BY <2>1, <2>2
<1>6. ASSUME Strict, end'[Main] = "returned", NEW n \in Workers
      PROVE  since'[n] < 2
  <2>1. Ended(Main) /\ since[n] < 2
    BY <1>6, Names DEF AgesOK, TasksTyped
  <2> QED
    BY <1>2, <2>1
<1> QED
  BY <1>3, <1>4, <1>5, <1>6 DEF AgesOK

LEMMA AgesStep ==
    ASSUME TasksTyped, RestTyped, QueueOK, RolesOK, StopsOK, AgesOK, ErrorsAreFailures,
           [Next]_vars
    PROVE  AgesOK'
<1>0. /\ Workers \subseteq Tasks /\ Main \in Tasks /\ Main \notin Workers
      /\ Nobody \notin Tasks /\ spawned \subseteq Workers
  BY Names DEF RolesOK
<1>1. ASSUME NEW t \in Tasks, \/ Begin(t) \/ TakesCancel(t) \/ Suspends(t)
                              \/ \E u \in Tasks : Wakes(t, u)
      PROVE  AgesOK'
  <2>1. /\ UNCHANGED <<since, end, errors, over, spawned>>
        /\ \A n \in spawned : Done(n) \in left => Done(n) \in left'
    BY <1>1, Callbacks DEF Begin, TakesCancel, Suspends, Wakes, Called, world, ghost
  <2>2. Ended(Main)' <=> Ended(Main)
    BY <1>0, <1>1 DEF Begin, TakesCancel, Suspends, Wakes, Called, Ended, TasksTyped,
                      QueueOK, Queued, Alive
  <2> QED
    BY <2>1, <2>2, AgesKept
<1>2. ASSUME NEW t \in Tasks, NeverBegins(t) \/ Finishes(t) PROVE AgesOK'
  <2>1. ~Ended(t)
    BY <1>2 DEF NeverBegins, Finishes, QueueOK, Ended
  <2>2. PICK how \in {"returned", "failed", "cancelled"} :
           /\ Settle(t, how)
           /\ t = Main /\ how = "returned" => ~Strict \/ errors = {}
    BY <1>2 DEF NeverBegins, Finishes, MainEnds
  <2>3. /\ ~over /\ UNCHANGED <<over, errors, spawned>>
        /\ \A n \in Workers : Done(n) \in left => Done(n) \in left'
    BY <1>0, <1>2, Callbacks DEF NeverBegins, Finishes, Called, world, StopsOK
  <2> QED
    BY <2>1, <2>2, <2>3, SettleAges
<1>3. ASSUME NEW t \in Workers, Creates(t), errors' = errors, spawned \subseteq spawned'
      PROVE  AgesOK'
  <2>1. /\ UNCHANGED <<since, end, over, left>> /\ (Ended(Main)' <=> Ended(Main))
    BY <1>0, <1>3 DEF Creates, Ended, TasksTyped, ghost
  <2> QED
    BY <1>3, <2>1, AgesKept
<1>4. ASSUME NEW n \in Workers, Crash(n) PROVE AgesOK'
  BY <1>4, AgesKept DEF Crash, ghost, Ended
<1>5. CASE TaskStep
  BY <1>1, <1>2, <1>3, <1>4, <1>5 DEF TaskStep, Spawn, StartChaos, CreateTask, Restart, world
<1>6. CASE Callback
  <2>1. /\ UNCHANGED <<since, end, over, spawned>> /\ (Ended(Main)' <=> Ended(Main))
        /\ errors \subseteq errors'
    BY <1>6 DEF Callback, NodeFinished, RunDone, GatherHears, tasks, world, ghost, Ended
  <2>2. \A n \in spawned : Done(n) \in left => Done(n) \in left'
                              \/ n \in errors' \/ end[n] # "failed"
    BY <1>6, Callbacks DEF Callback, NodeFinished, RunDone, GatherHears, Called
  <2> QED
    BY <2>1, <2>2, AgesKept
<1>7. CASE NextTick
  BY <1>7, OlderAges DEF NextTick, Between, tasks, world
<1>8. CASE Jump
  <2>1. next \subseteq left' /\ left = {} /\ since' = Older
        /\ UNCHANGED <<pc, end, over, errors, spawned>>
    BY <1>8 DEF Jump, Between, world
  <2> QED
    BY <2>1, OlderAges
<1>9. ASSUME NEW f, Leave(f) PROVE end' = end /\ pc' = pc
  BY <1>9 DEF Leave, LeaveMain, LeaveTeardown, tasks
<1>10. ASSUME NEW f, Leave(f), UNCHANGED <<over, world, left, ghost>> PROVE AgesOK'
  BY <1>9, <1>10, AgesKept DEF world, ghost, Ended
<1>11. CASE RaiseStepLimit
  <2>1. over' /\ UNCHANGED <<pc, end, errors, spawned, since>>
    BY <1>9, <1>11 DEF RaiseStepLimit, world, ghost
  <2> QED
    BY <2>1 DEF AgesOK
<1>12. CASE Loop
  BY <1>7, <1>8, <1>10, <1>11, <1>12 DEF Loop, Stopped, RaiseTimeLimit, RaiseDeadlock
<1>13. CASE UNCHANGED vars
  BY <1>13, AgesKept DEF vars, tasks, loop, world, ghost, Ended
<1> QED
  BY <1>5, <1>6, <1>12, <1>13 DEF Next

-----------------------------------------------------------------------------
(* Cancellations.                                                          *)

\* A task that was told stays told: it has the error, or it is over.
LEMMA ToldStays ==
    ASSUME TasksTyped, QueueOK, RolesOK, [Next]_vars, NEW t \in Tasks, Told(t)
    PROVE  Told(t)'
<1> DEFINE P == Told(t)'
<1> USE DEF Told
<1>0. \/ cancelling[t]
      \/ pc'[t] \in {"cleanup", "done"}
      \/ t \in refused
  BY PcStep DEF Ended
<1>1. ASSUME refused \subseteq refused', \A u \in Tasks : cancelling[u] => cancelling'[u]
      PROVE  P
  BY <1>0, <1>1
<1>2. ASSUME NEW u \in Tasks, TakesCancel(u) PROVE P
  <2>1. CASE u = t
    BY <1>2, <2>1 DEF TakesCancel, TasksTyped
  <2>2. CASE u # t
    <3>1. cancelling[t] => cancelling'[t]
      BY <1>2, <2>2, Zenon DEF TakesCancel, TasksTyped
    <3>2. refused \subseteq refused'
      BY <1>2 DEF TakesCancel
    <3> QED
      BY <1>0, <3>1, <3>2
  <2> QED
    BY <2>1, <2>2
<1>3. ASSUME NEW u \in Tasks, NEW how, Settle(u, how), refused' = refused PROVE P
  <2>1. CASE u = t
    BY <1>3, <2>1 DEF Settle, TasksTyped
  <2>2. CASE u # t
    <3>1. cancelling[t] => cancelling'[t]
      BY <1>3, <2>2, Zenon DEF Settle
    <3> QED
      BY <1>0, <1>3, <3>1
  <2> QED
    BY <2>1, <2>2
<1>4. ASSUME NEW S, Cancel(S) PROVE \A u \in Tasks : cancelling[u] => cancelling'[u]
  BY <1>4, Zenon DEF Cancel
<1>5. ASSUME NEW u, NEW v, Begin(u) \/ Suspends(u) \/ Wakes(u, v) \/ Creates(u) PROVE P
  BY <1>1, <1>5 DEF Begin, Suspends, Wakes, Creates, ghost
<1>6. ASSUME NEW u \in Tasks, NeverBegins(u) \/ Finishes(u) PROVE P
  BY <1>3, <1>6 DEF NeverBegins, Finishes
<1>7. ASSUME NEW n, Crash(n) PROVE P
  BY <1>1, <1>4, <1>7 DEF Crash, ghost
<1>8. CASE TaskStep
  BY <1>2, <1>5, <1>6, <1>7, <1>8 DEF TaskStep, Spawn, StartChaos, CreateTask, Restart
<1>9. CASE Callback
  BY <1>1, <1>9 DEF Callback, NodeFinished, RunDone, GatherHears, tasks, ghost
<1>10. ASSUME NEW f, Leave(f), refused' = refused PROVE P
  BY <1>1, <1>4, <1>10 DEF Leave, LeaveMain, LeaveTeardown, tasks
<1>11. CASE Loop
  BY <1>1, <1>10, <1>11 DEF Loop, NextTick, Jump, Stopped, RaiseTimeLimit, RaiseDeadlock,
                            RaiseStepLimit, tasks, ghost
<1>12. CASE UNCHANGED vars
  BY <1>12 DEF vars, tasks, ghost
<1> QED
  BY <1>8, <1>9, <1>11, <1>12 DEF Next

\* A task that has been created, and is cancelled, is told or was over before.
LEMMA CancelTells ==
    ASSUME TasksTyped, NEW S, Cancel(S), pc' = pc, NEW t \in Tasks, t \in S,
           pc[t] # "absent"
    PROVE  Told(t)'
<1>1. pc[t] \in Places
  BY DEF TasksTyped
<1>2. CASE Alive(t)
  <2>1. cancelling'[t]
    BY <1>2, Zenon DEF Cancel
  <2> QED
    BY <2>1 DEF Told
<1>3. CASE ~Alive(t)
  BY <1>1, <1>3 DEF Places, Alive, Told
<1> QED
  BY <1>2, <1>3

LEMMA ToldStep ==
    ASSUME TasksTyped, RestTyped, QueueOK, RolesOK, ToldOK, [Next]_vars
    PROVE  ToldOK'
<1>0. /\ Workers \subseteq Tasks /\ spawned \subseteq Workers /\ down \subseteq owned
      /\ owned \subseteq spawned /\ chaos \subseteq Workers /\ gathered \subseteq Tasks
  BY Names DEF RolesOK, RestTyped
<1>1. \A t \in Tasks : Told(t) => Told(t)'
  BY ToldStays
<1>2. ASSUME \A t \in down' \cup (spawned' \ owned') :
                t \in Tasks /\ (t \in down \cup (spawned \ owned) \/ Told(t)'),
             \A t \in gathered' \cap (spawned' \cup chaos') :
                t \in gathered \cap (spawned \cup chaos),
             phase' = phase \/ phase = "teardown"
      PROVE  ToldOK'
  BY <1>0, <1>1, <1>2 DEF ToldOK
<1>3. CASE UNCHANGED <<spawned, owned, chaos, down, gathered, phase>>
  BY <1>0, <1>2, <1>3
<1>4. ASSUME NEW t \in Workers, Creates(t)
      PROVE  /\ UNCHANGED <<gathered, phase>>
             /\ t \notin gathered /\ t \notin spawned /\ t \notin chaos
  BY <1>0, <1>4 DEF Creates, ends, RolesOK
<1>5. ASSUME NEW n \in Workers, Spawn(n) PROVE ToldOK'
  <2>1. /\ UNCHANGED <<gathered, phase, chaos, down>> /\ n \notin gathered
        /\ spawned' = spawned \cup {n} /\ owned' = owned \cup {n}
    BY <1>4, <1>5 DEF Spawn
  <2> QED
    BY <1>0, <1>2, <2>1
<1>6. ASSUME NEW n \in Workers, StartChaos(n) PROVE ToldOK'
  <2>1. /\ UNCHANGED <<gathered, phase, spawned, owned, down>> /\ n \notin gathered
        /\ chaos' = {n}
    BY <1>4, <1>6 DEF StartChaos
  <2> QED
    BY <1>0, <1>2, <2>1
<1>7. ASSUME NEW n \in Workers, CreateTask(n) PROVE ToldOK'
  BY <1>3, <1>4, <1>7 DEF CreateTask, world
<1>8. ASSUME NEW n \in Workers, NEW t \in Workers, Restart(n, t) PROVE ToldOK'
  <2>1. /\ UNCHANGED <<gathered, phase, chaos>> /\ t \notin gathered
        /\ spawned' = spawned \cup {t} /\ owned' = (owned \ {n}) \cup {t}
        /\ down' = down \ {n} /\ n \in down
    BY <1>4, <1>8 DEF Restart
  <2> QED
    BY <1>0, <1>2, <2>1
<1>9. ASSUME NEW n \in Workers, Crash(n) PROVE ToldOK'
  <2>1. /\ UNCHANGED <<spawned, owned, chaos, gathered, phase, pc>>
        /\ down' = down \cup {n} /\ n \in owned /\ Cancel({n})
    BY <1>9 DEF Crash, ends
  <2>2. pc[n] # "absent"
    BY <1>0, <2>1 DEF RolesOK
  <2>3. Told(n)'
    BY <1>0, <2>1, <2>2, CancelTells
  <2> QED
    BY <1>0, <1>2, <2>1, <2>3
<1>10. CASE TaskStep
  <2>1. ASSUME NEW t \in Tasks, \/ Begin(t) \/ NeverBegins(t) \/ TakesCancel(t)
                                \/ Suspends(t) \/ Finishes(t)
                                \/ \E u \in Tasks : Wakes(t, u)
        PROVE  ToldOK'
    BY <1>3, <2>1 DEF Begin, NeverBegins, TakesCancel, Suspends, Finishes, Wakes, world, ends
  <2> QED
    BY <1>5, <1>6, <1>7, <1>8, <1>9, <1>10, <2>1 DEF TaskStep
<1>11. CASE Callback
  BY <1>3, <1>11 DEF Callback, NodeFinished, RunDone, GatherHears, world, ends
<1>12. ASSUME NEW f, Leave(f), UNCHANGED world PROVE ToldOK'
  <2>1. CASE LeaveMain(f)
    <3>1. /\ Cancel(LeftBehind) /\ pc' = pc /\ gathered' = {t \in Tasks : Alive(t)}
          /\ UNCHANGED <<spawned, owned, chaos, down>>
      BY <1>12, <2>1 DEF LeaveMain, world
    <3>2. ASSUME NEW t \in gathered', t \in spawned \cup chaos PROVE Told(t)'
      <4>1. t \in Tasks /\ pc[t] # "absent"
        BY <3>1, <3>2 DEF Alive
      <4>2. CASE t \in spawned \ owned
        BY <1>1, <4>1, <4>2 DEF ToldOK
      <4>3. CASE t \in LeftBehind
        BY <3>1, <4>1, <4>3, CancelTells
      <4> QED
        BY <3>2, <4>2, <4>3 DEF LeftBehind
    <3>3. \A t \in down' \cup (spawned' \ owned') : Told(t)'
      BY <1>0, <1>1, <3>1 DEF ToldOK
    <3> QED
      BY <3>1, <3>2, <3>3 DEF ToldOK
  <2>2. CASE LeaveTeardown(f)
    BY <1>0, <1>2, <1>12, <2>2 DEF LeaveTeardown, world
  <2> QED
    BY <1>12, <2>1, <2>2 DEF Leave
<1>13. CASE Loop
  BY <1>3, <1>12, <1>13 DEF Loop, NextTick, Jump, Stopped, RaiseTimeLimit, RaiseDeadlock,
                            RaiseStepLimit, world, ends
<1>14. CASE UNCHANGED vars
  BY <1>3, <1>14 DEF vars, world, ends
<1> QED
  BY <1>10, <1>11, <1>13, <1>14 DEF Next

\* The loop is closed when all have ended, or when there is nothing left to run,
\* the step of a cancelled task included.
LEMMA CleanupStep ==
    ASSUME TasksTyped, RestTyped, QueueOK, CallbacksOK, RolesOK, StopsOK, ToldOK,
           CleanupRuns, [Next]_vars
    PROVE  CleanupRuns'
<1>1. CASE phase = "closed"
  <2>1. UNCHANGED <<phase, over, gathered, spawned, chaos, pc, refused>>
    BY <1>1, ClosedStays DEF vars, tasks, world, loop, ends, ghost
  <2> QED
    BY <2>1 DEF CleanupRuns
<1>2. CASE phase' # "closed"
  BY <1>2 DEF CleanupRuns
<1> SUFFICES ASSUME phase # "closed", phase' = "closed" PROVE CleanupRuns'
  BY <1>1, <1>2
<1>3. ASSUME NEW f, Leave(f), UNCHANGED <<world, ghost, over>>, left = {}, running = Nobody,
             next = {} \/ stopping
      PROVE  CleanupRuns'
  <2>1. CASE LeaveMain(f)
    <3>1. gathered' = {}
      BY <2>1 DEF LeaveMain
    <3> QED
      BY <3>1 DEF CleanupRuns
  <2>2. CASE LeaveTeardown(f)
    <3>1. /\ phase = "teardown" /\ gathered \subseteq Tasks /\ Nobody \notin Tasks
          /\ UNCHANGED <<pc, refused, gathered, spawned, chaos>>
      BY <1>3, <2>2, Names DEF LeaveTeardown, tasks, world, ghost, RestTyped
    <3>2. ASSUME ~over, NEW t \in gathered \cap (spawned \cup chaos)
          PROVE  pc[t] \in {"cleanup", "done"} \/ t \in refused
      <4>1. CASE stopping
        BY <3>1, <3>2, <4>1 DEF StopsOK, CallbacksOK, Ended
      <4>2. CASE next = {}
        <5>1. Told(t)
          BY <3>1 DEF ToldOK
        <5>2. ~Queued(t) /\ running # t /\ t \in Tasks
          BY <1>3, <3>1, <4>2 DEF Queued
        <5>3. ~cancelling[t]
          BY <3>2, <5>2 DEF QueueOK
        <5> QED
          BY <5>1, <5>3 DEF Told
      <4> QED
        BY <1>3, <4>1, <4>2
    <3> QED
      BY <1>3, <3>1, <3>2 DEF CleanupRuns
  <2> QED
    BY <1>3, <2>1, <2>2 DEF Leave
<1>4. CASE Loop
  <2>1. CASE RaiseStepLimit
    BY <2>1 DEF RaiseStepLimit, CleanupRuns
  <2>2. CASE NextTick \/ Jump
    BY <2>2 DEF NextTick, Jump, ends
  <2> QED
    BY <1>3, <1>4, <2>1, <2>2 DEF Loop, Stopped, RaiseTimeLimit, RaiseDeadlock, Between
<1>5. CASE TaskStep
  BY <1>5 DEF TaskStep, Begin, NeverBegins, TakesCancel, Suspends, Finishes,
              Wakes, Spawn, Crash, Restart, StartChaos, CreateTask, Creates, Settle, ends
<1>6. CASE Callback
  BY <1>6 DEF Callback, NodeFinished, RunDone, GatherHears, ends
<1>7. CASE UNCHANGED vars
  BY <1>7 DEF vars, ends
<1> QED
  BY <1>4, <1>5, <1>6, <1>7 DEF Next

-----------------------------------------------------------------------------
(* All of it together.                                                     *)

RunnerInv ==
    /\ TasksTyped /\ RestTyped /\ QueueOK /\ CallbacksOK /\ RolesOK /\ StopsOK
    /\ ErrorsAreFailures /\ AgesOK /\ ToldOK /\ CleanupRuns

LEMMA RunnerInvInit == Init => RunnerInv
<1> SUFFICES ASSUME Init PROVE RunnerInv
  OBVIOUS
<1> USE DEF Init
<1>0. /\ Main \in Tasks /\ Main \notin Workers /\ Workers \subseteq Tasks /\ Nobody \notin Tasks
      /\ 0 \in Nat /\ -1 \in -1 .. 2
  BY Names
<1>1. \A t \in Tasks : Queued(t) <=> t = Main
  BY Callbacks DEF Queued
<1>2. \A t \in Tasks : Alive(t) <=> t = Main
  BY DEF Alive
<1>3. TasksTyped
  <2>1. cancelling \in [Tasks -> BOOLEAN]
    OBVIOUS
  <2> QED
    BY <2>1 DEF TasksTyped, Places, Awaits, Finals, Ended
<1>4. RestTyped
  <2>1. since \in [Workers -> -1 .. 2]
    BY <1>0
  <2> QED
    BY <2>1 DEF RestTyped, Phases
<1>5. QueueOK
  BY <1>0, <1>1, <1>2 DEF QueueOK
<1>6. CallbacksOK /\ RolesOK /\ StopsOK
  BY <1>0, Callbacks DEF CallbacksOK, RolesOK, StopsOK
<1>7. ErrorsAreFailures /\ AgesOK /\ ToldOK /\ CleanupRuns
  BY <1>0 DEF ErrorsAreFailures, AgesOK, ToldOK, CleanupRuns
<1> QED
  BY <1>3, <1>4, <1>5, <1>6, <1>7 DEF RunnerInv

LEMMA RunnerInvStep ==
    ASSUME RunnerInv, [Next]_vars
    PROVE  RunnerInv'
<1> USE DEF RunnerInv
<1>1. TasksTyped' /\ RestTyped' /\ QueueOK' /\ RolesOK'
  BY TasksTypedStep, RestTypedStep, QueueStep, RolesStep
<1>2. CallbacksOK' /\ StopsOK'
  BY CallbacksStep, StopsStep
<1>3. ErrorsAreFailures' /\ AgesOK'
  BY ErrorsStep, AgesStep
<1>4. ToldOK' /\ CleanupRuns'
  BY ToldStep, CleanupStep
<1> QED
  BY <1>1, <1>2, <1>3, <1>4

\* What is always so of an iteration.
THEOREM RunnerInvariant == Spec => []RunnerInv
<1> QED
  BY RunnerInvInit, RunnerInvStep, PTL DEF Spec

\* In every state the variables have their types, what is suspended is not queued,
\* and what is down has the task of its crash.
THEOREM RunnerTypeCorrect == Spec => []TypeOK
<1>1. RunnerInv => TypeOK
  <2> SUFFICES ASSUME RunnerInv PROVE TypeOK
    OBVIOUS
  <2>1. TasksTyped /\ RestTyped /\ QueueOK /\ CallbacksOK /\ RolesOK
    BY DEF RunnerInv
  <2>2. /\ phase \in {"main", "teardown", "closed"}
        /\ pc \in [Tasks -> {"absent", "new", "body", "cleanup", "done"}]
        /\ waiting \in [Tasks -> {"no", "timer", "event"} \cup Workers]
        /\ cancelling \in [Tasks -> BOOLEAN]
        /\ end \in [Tasks -> {"no", "returned", "failed", "cancelled"}]
        /\ running \in Tasks \cup {Nobody}
        /\ {stopping, over} \subseteq BOOLEAN
        /\ \A t \in Tasks : end[t] # "no" <=> Ended(t)
    BY <2>1 DEF TasksTyped, RestTyped, Phases, Places, Awaits, Finals
  <2>3. \A t \in Tasks : waiting[t] # "no" => Alive(t) /\ Step(t) \notin next \cup left
    BY <2>1 DEF QueueOK, Queued
  <2>4. /\ down \subseteq owned /\ owned \subseteq spawned
        /\ spawned \subseteq Workers /\ chaos \subseteq Workers \ spawned
        /\ errors \subseteq spawned
        /\ gone \subseteq gathered /\ gathered \subseteq Tasks
        /\ report \in {"none", "ok", "failed", "raised"}
        /\ since \in [Workers -> -1 .. 2]
        /\ refused \subseteq Tasks
    BY <2>1 DEF RolesOK, RestTyped, CallbacksOK
  <2> QED
    BY <2>2, <2>3, <2>4 DEF TypeOK
<1> QED
  BY <1>1, RunnerInvariant, PTL

\* node_errors has the failures of node tasks, each once its callback has run, and
\* nothing else: no incarnation of a node is forgotten, and no cancellation counts.
THEOREM EveryFailureIsAnError == Spec => []ErrorsAreFailures
<1>1. RunnerInv => ErrorsAreFailures
  BY DEF RunnerInv
<1> QED
  BY <1>1, RunnerInvariant, PTL

\* A strict run passes only if no node died more than a tick before the scenario
\* returned, whatever the order of the callbacks in each tick.
THEOREM DeathsAreMissedByATick == Spec => []MissedDeathsAreLate
<1>1. RunnerInv => MissedDeathsAreLate
  BY DEF RunnerInv, StopsOK, AgesOK, MissedDeathsAreLate
<1> QED
  BY <1>1, RunnerInvariant, PTL

\* When the loop is closed, whoever was cancelled for the teardown, and whoever a
\* crash had cancelled before, has had the CancelledError.
THEOREM NobodyMissesItsCleanup == Spec => []CleanupRuns
<1>1. RunnerInv => CleanupRuns
  BY DEF RunnerInv
<1> QED
  BY <1>1, RunnerInvariant, PTL
=============================================================================
