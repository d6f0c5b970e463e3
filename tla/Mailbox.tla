------------------------------- MODULE Mailbox -------------------------------
(***************************************************************************)
(* Node.recv, with and without a timeout, step by step: one mailbox, an    *)
(* asyncio.Queue, and the tasks that wait on it.                           *)
(*                                                                         *)
(* A recv on an empty mailbox waits on a future, its getter.  A message    *)
(* that arrives wakes the first getter that is still pending, but stays in *)
(* the mailbox until that task has its next step; by then a timeout or a   *)
(* crash may have cancelled the task, or another one taken the message.    *)
(* The task a crash left behind may go on to receive in its clean-up, from *)
(* the mailbox that the task of the restart receives from.                 *)
(***************************************************************************)
EXTENDS Integers, Sequences, FiniteSets

CONSTANTS
    Incarnations,  \* how often the node is started: spawn, and the restarts
    MaxSent        \* bound: messages that arrive

ASSUME MailboxAssumption == Incarnations \in Nat \ {0} /\ MaxSent \in Nat

Tasks == 1 .. Incarnations   \* the tasks of the node, in the order of creation

VARIABLES
    alive,      \* alive
    task,       \* task, the last one created
    inbox,      \* _inbox._queue, its messages numbered as they arrive
    getters,    \* _inbox._getters, by the task that waits
    arrived,    \* bound: messages so far
    stage,      \* "absent", "over", "running" if it is not inside recv, or the
                \* state of its getter: "pending", "set" or "cancelled"
    mustCancel, \* the tasks whose next step throws CancelledError all the same
    timer,      \* of the timeout of a task's recv: "off", "armed" or "expired"
    struck,     \* the tasks a crash has cancelled since they entered recv
    last        \* ghost: what the last recv of each task came to

vars == <<alive, task, inbox, getters, arrived, stage, mustCancel, timer, struck, last>>

Waiting == {"pending", "set", "cancelled"}
InStage(s) == {t \in Tasks : stage[t] = s}

Init ==
    /\ alive = TRUE
    /\ task = 1
    /\ inbox = << >> /\ getters = << >> /\ arrived = 0
    /\ stage = [t \in Tasks |-> IF t = 1 THEN "running" ELSE "absent"]
    /\ mustCancel = {} /\ struck = {}
    /\ timer = [t \in Tasks |-> "off"]
    /\ last = [t \in Tasks |-> "nothing"]

-----------------------------------------------------------------------------

\* _wakeup_next on the getters gs, in the stages st: those that are done are
\* dropped, and so is the first pending one, whose result is set.
Woken(gs, st) == {i \in DOMAIN gs : st[gs[i]] = "pending"}

WakeNext(gs, st) ==
    IF Woken(gs, st) = {}
    THEN getters' = << >> /\ stage' = st
    ELSE \E i \in Woken(gs, st) :
            /\ \A j \in Woken(gs, st) : i <= j
            /\ getters' = SubSeq(gs, i + 1, Len(gs))
            /\ stage' = [st EXCEPT ![gs[i]] = "set"]

\* deliver: a node that is down takes nothing.
Deliver ==
    /\ arrived < MaxSent
    /\ alive
    /\ arrived' = arrived + 1
    /\ inbox' = Append(inbox, arrived + 1)
    /\ WakeNext(getters, stage)
    /\ UNCHANGED <<alive, task, mustCancel, timer, struck, last>>

\* recv or try_recv when there is a message: it is taken within the step.
TakeAtOnce(t) ==
    /\ stage[t] = "running" /\ inbox # << >>
    /\ inbox' = Tail(inbox)
    /\ last' = [last EXCEPT ![t] = "message"]
    /\ UNCHANGED <<alive, task, getters, arrived, stage, mustCancel, timer, struck>>

\* recv when there is none, with the timeout if there is one.
Recv(t, timed) ==
    /\ stage[t] = "running" /\ inbox = << >>
    /\ stage' = [stage EXCEPT ![t] = "pending"]
    /\ getters' = Append(getters, t)
    /\ timer' = [timer EXCEPT ![t] = IF timed THEN "armed" ELSE "off"]
    /\ struck' = struck \ {t}
    /\ last' = [last EXCEPT ![t] = "nothing"]
    /\ UNCHANGED <<alive, task, inbox, arrived, mustCancel>>

\* The task has its step and finds its getter set: it takes the message, or, if
\* somebody was faster, waits again, behind the others.
Resume(t) ==
    /\ stage[t] = "set" /\ t \notin mustCancel
    /\ \/ /\ inbox # << >>
          /\ inbox' = Tail(inbox)
          /\ stage' = [stage EXCEPT ![t] = "running"]
          /\ timer' = [timer EXCEPT ![t] = "off"]
          /\ last' = [last EXCEPT ![t] = "message"]
          /\ UNCHANGED getters
       \/ /\ inbox = << >>
          /\ stage' = [stage EXCEPT ![t] = "pending"]
          /\ getters' = Append(getters, t)
          /\ UNCHANGED <<inbox, timer, last>>
    /\ UNCHANGED <<alive, task, arrived, mustCancel, struck>>

\* Variant: a recv that has timed out returns None, whoever else cancelled it.
OutcomeLax(t) == IF timer[t] = "expired" THEN "none" ELSE "cancelled"

\* The timeout takes CancelledError for its own, unless there was another cancel.
Outcome(t) == IF timer[t] = "expired" /\ t \notin struck THEN "none" ELSE "cancelled"

\* The line gs without t, which stands in it once or not at all.
Without(gs, t) ==
    IF \E i \in DOMAIN gs : gs[i] = t
    THEN LET i == CHOOSE i \in DOMAIN gs : gs[i] = t
         IN  [j \in 1 .. Len(gs) - 1 |-> IF j < i THEN gs[j] ELSE gs[j + 1]]
    ELSE gs

\* Variant: get passes the error on and forgets whom the message woke.
ThrowForgets(t) ==
    /\ stage[t] = "cancelled" \/ (stage[t] = "set" /\ t \in mustCancel)
    /\ \E next \in {"running", "over"} :
          /\ next = "over" => Outcome(t) = "cancelled"
          /\ stage' = [stage EXCEPT ![t] = next]
    /\ getters' = Without(getters, t)
    /\ mustCancel' = mustCancel \ {t}
    /\ timer' = [timer EXCEPT ![t] = "off"]
    /\ last' = [last EXCEPT ![t] = Outcome(t)]
    /\ UNCHANGED <<alive, task, inbox, arrived, struck>>

\* The task has its step and finds CancelledError.  get leaves the line, and if
\* a message had woken it, wakes the next in its place.  After None the task goes
\* on; after CancelledError it does so in its clean-up, or it is over.
Throw(t) ==
    LET others == Without(getters, t)
    IN  /\ stage[t] = "cancelled" \/ (stage[t] = "set" /\ t \in mustCancel)
        /\ \E next \in {"running", "over"} :
              LET after == [stage EXCEPT ![t] = next]
              IN  /\ next = "over" => Outcome(t) = "cancelled"
                  /\ IF stage[t] = "set" /\ inbox # << >>
                     THEN WakeNext(others, after)
                     ELSE getters' = others /\ stage' = after
        /\ mustCancel' = mustCancel \ {t}
        /\ timer' = [timer EXCEPT ![t] = "off"]
        /\ last' = [last EXCEPT ![t] = Outcome(t)]
        /\ UNCHANGED <<alive, task, inbox, arrived, struck>>

\* Variant: a task that is due to run already is left to it.
CancelPending(t) ==
    /\ stage' = [stage EXCEPT ![t] = IF @ = "pending" THEN "cancelled" ELSE @]
    /\ UNCHANGED mustCancel

\* Task.cancel for a task inside recv: its getter is cancelled, or, when that is
\* done already, the task is to find the error at its next step.
CancelRecv(t) ==
    /\ stage' = [stage EXCEPT ![t] = IF @ = "pending" THEN "cancelled" ELSE @]
    /\ mustCancel' = IF stage[t] = "pending" THEN mustCancel ELSE mustCancel \cup {t}

\* The timer of asyncio.timeout; it may be due while the task is, in any order.
Expire(t) ==
    /\ timer[t] = "armed"
    /\ timer' = [timer EXCEPT ![t] = "expired"]
    /\ CancelRecv(t)
    /\ UNCHANGED <<alive, task, inbox, getters, arrived, struck, last>>

\* A coroutine returns, or is cancelled in an await that is not recv.
Return(t) ==
    /\ stage[t] = "running"
    /\ stage' = [stage EXCEPT ![t] = "over"]
    /\ UNCHANGED <<alive, task, inbox, getters, arrived, mustCancel, timer, struck, last>>

\* The mailbox is emptied and the node's task cancelled, inside recv or, where it
\* leads to its clean-up or its end, elsewhere.
Crash ==
    /\ alive
    /\ alive' = FALSE
    /\ inbox' = << >>
    /\ IF stage[task] \in Waiting
       THEN CancelRecv(task) /\ struck' = struck \cup {task}
       ELSE UNCHANGED <<stage, mustCancel, struck>>
    /\ UNCHANGED <<task, getters, arrived, timer, last>>

\* A new task on the old mailbox.
Restart ==
    /\ ~alive /\ task < Incarnations
    /\ alive' = TRUE
    /\ task' = task + 1
    /\ stage' = [stage EXCEPT ![task + 1] = "running"]
    /\ UNCHANGED <<inbox, getters, arrived, mustCancel, timer, struck, last>>

Step(t) ==
    \/ TakeAtOnce(t) \/ Return(t) \/ Resume(t) \/ Throw(t) \/ Expire(t)
    \/ \E timed \in BOOLEAN : Recv(t, timed)

Next == Deliver \/ Crash \/ Restart \/ \E t \in Tasks : Step(t)

Spec == Init /\ [][Next]_vars

\* The loop runs a callback that is ready, and reaches a timer that is set.
FairSpec == Spec /\ \A t \in Tasks : WF_vars(Resume(t) \/ Throw(t)) /\ WF_vars(Expire(t))

-----------------------------------------------------------------------------

\* What waits with its future pending stands in line once, what was woken no more;
\* a timer is set only inside recv, and one that expired has cancelled the task.
MailboxTypeOK ==
    /\ alive \in BOOLEAN /\ task \in Tasks
    /\ inbox \in Seq(1 .. MaxSent) /\ arrived \in 0 .. MaxSent
    /\ getters \in Seq(Tasks)
    /\ stage \in [Tasks -> Waiting \cup {"absent", "running", "over"}]
    /\ timer \in [Tasks -> {"off", "armed", "expired"}]
    /\ last \in [Tasks -> {"nothing", "message", "none", "cancelled"}]
    /\ mustCancel \cup struck \subseteq Tasks
    /\ \A t \in Tasks :
          LET places == {i \in DOMAIN getters : getters[i] = t}
          IN  /\ stage[t] = "pending" => Cardinality(places) = 1
              /\ stage[t] \notin {"pending", "cancelled"} => places = {}
              /\ timer[t] # "off" \/ t \in mustCancel => stage[t] \in Waiting
              /\ timer[t] = "expired" => stage[t] = "cancelled" \/ t \in mustCancel

\* No message waits in the mailbox for want of a wake-up: as long as a task waits
\* to be woken, there is one on its way for each message.  A timeout or a crash
\* that meets a task just woken must pass the wake-up on.
EveryMessageHasATaker ==
    InStage("pending") # {} => Len(inbox) <= Cardinality(InStage("set"))

\* A crash that strikes a task inside recv comes out of it as CancelledError, also
\* when the timeout expires in the same tick: never as None, nor as a message that
\* is older than the crash.
CrashIsNotSwallowed ==
    [][\A t \in struck : stage[t] \in Waiting /\ stage'[t] \notin Waiting
          => last'[t] = "cancelled"]_vars

\* A recv with a timeout comes back, though others take each message before it.
TimedRecvReturns ==
    \A t \in Tasks : timer[t] # "off" ~> timer[t] = "off"
=============================================================================
