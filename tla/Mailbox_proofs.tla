--------------------------- MODULE Mailbox_proofs ---------------------------
(***************************************************************************)
(* What TLAPS proves of Mailbox, for any number of incarnations and of     *)
(* messages: no message waits for want of a wake-up, nobody waits without  *)
(* standing in line, a crash that strikes a recv is heard, and a recv      *)
(* whose time is up comes back with the next step of its task.             *)
(***************************************************************************)
EXTENDS Mailbox, FiniteSetTheorems, TLAPS

Stages == Waiting \cup {"absent", "running", "over"}

\* Whoever waits to be woken stands in line.
InLine(gs, st) ==
    \A t \in Tasks : st[t] = "pending" => \E i \in DOMAIN gs : gs[i] = t

\* The part of the type invariant that the argument needs.
Typed ==
    /\ task \in Tasks
    /\ inbox \in Seq(Nat) /\ arrived \in Nat
    /\ getters \in Seq(Tasks)
    /\ stage \in [Tasks -> Stages]
    /\ \A t \in Tasks : task < t => stage[t] = "absent"

MailboxInv == Typed /\ InLine(getters, stage) /\ EveryMessageHasATaker

-----------------------------------------------------------------------------

\* The number of tasks in a stage is one, and goes by one when a task joins or leaves.
LEMMA Counting ==
  ASSUME NEW S \in SUBSET Tasks, NEW t \in Tasks
  PROVE  /\ Cardinality(S) \in Nat
         /\ t \notin S => Cardinality(S \cup {t}) = Cardinality(S) + 1
         /\ t \in S => Cardinality(S \ {t}) = Cardinality(S) - 1
  <1>1. IsFiniteSet(Tasks)
    BY FS_Interval, MailboxAssumption DEF Tasks
  <1>2. IsFiniteSet(S)
    BY <1>1, FS_Subset
  <1> QED BY <1>2, FS_CardinalityType, FS_AddElement, FS_RemoveElement

\* Taking a task from the line leaves everybody else in it.
LEMMA WithoutKeeps ==
  ASSUME NEW gs \in Seq(Tasks), NEW t \in Tasks
  PROVE  /\ Without(gs, t) \in Seq(Tasks)
         /\ \A j \in DOMAIN gs :
               gs[j] # t => \E k \in DOMAIN Without(gs, t) : Without(gs, t)[k] = gs[j]
  <1>1. CASE \E i \in DOMAIN gs : gs[i] = t
    <2>1. PICK i \in DOMAIN gs : i = CHOOSE n \in DOMAIN gs : gs[n] = t
      BY <1>1
    <2>2. gs[i] = t
      BY <1>1, <2>1
    <2>3. Without(gs, t) = [n \in 1 .. Len(gs) - 1 |-> IF n < i THEN gs[n] ELSE gs[n + 1]]
      BY <1>1, <2>1 DEF Without
    <2>4. Without(gs, t) \in Seq(Tasks) /\ DOMAIN Without(gs, t) = 1 .. Len(gs) - 1
      BY <2>3
    <2>5. ASSUME NEW j \in DOMAIN gs, gs[j] # t
          PROVE  \E k \in DOMAIN Without(gs, t) : Without(gs, t)[k] = gs[j]
      <3>1. CASE j < i
        BY <2>3, <2>4, <3>1
      <3>2. CASE j > i
        <4>1. j - 1 \in 1 .. Len(gs) - 1 /\ ~(j - 1 < i)
          BY <3>2
        <4>2. Without(gs, t)[j - 1] = gs[j]
          BY <2>3, <4>1
        <4> QED BY <2>4, <4>1, <4>2
      <3> QED BY <2>2, <2>5, <3>1, <3>2
    <2> QED BY <2>4, <2>5
  <1>2. CASE ~\E i \in DOMAIN gs : gs[i] = t
    BY <1>2 DEF Without
  <1> QED BY <1>1, <1>2

\* A wake-up leaves nobody waiting, or makes one more of those who wait ready.
LEMMA Waking ==
  ASSUME NEW gs \in Seq(Tasks), NEW st \in [Tasks -> Stages], InLine(gs, st),
         WakeNext(gs, st)
  PROVE  /\ getters' \in Seq(Tasks) /\ stage' \in [Tasks -> Stages]
         /\ InLine(getters', stage')
         /\ \/ stage' = st /\ \A u \in Tasks : st[u] # "pending"
            \/ \E w \in Tasks : st[w] = "pending" /\ stage' = [st EXCEPT ![w] = "set"]
  <1>1. CASE Woken(gs, st) = {}
    <2>1. getters' = << >> /\ stage' = st
      BY <1>1 DEF WakeNext
    <2>2. \A u \in Tasks : st[u] # "pending"
      BY <1>1 DEF Woken, InLine
    <2> QED BY <2>1, <2>2 DEF InLine
  <1>2. CASE Woken(gs, st) # {}
    <2>1. PICK i \in Woken(gs, st) :
             /\ \A j \in Woken(gs, st) : i <= j
             /\ getters' = SubSeq(gs, i + 1, Len(gs))
             /\ stage' = [st EXCEPT ![gs[i]] = "set"]
      BY <1>2 DEF WakeNext
    <2>2. /\ i \in DOMAIN gs /\ gs[i] \in Tasks /\ st[gs[i]] = "pending"
          /\ i \in 1 .. Len(gs)
      BY <2>1 DEF Woken
    <2>3. getters' \in Seq(Tasks) /\ stage' \in [Tasks -> Stages]
      BY <2>1, <2>2 DEF Stages, Waiting
    <2>4. ASSUME NEW u \in Tasks, stage'[u] = "pending"
          PROVE  \E k \in DOMAIN getters' : getters'[k] = u
      <3>1. u # gs[i] /\ st[u] = "pending"
        BY <2>1, <2>2, <2>4
      <3>2. PICK j \in DOMAIN gs : gs[j] = u
        BY <3>1 DEF InLine
      <3>3. i < j
        <4>1. j \in Woken(gs, st)
          BY <3>1, <3>2 DEF Woken
        <4> QED BY <2>1, <2>2, <3>1, <3>2, <4>1
      <3>4. Len(getters') = Len(gs) - i /\ j - i \in 1 .. Len(gs) - i
        BY <2>1, <2>2, <3>3
      <3>5. getters'[j - i] = gs[j]
        <4>1. \A k \in 1 .. Len(gs) - i : getters'[k] = gs[k + i]
          BY <2>1, <2>2
        <4> QED BY <2>2, <3>2, <3>4, <4>1
      <3> QED BY <2>3, <3>2, <3>4, <3>5
    <2>5. InLine(getters', stage')
      BY <2>4 DEF InLine
    <2> QED BY <2>1, <2>2, <2>3, <2>5
  <1> QED BY <1>1, <1>2

-----------------------------------------------------------------------------

\* A task that is not woken changes its stage, and does not wait to be woken: those
\* who are woken are the same, and nobody else waits.
LEMMA Moving ==
  ASSUME Typed, InLine(getters, stage), NEW t \in Tasks, NEW s \in Stages \ {"pending", "set"},
         stage' = [stage EXCEPT ![t] = s], getters' = getters, stage[t] # "set"
  PROVE  /\ stage' \in [Tasks -> Stages]
         /\ InLine(getters, stage)'
         /\ InStage("set")' = InStage("set")
         /\ InStage("pending")' \subseteq InStage("pending")
  <1>1. stage' \in [Tasks -> Stages]
    BY DEF Typed
  <1>2. /\ stage'[t] = s
        /\ \A u \in Tasks : u # t => stage'[u] = stage[u]
    BY DEF Typed
  <1> QED BY <1>1, <1>2 DEF InLine, InStage

\* The mailbox opens empty.
LEMMA MailboxInvInit == Init => MailboxInv
  <1> SUFFICES ASSUME Init
               PROVE  MailboxInv
    OBVIOUS
  <1>1. Typed
    BY MailboxAssumption DEF Init, Typed, Tasks, Stages, Waiting
  <1>2. \A t \in Tasks : stage[t] # "pending"
    BY DEF Init
  <1> QED BY <1>1, <1>2 DEF MailboxInv, InLine, EveryMessageHasATaker, InStage

\* A message arrives.
LEMMA DeliverInv ==
  ASSUME MailboxInv, Deliver
  PROVE  MailboxInv'
  <1>1. PICK gs \in Seq(Tasks), st \in [Tasks -> Stages] : gs = getters /\ st = stage
    BY DEF MailboxInv, Typed
  <1>2. /\ InLine(gs, st) /\ WakeNext(gs, st)
        /\ inbox' = Append(inbox, arrived + 1) /\ arrived' = arrived + 1 /\ task' = task
    BY <1>1 DEF MailboxInv, Deliver
  <1>3. /\ getters' \in Seq(Tasks) /\ stage' \in [Tasks -> Stages] /\ InLine(getters, stage)'
        /\ \/ stage' = st /\ \A u \in Tasks : st[u] # "pending"
           \/ \E w \in Tasks : st[w] = "pending" /\ stage' = [st EXCEPT ![w] = "set"]
    BY <1>2, Waking DEF InLine
  <1>4. inbox' \in Seq(Nat) /\ Len(inbox') = Len(inbox) + 1 /\ arrived' \in Nat
    BY <1>2 DEF MailboxInv, Typed
  <1>5. Typed'
    BY <1>1, <1>2, <1>3, <1>4 DEF MailboxInv, Typed
  <1>6. EveryMessageHasATaker'
    <2>1. CASE \A u \in Tasks : stage'[u] # "pending"
      BY <2>1 DEF EveryMessageHasATaker, InStage
    <2>2. CASE ~\A u \in Tasks : stage'[u] # "pending"
      <3>1. PICK w \in Tasks : st[w] = "pending" /\ stage' = [st EXCEPT ![w] = "set"]
        BY <1>3, <2>2
      <3>2. w \notin InStage("set") /\ InStage("set")' = InStage("set") \cup {w}
        BY <1>1, <3>1 DEF InStage
      <3>3. Cardinality(InStage("set")') = Cardinality(InStage("set")) + 1
            /\ Cardinality(InStage("set")) \in Nat
        BY <3>2, Counting DEF InStage
      <3>4. Len(inbox) <= Cardinality(InStage("set"))
        BY <1>1, <3>1 DEF MailboxInv, EveryMessageHasATaker, InStage
      <3> QED BY <1>4, <3>3, <3>4 DEF EveryMessageHasATaker, MailboxInv, Typed
    <2> QED BY <2>1, <2>2
  <1> QED BY <1>3, <1>5, <1>6 DEF MailboxInv

\* A message is taken without waiting.
LEMMA TakeAtOnceInv ==
  ASSUME MailboxInv, NEW t \in Tasks, TakeAtOnce(t)
  PROVE  MailboxInv'
  <1>1. /\ inbox # << >> /\ inbox' = Tail(inbox)
        /\ UNCHANGED <<task, getters, arrived, stage>>
    BY DEF TakeAtOnce
  <1>2. inbox' \in Seq(Nat) /\ Len(inbox') = Len(inbox) - 1 /\ Len(inbox) \in Nat
    BY <1>1 DEF MailboxInv, Typed
  <1>3. Typed' /\ InLine(getters, stage)'
    BY <1>1, <1>2 DEF MailboxInv, Typed, InLine
  <1>4. InStage("set") \in SUBSET Tasks
    BY DEF InStage
  <1>5. Cardinality(InStage("set")) \in Nat
    BY <1>4, Counting, MailboxAssumption DEF Tasks
  <1>6. EveryMessageHasATaker'
    BY <1>1, <1>2, <1>5 DEF MailboxInv, EveryMessageHasATaker, InStage
  <1> QED BY <1>3, <1>6 DEF MailboxInv

\* An empty mailbox asks for no taker.
LEMMA NothingToTake ==
  ASSUME inbox' = << >>
  PROVE  EveryMessageHasATaker'
  <1>1. InStage("set")' \in SUBSET Tasks /\ 1 \in Tasks
    BY MailboxAssumption DEF InStage, Tasks
  <1>2. Cardinality(InStage("set")') \in Nat
    BY <1>1, Counting
  <1> QED BY <1>2 DEF EveryMessageHasATaker, InStage

\* A task goes to the end of the line.
LEMMA Lining ==
  ASSUME Typed, InLine(getters, stage), NEW t \in Tasks,
         stage' = [stage EXCEPT ![t] = "pending"], getters' = Append(getters, t)
  PROVE  getters' \in Seq(Tasks) /\ stage' \in [Tasks -> Stages] /\ InLine(getters, stage)'
  <1>1. getters' \in Seq(Tasks) /\ stage' \in [Tasks -> Stages]
    BY DEF Typed, Stages, Waiting
  <1>2. /\ \A u \in Tasks : u # t => stage'[u] = stage[u]
        /\ Len(getters') = Len(getters) + 1 /\ getters'[Len(getters) + 1] = t
        /\ \A i \in DOMAIN getters : i \in DOMAIN getters' /\ getters'[i] = getters[i]
        /\ Len(getters) + 1 \in DOMAIN getters'
    BY DEF Typed
  <1>3. InLine(getters, stage)'
    BY <1>2 DEF InLine
  <1> QED BY <1>1, <1>3

\* A recv begins to wait.
LEMMA RecvInv ==
  ASSUME MailboxInv, NEW t \in Tasks, NEW timed, Recv(t, timed)
  PROVE  MailboxInv'
  <1>1. /\ stage[t] = "running" /\ stage' = [stage EXCEPT ![t] = "pending"]
        /\ getters' = Append(getters, t) /\ inbox' = << >>
        /\ UNCHANGED <<task, inbox, arrived>>
    BY DEF Recv
  <1>2. getters' \in Seq(Tasks) /\ stage' \in [Tasks -> Stages] /\ InLine(getters, stage)'
    BY <1>1, Lining DEF MailboxInv
  <1>3. \A u \in Tasks : task < u => stage'[u] = "absent"
    BY <1>1 DEF MailboxInv, Typed
  <1> QED BY <1>1, <1>2, <1>3, NothingToTake DEF MailboxInv, Typed

\* A task that was woken takes its message, or waits again.
LEMMA ResumeInv ==
  ASSUME MailboxInv, NEW t \in Tasks, Resume(t)
  PROVE  MailboxInv'
  <1>1. stage[t] = "set" /\ UNCHANGED <<task, arrived>>
    BY DEF Resume
  <1>2. CASE inbox # << >>
    <2>1. /\ inbox' = Tail(inbox) /\ getters' = getters
          /\ stage' = [stage EXCEPT ![t] = "running"]
      BY <1>2 DEF Resume
    <2>2. inbox' \in Seq(Nat) /\ Len(inbox') = Len(inbox) - 1 /\ Len(inbox) \in Nat
      BY <1>2, <2>1 DEF MailboxInv, Typed
    <2>3. stage' \in [Tasks -> Stages] /\ \A u \in Tasks : u # t => stage'[u] = stage[u]
      BY <2>1 DEF MailboxInv, Typed, Stages
    <2>4. Typed' /\ InLine(getters, stage)'
      BY <1>1, <2>1, <2>2, <2>3 DEF MailboxInv, Typed, InLine
    <2>5. t \in InStage("set") /\ InStage("set")' = InStage("set") \ {t}
      BY <1>1, <2>1 DEF InStage, MailboxInv, Typed
    <2>6. /\ Cardinality(InStage("set")') = Cardinality(InStage("set")) - 1
          /\ Cardinality(InStage("set")) \in Nat
      BY <2>5, Counting DEF InStage
    <2>7. InStage("pending")' \subseteq InStage("pending")
      BY <2>1, <2>3 DEF InStage, MailboxInv, Typed
    <2>8. EveryMessageHasATaker'
      BY <2>2, <2>6, <2>7 DEF MailboxInv, EveryMessageHasATaker
    <2> QED BY <2>4, <2>8 DEF MailboxInv
  <1>3. CASE inbox = << >>
    <2>1. /\ stage' = [stage EXCEPT ![t] = "pending"] /\ getters' = Append(getters, t)
          /\ UNCHANGED inbox
      BY <1>3 DEF Resume
    <2>2. getters' \in Seq(Tasks) /\ stage' \in [Tasks -> Stages] /\ InLine(getters, stage)'
      BY <2>1, Lining DEF MailboxInv
    <2>3. \A u \in Tasks : task < u => stage'[u] = "absent"
      BY <1>1, <2>1 DEF MailboxInv, Typed
    <2> QED BY <1>1, <1>3, <2>1, <2>2, <2>3, NothingToTake DEF MailboxInv, Typed
  <1> QED BY <1>2, <1>3

\* A task that leaves recv leaves the line to the others.
LEMMA LeavingLine ==
  ASSUME Typed, InLine(getters, stage), NEW t \in Tasks, NEW s \in {"running", "over"}
  PROVE  InLine(Without(getters, t), [stage EXCEPT ![t] = s])
  <1> DEFINE st == [stage EXCEPT ![t] = s]
  <1>1. ASSUME NEW u \in Tasks, st[u] = "pending"
        PROVE  \E k \in DOMAIN Without(getters, t) : Without(getters, t)[k] = u
    <2>1. u # t /\ stage[u] = "pending"
      BY <1>1 DEF Typed
    <2>2. PICK j \in DOMAIN getters : getters[j] = u
      BY <2>1 DEF InLine
    <2> QED BY <2>1, <2>2, WithoutKeeps DEF Typed
  <1> QED BY <1>1 DEF InLine

\* A task leaves recv with an error, and passes a wake-up on that it leaves behind.
LEMMA ThrowInv ==
  ASSUME MailboxInv, NEW t \in Tasks, Throw(t)
  PROVE  MailboxInv'
  <1>1. PICK next \in {"running", "over"} :
           LET after == [stage EXCEPT ![t] = next]
           IN  IF stage[t] = "set" /\ inbox # << >>
               THEN WakeNext(Without(getters, t), after)
               ELSE getters' = Without(getters, t) /\ stage' = after
    BY DEF Throw
  <1>2. PICK gs \in Seq(Tasks), st \in [Tasks -> Stages] :
           gs = Without(getters, t) /\ st = [stage EXCEPT ![t] = next]
    <2>1. Without(getters, t) \in Seq(Tasks)
      BY WithoutKeeps DEF MailboxInv, Typed
    <2>2. [stage EXCEPT ![t] = next] \in [Tasks -> Stages]
      BY DEF MailboxInv, Typed, Stages
    <2> QED BY <2>1, <2>2
  <1>3. /\ stage[t] \in {"set", "cancelled"}
        /\ UNCHANGED <<task, inbox, arrived>>
    BY DEF Throw
  <1>4. /\ st[t] = next /\ \A u \in Tasks : u # t => st[u] = stage[u]
        /\ \A u \in Tasks : task < u => st[u] = "absent"
    BY <1>2, <1>3 DEF MailboxInv, Typed
  <1>5. InLine(gs, st)
    BY <1>2, LeavingLine DEF MailboxInv
  <1>6. CASE stage[t] = "set" /\ inbox # << >>
    <2>1. WakeNext(gs, st)
      BY <1>1, <1>2, <1>6
    <2>2. /\ getters' \in Seq(Tasks) /\ stage' \in [Tasks -> Stages]
          /\ InLine(getters, stage)'
          /\ \/ stage' = st /\ \A u \in Tasks : st[u] # "pending"
             \/ \E w \in Tasks : st[w] = "pending" /\ stage' = [st EXCEPT ![w] = "set"]
      BY <1>5, <2>1, Waking DEF InLine
    <2>3. Typed'
      BY <1>3, <1>4, <2>2 DEF MailboxInv, Typed
    <2>4. CASE \A u \in Tasks : stage'[u] # "pending"
      BY <2>2, <2>3, <2>4 DEF MailboxInv, EveryMessageHasATaker, InStage
    <2>5. CASE ~\A u \in Tasks : stage'[u] # "pending"
      <3>1. PICK w \in Tasks : st[w] = "pending" /\ stage' = [st EXCEPT ![w] = "set"]
        BY <2>2, <2>5
      <3>2. w # t /\ stage[w] = "pending"
        BY <1>4, <3>1
      <3>3. InStage("set")' = (InStage("set") \ {t}) \cup {w}
        BY <1>4, <3>1, <3>2 DEF InStage
      <3>4. t \in InStage("set") /\ w \notin InStage("set") \ {t}
        BY <1>6, <3>2 DEF InStage
      <3>5. Cardinality(InStage("set")') = Cardinality(InStage("set"))
        <4>1. /\ InStage("set") \in SUBSET Tasks
              /\ InStage("set") \ {t} \in SUBSET Tasks
          BY DEF InStage
        <4>2. /\ Cardinality(InStage("set")) \in Nat
              /\ Cardinality(InStage("set") \ {t}) = Cardinality(InStage("set")) - 1
          BY <3>4, <4>1, Counting
        <4>3. Cardinality((InStage("set") \ {t}) \cup {w})
                 = Cardinality(InStage("set") \ {t}) + 1
          BY <3>4, <4>1, Counting
        <4>4. Cardinality(InStage("set")') = Cardinality(InStage("set") \ {t}) + 1
          BY <3>3, <4>3, Zenon
        <4> QED BY <4>2, <4>4
      <3>6. Len(inbox) <= Cardinality(InStage("set"))
        BY <3>2 DEF MailboxInv, EveryMessageHasATaker, InStage
      <3>7. EveryMessageHasATaker'
        BY <1>3, <3>5, <3>6 DEF EveryMessageHasATaker
      <3> QED BY <2>2, <2>3, <3>7 DEF MailboxInv
    <2> QED BY <2>4, <2>5
  <1>7. CASE ~(stage[t] = "set" /\ inbox # << >>)
    <2>1. getters' = gs /\ stage' = st
      BY <1>1, <1>2, <1>7
    <2>2. Typed' /\ InLine(getters, stage)'
      BY <1>3, <1>4, <1>5, <2>1 DEF MailboxInv, Typed, InLine
    <2>3. CASE inbox = << >>
      BY <1>3, <2>2, <2>3, NothingToTake DEF MailboxInv
    <2>4. CASE stage[t] = "cancelled"
      <3>1. /\ InStage("set")' = InStage("set")
            /\ InStage("pending")' \subseteq InStage("pending")
        BY <1>4, <2>1, <2>4 DEF InStage
      <3>2. EveryMessageHasATaker'
        BY <1>3, <3>1 DEF MailboxInv, EveryMessageHasATaker
      <3> QED BY <2>2, <3>2 DEF MailboxInv
    <2> QED BY <1>3, <1>7, <2>3, <2>4
  <1> QED BY <1>6, <1>7

\* A task is cancelled inside recv, by its timeout or by a crash.
LEMMA CancelRecvInv ==
  ASSUME MailboxInv, NEW t \in Tasks, CancelRecv(t), UNCHANGED <<task, getters, arrived>>,
         inbox' = inbox \/ inbox' = << >>
  PROVE  MailboxInv'
  <1>0. inbox' \in Seq(Nat)
    <2>1. inbox \in Seq(Nat) /\ << >> \in Seq(Nat)
      BY DEF MailboxInv, Typed
    <2>2. CASE inbox' = inbox
      BY <2>1, <2>2
    <2>3. CASE inbox' = << >>
      BY <2>1, <2>3
    <2> QED BY <2>2, <2>3
  <1>1. CASE stage[t] = "pending"
    <2>1. stage' = [stage EXCEPT ![t] = "cancelled"]
      BY <1>1 DEF CancelRecv
    <2>2. /\ stage' \in [Tasks -> Stages] /\ InLine(getters, stage)'
          /\ InStage("set")' = InStage("set")
          /\ InStage("pending")' \subseteq InStage("pending")
      BY <1>1, <2>1, Moving DEF MailboxInv, Stages, Waiting
    <2>3. \A u \in Tasks : task < u => stage'[u] = "absent"
      BY <1>1, <2>1 DEF MailboxInv, Typed
    <2>4. Typed'
      BY <1>0, <2>2, <2>3 DEF MailboxInv, Typed
    <2>5. EveryMessageHasATaker'
      BY <2>2, NothingToTake DEF MailboxInv, EveryMessageHasATaker
    <2> QED BY <2>2, <2>4, <2>5 DEF MailboxInv
  <1>2. CASE stage[t] # "pending"
    <2>1. stage' = stage
      BY <1>2 DEF CancelRecv, MailboxInv, Typed
    <2>2. Typed' /\ InLine(getters, stage)'
      BY <1>0, <2>1 DEF MailboxInv, Typed, InLine
    <2>3. EveryMessageHasATaker'
      BY <2>1, NothingToTake DEF MailboxInv, EveryMessageHasATaker, InStage
    <2> QED BY <2>2, <2>3 DEF MailboxInv
  <1> QED BY <1>1, <1>2

\* A crash, wherever it meets the node's task.
LEMMA CrashInv ==
  ASSUME MailboxInv, Crash
  PROVE  MailboxInv'
  <1>1. task \in Tasks /\ inbox' = << >> /\ UNCHANGED <<task, getters, arrived>>
    BY DEF MailboxInv, Typed, Crash
  <1>2. CASE stage[task] \in Waiting
    <2>1. PICK t \in Tasks : t = task
      BY <1>1
    <2>2. CancelRecv(t)
      BY <1>2, <2>1 DEF Crash
    <2> QED BY <1>1, <2>2, CancelRecvInv
  <1>3. CASE stage[task] \notin Waiting
    <2>1. stage' = stage
      BY <1>3 DEF Crash
    <2>2. Typed' /\ InLine(getters, stage)'
      BY <1>1, <2>1 DEF MailboxInv, Typed, InLine
    <2> QED BY <1>1, <2>2, NothingToTake DEF MailboxInv
  <1> QED BY <1>2, <1>3

\* A task ends, or one begins.
LEMMA ReturnInv ==
  ASSUME MailboxInv, NEW t \in Tasks, Return(t)
  PROVE  MailboxInv'
  <1>1. /\ stage[t] = "running" /\ stage' = [stage EXCEPT ![t] = "over"]
        /\ UNCHANGED <<task, inbox, getters, arrived>>
    BY DEF Return
  <1>2. /\ stage' \in [Tasks -> Stages] /\ InLine(getters, stage)'
        /\ InStage("set")' = InStage("set")
        /\ InStage("pending")' \subseteq InStage("pending")
    BY <1>1, Moving DEF MailboxInv, Stages
  <1>3. Typed'
    BY <1>1, <1>2 DEF MailboxInv, Typed
  <1> QED BY <1>1, <1>2, <1>3 DEF MailboxInv, EveryMessageHasATaker

LEMMA RestartInv ==
  ASSUME MailboxInv, Restart
  PROVE  MailboxInv'
  <1>1. PICK t \in Tasks : t = task + 1
    BY MailboxAssumption DEF MailboxInv, Typed, Restart, Tasks
  <1>2. /\ stage[t] = "absent" /\ stage' = [stage EXCEPT ![t] = "running"] /\ task' = t
        /\ UNCHANGED <<inbox, getters, arrived>>
    BY <1>1 DEF MailboxInv, Typed, Restart, Tasks
  <1>3. /\ stage' \in [Tasks -> Stages] /\ InLine(getters, stage)'
        /\ InStage("set")' = InStage("set")
        /\ InStage("pending")' \subseteq InStage("pending")
    BY <1>2, Moving DEF MailboxInv, Stages
  <1>4. Typed'
    BY <1>1, <1>2, <1>3 DEF MailboxInv, Typed, Tasks
  <1> QED BY <1>2, <1>3, <1>4 DEF MailboxInv, EveryMessageHasATaker

\* Every step keeps the invariant.
LEMMA MailboxInvStep ==
  ASSUME MailboxInv, [Next]_vars
  PROVE  MailboxInv'
  <1>1. CASE UNCHANGED vars
    BY <1>1 DEF vars, MailboxInv, Typed, InLine, EveryMessageHasATaker, InStage
  <1>2. ASSUME NEW t \in Tasks, Expire(t)
        PROVE  MailboxInv'
    BY <1>2, CancelRecvInv DEF Expire
  <1>3. CASE Next
    BY <1>2, <1>3, DeliverInv, CrashInv, RestartInv, TakeAtOnceInv, ReturnInv, ResumeInv,
       ThrowInv, RecvInv DEF Next, Step
  <1> QED BY <1>1, <1>3

\* What is always so of a mailbox.
THEOREM MailboxInvariant == Spec => []MailboxInv
  <1> QED BY MailboxInvInit, MailboxInvStep, PTL DEF Spec

\* While a task waits, every message in the mailbox has a task that was woken for it:
\* neither timeouts, nor crashes, nor a restart lose a wake-up.
THEOREM NoWakeUpIsLost == Spec => []EveryMessageHasATaker
  <1>1. MailboxInv => EveryMessageHasATaker
    BY DEF MailboxInv
  <1> QED BY <1>1, MailboxInvariant, PTL

-----------------------------------------------------------------------------
(* The line and the cancellations.                                         *)

\* Nobody stands in line twice, and whoever stands there waits to be woken or was
\* cancelled in it.
LineOK(gs, st) ==
    /\ \A i, j \in DOMAIN gs : gs[i] = gs[j] => i = j
    /\ \A i \in DOMAIN gs : st[gs[i]] \in {"pending", "cancelled"}

\* The CancelledError of a timeout that expired, or of a crash, is ahead of the task.
CancelOK ==
    \A t \in Tasks :
        /\ timer[t] # "off" \/ t \in mustCancel => stage[t] \in Waiting
        /\ timer[t] = "expired" => stage[t] = "cancelled" \/ t \in mustCancel
        /\ t \in struck /\ stage[t] \in Waiting => stage[t] = "cancelled" \/ t \in mustCancel

\* The rest of the type invariant.
RestTyped ==
    /\ alive \in BOOLEAN
    /\ inbox \in Seq(1 .. MaxSent) /\ arrived \in 0 .. MaxSent
    /\ timer \in [Tasks -> {"off", "armed", "expired"}]
    /\ last \in [Tasks -> {"nothing", "message", "none", "cancelled"}]
    /\ mustCancel \subseteq Tasks /\ struck \subseteq Tasks

LineInv == MailboxInv /\ LineOK(getters, stage) /\ CancelOK /\ RestTyped

\* Taking a task from the line keeps the order of the others.
LEMMA WithoutLine ==
  ASSUME NEW gs \in Seq(Tasks), NEW t \in Tasks, NEW st, LineOK(gs, st)
  PROVE  /\ LineOK(Without(gs, t), st)
         /\ \A k \in DOMAIN Without(gs, t) : Without(gs, t)[k] # t
  <1>1. CASE \E i \in DOMAIN gs : gs[i] = t
    <2>1. PICK i \in DOMAIN gs : i = CHOOSE n \in DOMAIN gs : gs[n] = t
      BY <1>1
    <2>2. gs[i] = t
      BY <1>1, <2>1
    <2>3. Without(gs, t) = [n \in 1 .. Len(gs) - 1 |-> IF n < i THEN gs[n] ELSE gs[n + 1]]
      BY <1>1, <2>1 DEF Without
    <2> DEFINE place(n) == IF n < i THEN n ELSE n + 1
    <2>4. DOMAIN Without(gs, t) = 1 .. Len(gs) - 1
      BY <2>3
    <2>5. ASSUME NEW n \in 1 .. Len(gs) - 1
          PROVE  place(n) \in DOMAIN gs /\ place(n) # i /\ Without(gs, t)[n] = gs[place(n)]
      BY <2>3
    <2>6. \A m, n \in 1 .. Len(gs) - 1 : place(m) = place(n) => m = n
      BY <2>1
    <2> HIDE DEF place
    <2>7. \A m, n \in 1 .. Len(gs) - 1 : Without(gs, t)[m] = Without(gs, t)[n] => m = n
      BY <2>5, <2>6 DEF LineOK
    <2>8. \A n \in 1 .. Len(gs) - 1 : st[Without(gs, t)[n]] \in {"pending", "cancelled"}
      BY <2>5 DEF LineOK
    <2>9. \A n \in 1 .. Len(gs) - 1 : Without(gs, t)[n] # t
      BY <2>1, <2>2, <2>5 DEF LineOK
    <2> QED BY <2>4, <2>7, <2>8, <2>9 DEF LineOK
  <1>2. CASE ~\E i \in DOMAIN gs : gs[i] = t
    BY <1>2 DEF Without
  <1> QED BY <1>1, <1>2

\* Whoever is woken leaves the line, and with him those who were cancelled before him.
LEMMA WakingLine ==
  ASSUME NEW gs \in Seq(Tasks), NEW st \in [Tasks -> Stages], LineOK(gs, st),
         WakeNext(gs, st)
  PROVE  LineOK(getters', stage')
  <1>1. CASE Woken(gs, st) = {}
    BY <1>1 DEF WakeNext, LineOK
  <1>2. CASE Woken(gs, st) # {}
    <2>1. PICK i \in Woken(gs, st) :
             /\ getters' = SubSeq(gs, i + 1, Len(gs))
             /\ stage' = [st EXCEPT ![gs[i]] = "set"]
      BY <1>2 DEF WakeNext
    <2>2. i \in 1 .. Len(gs) /\ DOMAIN gs = 1 .. Len(gs)
      BY <2>1 DEF Woken
    <2>3. /\ DOMAIN getters' = 1 .. Len(gs) - i
          /\ \A k \in DOMAIN getters' : /\ i + k \in DOMAIN gs
                                        /\ getters'[k] = gs[i + k]
      BY <2>1, <2>2
    <2>4. \A k \in DOMAIN getters' : getters'[k] # gs[i] /\ getters'[k] \in Tasks
      BY <2>2, <2>3 DEF LineOK
    <2>5. \A k \in DOMAIN getters' : stage'[getters'[k]] = st[getters'[k]]
      BY <2>1, <2>4
    <2>6. \A j, k \in DOMAIN getters' : getters'[j] = getters'[k] => j = k
      BY <2>2, <2>3 DEF LineOK
    <2> QED BY <2>3, <2>5, <2>6 DEF LineOK
  <1> QED BY <1>1, <1>2

\* Being woken, and what happens outside recv, meets no cancellation.
LEMMA CancelKept ==
  ASSUME CancelOK, UNCHANGED <<mustCancel, timer, struck>>,
         \A u \in Tasks : \/ stage'[u] = stage[u]
                          \/ stage[u] = "pending" /\ stage'[u] = "set"
                          \/ stage[u] \notin Waiting /\ stage'[u] \notin Waiting
  PROVE  CancelOK'
  BY DEF CancelOK, Waiting

LEMMA DeliverLine ==
  ASSUME LineInv, Deliver
  PROVE  LineOK(getters, stage)' /\ CancelOK' /\ RestTyped'
  <1>1. PICK gs \in Seq(Tasks), st \in [Tasks -> Stages] : gs = getters /\ st = stage
    BY DEF LineInv, MailboxInv, Typed
  <1>2. /\ InLine(gs, st) /\ LineOK(gs, st) /\ WakeNext(gs, st)
        /\ inbox' = Append(inbox, arrived + 1) /\ arrived' = arrived + 1 /\ arrived < MaxSent
        /\ UNCHANGED <<alive, mustCancel, timer, struck, last>>
    BY <1>1 DEF LineInv, MailboxInv, Deliver
  <1>3. LineOK(getters, stage)'
    BY <1>2, WakingLine DEF LineOK
  <1>4. \A u \in Tasks : \/ stage'[u] = st[u]
                         \/ st[u] = "pending" /\ stage'[u] = "set"
    BY <1>2, Waking
  <1>5. CancelOK'
    BY <1>1, <1>2, <1>4, CancelKept DEF LineInv
  <1>6. arrived' \in 1 .. MaxSent /\ arrived' \in 0 .. MaxSent
    BY <1>2, MailboxAssumption DEF LineInv, RestTyped
  <1>7. inbox' \in Seq(1 .. MaxSent)
    BY <1>2, <1>6 DEF LineInv, RestTyped
  <1> QED BY <1>2, <1>3, <1>5, <1>6, <1>7 DEF LineInv, RestTyped

LEMMA TakeAtOnceLine ==
  ASSUME LineInv, NEW t \in Tasks, TakeAtOnce(t)
  PROVE  LineOK(getters, stage)' /\ CancelOK' /\ RestTyped'
  <1>1. /\ UNCHANGED <<getters, stage>>
        /\ LineOK(getters, stage)'
    BY DEF LineInv, TakeAtOnce, LineOK
  <1>2. CancelOK'
    BY CancelKept DEF LineInv, TakeAtOnce
  <1>3. inbox' \in Seq(1 .. MaxSent)
    BY DEF LineInv, RestTyped, TakeAtOnce
  <1> QED BY <1>1, <1>2, <1>3 DEF LineInv, RestTyped, TakeAtOnce

\* A task that does not stand in line joins it at the end.
LEMMA JoiningLine ==
  ASSUME Typed, LineOK(getters, stage), NEW t \in Tasks,
         stage[t] \notin {"pending", "cancelled"},
         stage' = [stage EXCEPT ![t] = "pending"], getters' = Append(getters, t)
  PROVE  LineOK(getters, stage)'
  <1>1. /\ DOMAIN getters' = 1 .. Len(getters) + 1
        /\ DOMAIN getters = 1 .. Len(getters) /\ Len(getters) \in Nat
        /\ getters'[Len(getters) + 1] = t
        /\ \A i \in 1 .. Len(getters) : getters'[i] = getters[i] /\ getters[i] \in Tasks
    BY DEF Typed
  <1>2. \A i \in 1 .. Len(getters) : getters[i] # t
    BY <1>1 DEF LineOK
  <1>3. \A i \in DOMAIN getters' : i \in 1 .. Len(getters) \/ i = Len(getters) + 1
    BY <1>1
  <1>4. \A i, j \in DOMAIN getters' : getters'[i] = getters'[j] => i = j
    BY <1>1, <1>2, <1>3 DEF LineOK
  <1>5. /\ stage'[t] = "pending"
        /\ \A u \in Tasks : u # t => stage'[u] = stage[u]
    BY DEF Typed
  <1>6. \A i \in DOMAIN getters' : stage'[getters'[i]] \in {"pending", "cancelled"}
    BY <1>1, <1>2, <1>3, <1>5 DEF LineOK
  <1> QED BY <1>4, <1>6 DEF LineOK

LEMMA RecvLine ==
  ASSUME LineInv, NEW t \in Tasks, NEW timed \in BOOLEAN, Recv(t, timed)
  PROVE  LineOK(getters, stage)' /\ CancelOK' /\ RestTyped'
  <1>0. Typed
    BY DEF LineInv, MailboxInv
  <1>1. /\ stage[t] = "running" /\ stage' = [stage EXCEPT ![t] = "pending"]
        /\ getters' = Append(getters, t) /\ struck' = struck \ {t}
        /\ UNCHANGED <<inbox, arrived, alive, mustCancel>>
        /\ timer' = [timer EXCEPT ![t] = IF timed THEN "armed" ELSE "off"]
        /\ last' = [last EXCEPT ![t] = "nothing"]
    BY DEF Recv
  <1>2. LineOK(getters, stage)'
    BY <1>0, <1>1, JoiningLine DEF LineInv
  <1>3. RestTyped'
    BY <1>1 DEF LineInv, RestTyped
  <1>4. CancelOK'
    BY <1>0, <1>1 DEF LineInv, CancelOK, Typed, RestTyped, Waiting
  <1> QED BY <1>2, <1>3, <1>4

LEMMA ResumeLine ==
  ASSUME LineInv, NEW t \in Tasks, Resume(t)
  PROVE  LineOK(getters, stage)' /\ CancelOK' /\ RestTyped'
  <1>0. Typed /\ LineOK(getters, stage) /\ CancelOK /\ RestTyped
    BY DEF LineInv, MailboxInv
  <1>1. /\ stage[t] = "set" /\ t \notin mustCancel
        /\ UNCHANGED <<alive, arrived, mustCancel, struck>>
    BY DEF Resume
  <1>2. CASE inbox # << >>
    <2>1. /\ inbox' = Tail(inbox) /\ getters' = getters
          /\ stage' = [stage EXCEPT ![t] = "running"]
          /\ timer' = [timer EXCEPT ![t] = "off"]
          /\ last' = [last EXCEPT ![t] = "message"]
      BY <1>2 DEF Resume
    <2>2. inbox' \in Seq(1 .. MaxSent)
      BY <1>0, <1>2, <2>1 DEF RestTyped
    <2>3. RestTyped'
      BY <1>0, <1>1, <2>1, <2>2 DEF RestTyped
    <2>4. LineOK(getters, stage)'
      BY <1>0, <1>1, <2>1 DEF Typed, LineOK
    <2>5. CancelOK'
      BY <1>0, <1>1, <2>1 DEF Typed, RestTyped, CancelOK, Waiting
    <2> QED BY <2>3, <2>4, <2>5
  <1>3. CASE inbox = << >>
    <2>1. /\ stage' = [stage EXCEPT ![t] = "pending"] /\ getters' = Append(getters, t)
          /\ UNCHANGED <<inbox, timer, last>>
      BY <1>3 DEF Resume
    <2>2. LineOK(getters, stage)'
      BY <1>0, <1>1, <2>1, JoiningLine
    <2>3. CancelOK'
      BY <1>0, <1>1, <2>1 DEF Typed, CancelOK, Waiting
    <2> QED BY <1>0, <1>1, <2>1, <2>2, <2>3 DEF RestTyped
  <1> QED BY <1>2, <1>3

\* A task that throws leaves recv, and the line; one that waited may be woken for it.
LEMMA ThrowMoves ==
  ASSUME LineInv, NEW t \in Tasks, Throw(t)
  PROVE  /\ LineOK(getters, stage)'
         /\ stage'[t] \in {"running", "over"}
         /\ \A u \in Tasks : u # t => \/ stage'[u] = stage[u]
                                      \/ stage[u] = "pending" /\ stage'[u] = "set"
  <1>0. Typed /\ LineOK(getters, stage) /\ InLine(getters, stage)
    BY DEF LineInv, MailboxInv
  <1>1. PICK next \in {"running", "over"} :
           LET after == [stage EXCEPT ![t] = next]
           IN  IF stage[t] = "set" /\ inbox # << >>
               THEN WakeNext(Without(getters, t), after)
               ELSE getters' = Without(getters, t) /\ stage' = after
    BY DEF Throw
  <1>2. PICK gs \in Seq(Tasks), st \in [Tasks -> Stages] :
           gs = Without(getters, t) /\ st = [stage EXCEPT ![t] = next]
    <2>1. Without(getters, t) \in Seq(Tasks)
      BY <1>0, WithoutKeeps DEF Typed
    <2>2. [stage EXCEPT ![t] = next] \in [Tasks -> Stages]
      BY <1>0 DEF Typed, Stages
    <2> QED BY <2>1, <2>2
  <1>3. st[t] = next /\ \A u \in Tasks : u # t => st[u] = stage[u]
    BY <1>0, <1>2 DEF Typed
  <1>4. LineOK(gs, st)
    <2>1. /\ LineOK(gs, stage)
          /\ \A k \in DOMAIN gs : gs[k] # t /\ gs[k] \in Tasks
      BY <1>0, <1>2, WithoutLine DEF Typed
    <2> QED BY <1>3, <2>1 DEF LineOK
  <1>5. InLine(gs, st)
    BY <1>0, <1>2, LeavingLine
  <1>6. /\ LineOK(getters', stage')
        /\ stage' = st \/ \E w \in Tasks : st[w] = "pending" /\ stage' = [st EXCEPT ![w] = "set"]
    <2>1. CASE stage[t] = "set" /\ inbox # << >>
      <3>1. WakeNext(gs, st)
        BY <1>1, <1>2, <2>1
      <3> QED BY <1>4, <1>5, <3>1, Waking, WakingLine
    <2>2. CASE ~(stage[t] = "set" /\ inbox # << >>)
      BY <1>1, <1>2, <1>4, <2>2
    <2> QED BY <2>1, <2>2
  <1>7. /\ stage'[t] = next
        /\ \A u \in Tasks : u # t => \/ stage'[u] = stage[u]
                                     \/ stage[u] = "pending" /\ stage'[u] = "set"
    BY <1>3, <1>6
  <1> QED BY <1>6, <1>7 DEF LineOK

LEMMA ThrowLine ==
  ASSUME LineInv, NEW t \in Tasks, Throw(t)
  PROVE  LineOK(getters, stage)' /\ CancelOK' /\ RestTyped'
  <1>0. CancelOK /\ RestTyped
    BY DEF LineInv
  <1>1. /\ mustCancel' = mustCancel \ {t} /\ timer' = [timer EXCEPT ![t] = "off"]
        /\ last' = [last EXCEPT ![t] = Outcome(t)]
        /\ UNCHANGED <<alive, inbox, arrived, struck>>
    BY DEF Throw
  <1>2. CancelOK'
    BY <1>0, <1>1, ThrowMoves DEF CancelOK, RestTyped, Waiting
  <1>3. Outcome(t) \in {"none", "cancelled"}
    BY DEF Outcome
  <1>4. RestTyped'
    BY <1>0, <1>1, <1>3 DEF RestTyped
  <1> QED BY <1>2, <1>4, ThrowMoves

\* The getter of a task inside recv is cancelled, or the error is ahead of it.
LEMMA CancelRecvLine ==
  ASSUME Typed, LineOK(getters, stage), CancelOK, NEW t \in Tasks, stage[t] \in Waiting,
         CancelRecv(t), getters' = getters,
         \A u \in Tasks : u # t => timer'[u] = timer[u] /\ (u \in struck' <=> u \in struck)
  PROVE  LineOK(getters, stage)' /\ CancelOK'
  <1>1. /\ \A u \in Tasks : u # t => stage'[u] = stage[u] /\ (u \in mustCancel' <=> u \in mustCancel)
        /\ stage'[t] = "cancelled" \/ (stage'[t] = stage[t] /\ t \in mustCancel')
        /\ stage[t] \in {"pending", "cancelled"} => stage'[t] \in {"pending", "cancelled"}
    BY DEF CancelRecv, Typed
  <1>2. LineOK(getters, stage)'
    BY <1>1 DEF LineOK, Typed
  <1>3. CancelOK'
    BY <1>1 DEF CancelOK, Waiting
  <1> QED BY <1>2, <1>3

LEMMA ExpireLine ==
  ASSUME LineInv, NEW t \in Tasks, Expire(t)
  PROVE  LineOK(getters, stage)' /\ CancelOK' /\ RestTyped'
  <1>0. Typed /\ LineOK(getters, stage) /\ CancelOK /\ RestTyped
    BY DEF LineInv, MailboxInv
  <1>1. /\ timer[t] = "armed" /\ timer' = [timer EXCEPT ![t] = "expired"] /\ CancelRecv(t)
        /\ UNCHANGED <<alive, inbox, getters, arrived, struck, last>>
    BY DEF Expire
  <1>2. LineOK(getters, stage)' /\ CancelOK'
    BY <1>0, <1>1, CancelRecvLine DEF CancelOK, RestTyped
  <1> QED BY <1>0, <1>1, <1>2 DEF RestTyped, CancelRecv

LEMMA CrashLine ==
  ASSUME LineInv, Crash
  PROVE  LineOK(getters, stage)' /\ CancelOK' /\ RestTyped'
  <1>0. Typed /\ LineOK(getters, stage) /\ CancelOK /\ RestTyped
    BY DEF LineInv, MailboxInv
  <1>1. PICK t \in Tasks : t = task
    BY <1>0 DEF Typed
  <1>2. /\ alive' \in BOOLEAN /\ inbox' \in Seq(1 .. MaxSent)
        /\ UNCHANGED <<getters, arrived, timer, last>>
    <2>1. alive' = FALSE /\ inbox' = << >> /\ UNCHANGED <<getters, arrived, timer, last>>
      BY DEF Crash
    <2>2. inbox' \in Seq(1 .. MaxSent)
      BY <2>1
    <2> QED BY <2>1, <2>2
  <1>3. CASE stage[t] \in Waiting
    <2>1. CancelRecv(t) /\ struck' = struck \cup {t}
      BY <1>1, <1>3 DEF Crash
    <2>2. LineOK(getters, stage)' /\ CancelOK'
      BY <1>0, <1>2, <1>3, <2>1, CancelRecvLine
    <2> QED BY <1>0, <1>2, <2>1, <2>2 DEF RestTyped, CancelRecv
  <1>4. CASE stage[t] \notin Waiting
    <2>1. UNCHANGED <<stage, mustCancel, struck>>
      BY <1>1, <1>4 DEF Crash
    <2> QED BY <1>0, <1>2, <2>1 DEF LineOK, CancelOK, RestTyped
  <1> QED BY <1>3, <1>4

\* A task ends, or one begins: neither is inside recv.
LEMMA OutsideLine ==
  ASSUME LineInv, Restart \/ \E t \in Tasks : Return(t)
  PROVE  LineOK(getters, stage)' /\ CancelOK' /\ RestTyped'
  <1>0. Typed /\ LineOK(getters, stage) /\ CancelOK /\ RestTyped
    BY DEF LineInv, MailboxInv
  <1>1. PICK t \in Tasks, s \in {"running", "over"} :
           stage[t] \in {"absent", "running"} /\ stage' = [stage EXCEPT ![t] = s]
    BY <1>0, MailboxAssumption DEF Restart, Return, Typed, Tasks
  <1>2. /\ UNCHANGED <<inbox, getters, arrived, mustCancel, timer, struck, last>>
        /\ alive' \in BOOLEAN
    BY <1>0 DEF Restart, Return, RestTyped
  <1>3. LineOK(getters, stage)'
    BY <1>0, <1>1, <1>2 DEF LineOK, Typed
  <1>4. \A u \in Tasks : \/ stage'[u] = stage[u]
                         \/ stage[u] \notin Waiting /\ stage'[u] \notin Waiting
    BY <1>0, <1>1 DEF Typed, Waiting
  <1>5. CancelOK'
    BY <1>0, <1>2, <1>4, CancelKept
  <1> QED BY <1>0, <1>2, <1>3, <1>5 DEF RestTyped

LEMMA LineInvStep ==
  ASSUME LineInv, [Next]_vars
  PROVE  LineInv'
  <1>1. MailboxInv'
    BY MailboxInvStep DEF LineInv
  <1>2. CASE UNCHANGED vars
    BY <1>1, <1>2 DEF vars, LineInv, LineOK, CancelOK, RestTyped
  <1>3. CASE Next
    <2>1. LineOK(getters, stage)' /\ CancelOK' /\ RestTyped'
      BY <1>3, DeliverLine, CrashLine, OutsideLine, TakeAtOnceLine, ResumeLine, ThrowLine,
         ExpireLine, RecvLine DEF Next, Step
    <2> QED BY <1>1, <2>1 DEF LineInv
  <1> QED BY <1>2, <1>3

LEMMA LineInvInit == Init => LineInv
  <1> SUFFICES ASSUME Init
               PROVE  LineInv
    OBVIOUS
  <1>1. MailboxInv
    BY MailboxInvInit
  <1>2. LineOK(getters, stage) /\ CancelOK
    BY DEF Init, LineOK, CancelOK, Waiting
  <1>3. RestTyped
    BY MailboxAssumption DEF Init, RestTyped
  <1> QED BY <1>1, <1>2, <1>3 DEF LineInv

\* What is always so of the line and of the cancellations.
THEOREM LineInvariant == Spec => []LineInv
  <1> QED BY LineInvInit, LineInvStep, PTL DEF Spec

\* In every state the variables have their types; who waits with his future pending
\* stands in line exactly once, and who was woken or has left recv, no more.
THEOREM MailboxTypeCorrect == Spec => []MailboxTypeOK
  <1>1. ASSUME LineInv
        PROVE  MailboxTypeOK
    <2>0. Typed /\ InLine(getters, stage) /\ LineOK(getters, stage) /\ CancelOK /\ RestTyped
      BY <1>1 DEF LineInv, MailboxInv
    <2>1. /\ alive \in BOOLEAN /\ task \in Tasks
          /\ inbox \in Seq(1 .. MaxSent) /\ arrived \in 0 .. MaxSent
          /\ getters \in Seq(Tasks)
          /\ stage \in [Tasks -> Waiting \cup {"absent", "running", "over"}]
          /\ timer \in [Tasks -> {"off", "armed", "expired"}]
          /\ last \in [Tasks -> {"nothing", "message", "none", "cancelled"}]
          /\ mustCancel \cup struck \subseteq Tasks
      BY <2>0 DEF Typed, RestTyped, Stages
    <2>2. ASSUME NEW t \in Tasks
          PROVE  LET places == {i \in DOMAIN getters : getters[i] = t}
                 IN  /\ stage[t] = "pending" => Cardinality(places) = 1
                     /\ stage[t] \notin {"pending", "cancelled"} => places = {}
                     /\ timer[t] # "off" \/ t \in mustCancel => stage[t] \in Waiting
                     /\ timer[t] = "expired" => stage[t] = "cancelled" \/ t \in mustCancel
      <3> DEFINE places == {i \in DOMAIN getters : getters[i] = t}
      <3>1. ASSUME stage[t] = "pending"
            PROVE  Cardinality(places) = 1
        <4>1. PICK i \in DOMAIN getters : getters[i] = t
          BY <2>0, <3>1 DEF InLine
        <4>2. places = {i}
          BY <2>0, <4>1 DEF LineOK
        <4> QED BY <4>2, FS_Singleton
      <3>2. stage[t] \notin {"pending", "cancelled"} => places = {}
        BY <2>0 DEF LineOK
      <3> QED BY <2>0, <3>1, <3>2 DEF CancelOK
    <2> QED BY <2>1, <2>2 DEF MailboxTypeOK
  <1> QED BY <1>1, LineInvariant, PTL

\* What a step may not do to a task that a crash has cancelled inside recv.
LEMMA CrashIsHeard ==
  ASSUME LineInv, [Next]_vars, NEW t \in struck, stage[t] \in Waiting, stage'[t] \notin Waiting
  PROVE  last'[t] = "cancelled"
  <1>0. /\ Typed /\ CancelOK /\ RestTyped /\ t \in Tasks
        /\ stage[t] = "cancelled" \/ t \in mustCancel
    BY DEF LineInv, MailboxInv, RestTyped, CancelOK
  <1>1. ASSUME NEW u \in Tasks, Throw(u)
        PROVE  last'[t] = "cancelled"
    <2>1. CASE u = t
      BY <1>0, <1>1, <2>1 DEF Throw, Outcome, RestTyped
    <2>2. CASE u # t
      BY <1>0, <1>1, <2>2, ThrowMoves DEF Waiting
    <2> QED BY <2>1, <2>2
  <1>2. ASSUME NEW u \in Tasks,
               \/ TakeAtOnce(u) \/ Return(u) \/ Resume(u)
               \/ \E timed \in BOOLEAN : Recv(u, timed)
        PROVE  FALSE
    BY <1>0, <1>2 DEF TakeAtOnce, Return, Resume, Recv, Typed, Waiting
  <1>3. ~Deliver
    <2>1. PICK gs \in Seq(Tasks), st \in [Tasks -> Stages] : gs = getters /\ st = stage
      BY <1>0 DEF Typed
    <2>2. Deliver => InLine(gs, st) /\ WakeNext(gs, st)
      BY <2>1 DEF Deliver, LineInv, MailboxInv
    <2> QED BY <1>0, <2>1, <2>2, Waking DEF Waiting
  <1>4. \A u \in Tasks : ~CancelRecv(u)
    BY <1>0 DEF CancelRecv, Typed, Waiting
  <1>5. ~Crash /\ ~Restart /\ \A u \in Tasks : ~Expire(u)
    BY <1>0, <1>4, MailboxAssumption DEF Crash, Restart, Expire, Typed, Tasks, Waiting
  <1>6. ~UNCHANGED vars
    BY DEF vars
  <1> QED BY <1>1, <1>2, <1>3, <1>5, <1>6 DEF Next, Step

\* A crash that strikes a task inside recv comes out of it as CancelledError: not as
\* None, though the timeout expire with it, nor as a message.
THEOREM CrashesAreHeard == Spec => CrashIsNotSwallowed
  <1>1. LineInv /\ [Next]_vars =>
           (\A t \in struck : stage[t] \in Waiting /\ stage'[t] \notin Waiting
              => last'[t] = "cancelled")
    BY CrashIsHeard
  <1> QED BY <1>1, LineInvariant, PTL DEF Spec, CrashIsNotSwallowed

-----------------------------------------------------------------------------
(* What TimedRecvReturns rests on: once its timer has expired, the task    *)
(* needs no wake-up of another, and its next step is its last in recv.     *)

\* Whoever is to find CancelledError does not wait to be woken.
ErrorsDoNotWait == \A t \in mustCancel : stage[t] # "pending"

\* The step of a task that has timed out is due: the guard of Throw.
TimedOutIsDue ==
    \A t \in Tasks :
        timer[t] = "expired" =>
            stage[t] = "cancelled" \/ (stage[t] = "set" /\ t \in mustCancel)

\* A timer that has expired stays so, up to the next step of its task, and then recv is
\* left; no step sets it again within the same recv.
TimedOutReturns ==
    [][\A t \in Tasks :
          timer[t] = "expired" =>
              /\ timer'[t] = IF Resume(t) \/ Throw(t) THEN "off" ELSE "expired"
              /\ stage'[t] \in Waiting <=> timer'[t] = "expired"]_vars

LEMMA ErrorsDoNotWaitStep ==
  ASSUME LineInv, ErrorsDoNotWait, [Next]_vars
  PROVE  ErrorsDoNotWait'
  <1>0. Typed /\ CancelOK /\ RestTyped
    BY DEF LineInv, MailboxInv
  <1>1. CASE Deliver
    <2>1. PICK gs \in Seq(Tasks), st \in [Tasks -> Stages] : gs = getters /\ st = stage
      BY <1>0 DEF Typed
    <2>2. InLine(gs, st) /\ WakeNext(gs, st) /\ mustCancel' = mustCancel
      BY <1>1, <2>1 DEF Deliver, LineInv, MailboxInv
    <2>3. \A u \in Tasks : stage'[u] = stage[u] \/ stage'[u] = "set"
      BY <2>1, <2>2, Waking
    <2> QED BY <1>0, <2>2, <2>3 DEF ErrorsDoNotWait, RestTyped
  <1>2. ASSUME NEW t \in Tasks, TakeAtOnce(t) \/ Return(t)
        PROVE  ErrorsDoNotWait'
    BY <1>0, <1>2 DEF TakeAtOnce, Return, ErrorsDoNotWait, Typed, RestTyped
  <1>3. ASSUME NEW t \in Tasks, Resume(t) \/ \E timed \in BOOLEAN : Recv(t, timed)
        PROVE  ErrorsDoNotWait'
    <2>1. t \notin mustCancel /\ mustCancel' = mustCancel
      BY <1>0, <1>3 DEF Resume, Recv, CancelOK, Waiting
    <2>2. \A u \in Tasks : u # t => stage'[u] = stage[u]
      BY <1>0, <1>3 DEF Resume, Recv, Typed
    <2> QED BY <1>0, <2>1, <2>2 DEF ErrorsDoNotWait, RestTyped
  <1>4. ASSUME NEW t \in Tasks, Throw(t)
        PROVE  ErrorsDoNotWait'
    <2>1. mustCancel' = mustCancel \ {t}
      BY <1>4 DEF Throw
    <2> QED BY <1>0, <1>4, <2>1, ThrowMoves DEF ErrorsDoNotWait, RestTyped
  <1>5. ASSUME NEW t \in Tasks, CancelRecv(t)
        PROVE  ErrorsDoNotWait'
    BY <1>0, <1>5 DEF CancelRecv, ErrorsDoNotWait, Typed, RestTyped
  <1>6. CASE Crash
    <2>1. CancelRecv(task) \/ UNCHANGED <<stage, mustCancel>>
      BY <1>6 DEF Crash
    <2> QED BY <1>0, <1>5, <2>1 DEF ErrorsDoNotWait, Typed
  <1>7. CASE Restart
    BY <1>0, <1>7 DEF Restart, ErrorsDoNotWait, Typed, RestTyped
  <1>8. CASE UNCHANGED vars
    BY <1>8 DEF vars, ErrorsDoNotWait
  <1>9. \A t \in Tasks : Expire(t) => CancelRecv(t)
    BY DEF Expire
  <1> QED BY <1>1, <1>2, <1>3, <1>4, <1>5, <1>6, <1>7, <1>8, <1>9 DEF Next, Step

LEMMA ErrorsDoNotWaitInit == Init => ErrorsDoNotWait
  BY DEF Init, ErrorsDoNotWait

\* A recv that has timed out depends on no message and no other task any more.
THEOREM TimedOutAreDue == Spec => []TimedOutIsDue
  <1>1. LineInv /\ ErrorsDoNotWait /\ [Next]_vars => ErrorsDoNotWait'
    BY ErrorsDoNotWaitStep
  <1>2. LineInv /\ ErrorsDoNotWait => TimedOutIsDue
    BY DEF LineInv, CancelOK, Waiting, ErrorsDoNotWait, TimedOutIsDue
  <1> QED BY <1>1, <1>2, ErrorsDoNotWaitInit, LineInvariant, PTL DEF Spec

LEMMA TimedOutReturnsStep ==
  ASSUME LineInv, ErrorsDoNotWait, [Next]_vars, NEW t \in Tasks, timer[t] = "expired"
  PROVE  /\ timer'[t] = IF Resume(t) \/ Throw(t) THEN "off" ELSE "expired"
         /\ stage'[t] \in Waiting <=> timer'[t] = "expired"
  <1>0. /\ Typed /\ CancelOK /\ RestTyped
        /\ stage[t] = "cancelled" \/ (stage[t] = "set" /\ t \in mustCancel)
    BY DEF LineInv, MailboxInv, CancelOK, Waiting, ErrorsDoNotWait
  <1>1. ~Resume(t) /\ ~TakeAtOnce(t) /\ ~Return(t) /\ ~Expire(t)
        /\ \A timed \in BOOLEAN : ~Recv(t, timed)
    BY <1>0 DEF Resume, TakeAtOnce, Return, Expire, Recv
  <1>2. CASE Throw(t)
    <2>1. timer'[t] = "off"
      BY <1>0, <1>2 DEF Throw, RestTyped
    <2>2. stage'[t] \in {"running", "over"}
      BY <1>2, ThrowMoves
    <2> QED BY <1>2, <2>1, <2>2 DEF Waiting
  <1>3. ASSUME timer'[t] = timer[t], stage'[t] \in Waiting
        PROVE  /\ timer'[t] = IF Resume(t) \/ Throw(t) THEN "off" ELSE "expired"
               /\ stage'[t] \in Waiting <=> timer'[t] = "expired"
    <2>1. ~Throw(t)
      BY <1>3, ThrowMoves DEF Waiting
    <2> QED BY <1>1, <1>3, <2>1
  <1>4. ASSUME NEW u \in Tasks, u # t, Throw(u)
        PROVE  timer'[t] = timer[t] /\ stage'[t] \in Waiting
    <2>1. timer'[t] = timer[t]
      BY <1>0, <1>4 DEF Throw, RestTyped
    <2>2. stage'[t] = stage[t] \/ stage'[t] = "set"
      BY <1>4, ThrowMoves
    <2> QED BY <1>0, <2>1, <2>2 DEF Waiting
  <1>5. ASSUME NEW u \in Tasks, u # t,
               \/ TakeAtOnce(u) \/ Return(u) \/ Resume(u)
               \/ \E timed \in BOOLEAN : Recv(u, timed)
        PROVE  timer'[t] = timer[t] /\ stage'[t] \in Waiting
    <2>1. timer'[t] = timer[t] /\ stage'[t] = stage[t]
      BY <1>0, <1>5 DEF TakeAtOnce, Return, Resume, Recv, Typed, RestTyped
    <2> QED BY <1>0, <2>1 DEF Waiting
  <1>6. ASSUME NEW u \in Tasks, CancelRecv(u)
        PROVE  stage'[t] \in Waiting
    BY <1>0, <1>6 DEF CancelRecv, Typed, Waiting
  <1>7. ASSUME NEW u \in Tasks, u # t, Expire(u)
        PROVE  timer'[t] = timer[t] /\ stage'[t] \in Waiting
    BY <1>0, <1>6, <1>7 DEF Expire, RestTyped
  <1>8. CASE Deliver
    <2>1. PICK gs \in Seq(Tasks), st \in [Tasks -> Stages] : gs = getters /\ st = stage
      BY <1>0 DEF Typed
    <2>2. InLine(gs, st) /\ WakeNext(gs, st) /\ timer' = timer
      BY <1>8, <2>1 DEF Deliver, LineInv, MailboxInv
    <2>3. stage'[t] = stage[t] \/ stage'[t] = "set"
      BY <2>1, <2>2, Waking
    <2> QED BY <1>0, <1>3, <2>2, <2>3 DEF Waiting
  <1>9. CASE Crash
    <2>1. timer' = timer /\ (CancelRecv(task) \/ stage' = stage)
      BY <1>9 DEF Crash
    <2>2. stage'[t] \in Waiting
      BY <1>0, <1>6, <2>1 DEF Typed, Waiting
    <2> QED BY <1>3, <2>1, <2>2
  <1>10. CASE Restart
    <2>1. timer' = timer /\ stage' = [stage EXCEPT ![task + 1] = "running"] /\ task + 1 # t
      <3>1. task + 1 \in Tasks /\ stage[task + 1] = "absent"
        BY <1>0, <1>10, MailboxAssumption DEF Restart, Typed, Tasks
      <3> QED BY <1>0, <1>10, <3>1 DEF Restart
    <2>2. stage'[t] \in Waiting
      BY <1>0, <2>1 DEF Typed, Waiting
    <2> QED BY <1>3, <2>1, <2>2
  <1>11. CASE UNCHANGED vars
    BY <1>0, <1>3, <1>11 DEF vars, Waiting
  <1> QED BY <1>1, <1>2, <1>3, <1>4, <1>5, <1>7, <1>8, <1>9, <1>10, <1>11 DEF Next, Step

\* The next step a task has after its timeout takes it out of recv, and until then
\* nothing revokes the timeout: the argument for TimedRecvReturns.
THEOREM TimedOutRecvReturns == Spec => TimedOutReturns
  <1>1. LineInv /\ ErrorsDoNotWait /\ [Next]_vars => ErrorsDoNotWait'
    BY ErrorsDoNotWaitStep
  <1>2. LineInv /\ ErrorsDoNotWait /\ [Next]_vars =>
           [\A t \in Tasks :
              timer[t] = "expired" =>
                  /\ timer'[t] = IF Resume(t) \/ Throw(t) THEN "off" ELSE "expired"
                  /\ stage'[t] \in Waiting <=> timer'[t] = "expired"]_vars
    BY TimedOutReturnsStep
  <1> QED BY <1>1, <1>2, ErrorsDoNotWaitInit, LineInvariant, PTL DEF Spec, TimedOutReturns
=============================================================================
