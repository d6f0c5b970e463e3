--------------------------- MODULE SimLoop_proofs ---------------------------
(***************************************************************************)
(* Proofs about SimLoop, for every number of callbacks, every horizon and  *)
(* every setting of the limits.                                            *)
(*                                                                         *)
(* IInv is inductive.  Each of its parts needs another one: the type of    *)
(* cancelCount needs CountCovers, NothingLost needs Consistent (what a     *)
(* sweep takes is owed to nobody), OnTime needs NothingLost (with nothing  *)
(* ready, whatever is owed is on the heap, so a jump cannot pass it).      *)
(*                                                                         *)
(* Behind the two liveness properties are numbers that the loop lowers and *)
(* nothing raises: Load and Place.                                         *)
(***************************************************************************)
EXTENDS SimLoop, FiniteSetTheorems, WellFoundedInduction, TLAPS

IInv ==
    /\ TypeOK
    /\ Consistent
    /\ CountCovers
    /\ NothingLost
    /\ OnTime

-----------------------------------------------------------------------------
(* The operators on partial functions and the sweep.                       *)

\* Without removes points from a function and keeps the rest.
LEMMA WithoutFacts ==
    ASSUME NEW T, NEW f, f \in [DOMAIN f -> T], NEW R
    PROVE  /\ DOMAIN Without(f, R) = DOMAIN f \ R
           /\ Without(f, R) \in [DOMAIN f \ R -> T]
           /\ \A g \in DOMAIN f \ R : Without(f, R)[g] = f[g]
  BY DEF Without

\* A sweep takes cancelled timers only, and its count covers what it leaves,
\* which is no more than the threshold.
LEMMA SweepFacts ==
    ASSUME TypeOK, CountCovers, NEW P \in Sweeps
    PROVE  /\ P \subseteq Dead
           /\ CountAfter(P) \in Nat
           /\ \A D : D \subseteq Dead \ P =>
                 /\ Cardinality(D) <= CountAfter(P)
                 /\ Cardinality(D) <= PurgeThreshold
  <1>1. IsFiniteSet(Dead)
    BY ConstantsAssumption, FS_Subset DEF TypeOK, Dead
  <1>2. P \subseteq Dead
    BY DEF Sweeps
  <1>3. IsFiniteSet(P) /\ Cardinality(P) \in Nat /\ Cardinality(P) <= Cardinality(Dead)
    BY <1>1, <1>2, FS_Subset, FS_CardinalityType
  <1>4. /\ IsFiniteSet(Dead \ P)
        /\ Cardinality(Dead \ P) = Cardinality(Dead) - Cardinality(P)
    <2>1. Dead \cap P = P
      BY <1>2
    <2> QED BY <1>1, <1>2, <1>3, <2>1, FS_Difference
  <1>5. Cardinality(Dead) \in Nat /\ cancelCount \in Nat /\ PurgeThreshold \in Nat
    BY <1>1, FS_CardinalityType, ConstantsAssumption DEF TypeOK
  <1>6. CountAfter(P) \in Nat
    BY <1>3, <1>5 DEF CountAfter, CountCovers
  <1>7. ASSUME NEW D, D \subseteq Dead \ P
        PROVE  /\ Cardinality(D) <= CountAfter(P)
               /\ Cardinality(D) <= PurgeThreshold
    <2>1. Cardinality(D) \in Nat /\ Cardinality(D) <= Cardinality(Dead \ P)
      BY <1>4, <1>7, FS_Subset, FS_CardinalityType
    <2>2. CASE cancelCount > PurgeThreshold
      <3>1. P = Dead
        BY <2>2 DEF Sweeps
      <3>2. D = {}
        BY <3>1, <1>7
      <3>3. Cardinality(D) = 0
        BY <3>2, FS_EmptySet
      <3> QED BY <3>3, <1>5, <2>2 DEF CountAfter
    <2>3. CASE ~(cancelCount > PurgeThreshold)
      BY <2>1, <2>3, <1>3, <1>4, <1>5 DEF CountAfter, CountCovers
    <2> QED BY <2>2, <2>3
  <1> QED BY <1>2, <1>6, <1>7

-----------------------------------------------------------------------------
(* The inductive invariant.                                                *)

LEMMA InitIInv == Init => IInv
  <1> SUFFICES ASSUME Init PROVE IInv
    OBVIOUS
  <1>1. TypeOK
    <2>1. /\ OnHeap = {} /\ scheduled \in [{} -> Instants]
          /\ Owed = {} /\ due \in [{} -> Instants]
      BY DEF Init, OnHeap, Owed
    <2>2. 0 \in 0 .. Entries /\ None \in Handles \cup {None}
      BY ConstantsAssumption
    <2>3. now \in Instants
      BY ConstantsAssumption DEF Init
    <2> QED BY <2>1, <2>2, <2>3 DEF Init, TypeOK
  <1>2. Cardinality(Dead) = 0
    BY FS_EmptySet DEF Init, Dead, OnHeap
  <1> QED
    BY <1>1, <1>2, ConstantsAssumption
    DEF Init, IInv, Consistent, CountCovers, NothingLost, OnTime, OnHeap, Owed, Live

\* Registering a callback for now.
LEMMA CallSoonIInv ==
    ASSUME IInv, NEW h \in Handles, CallSoon(h)
    PROVE  IInv'
  <1> USE DEF IInv, CallSoon, Fresh, OnHeap, Owed
  <1>1. /\ Owed' = Owed \cup {h}
        /\ due' \in [Owed \cup {h} -> Instants]
        /\ due'[h] = now
        /\ \A g \in Owed : g # h => due'[g] = due[g]
    <2>1. due \in [DOMAIN due -> Instants] /\ now \in Instants
      BY DEF TypeOK
    <2>2. due' = With(due, h, now)
      OBVIOUS
    <2> HIDE DEF IInv, CallSoon
    <2> QED BY <2>1, <2>2 DEF With
  <1>2. OnHeap' = OnHeap /\ scheduled' = scheduled
    BY DEF queues
  <1>3. Dead' = Dead
    BY <1>2 DEF Dead
  <1>4. TypeOK'
    BY <1>1, <1>2 DEF TypeOK, tick, life
  <1>5. Consistent'
    BY <1>1, <1>2 DEF Consistent, Live, tick, life, Broken, Over, TypeOK
  <1>6. NothingLost' /\ OnTime'
    BY <1>1, <1>2 DEF NothingLost, OnTime, tick, life, Broken, Over, Later
  <1> QED BY <1>3, <1>4, <1>5, <1>6 DEF CountCovers

\* Registering a timer.
LEMMA CallAtIInv ==
    ASSUME IInv, NEW h \in Handles, NEW t \in Instants, CallAt(h, t)
    PROVE  IInv'
  <1> USE DEF IInv, CallAt, Fresh, OnHeap, Owed
  <1>0. Later(t, now) \in Instants
    BY DEF Later, TypeOK
  <1>1. /\ Owed' = Owed \cup {h}
        /\ due' \in [Owed \cup {h} -> Instants]
        /\ due'[h] = Later(t, now)
        /\ \A g \in Owed : g # h => due'[g] = due[g]
    <2>1. due \in [DOMAIN due -> Instants]
      BY DEF TypeOK
    <2>2. due' = With(due, h, Later(t, now))
      OBVIOUS
    <2> HIDE DEF IInv, CallAt
    <2> QED BY <1>0, <2>1, <2>2 DEF With
  <1>2. /\ OnHeap' = OnHeap \cup {h}
        /\ scheduled' \in [OnHeap \cup {h} -> Instants]
        /\ scheduled'[h] = t
        /\ \A g \in OnHeap : g # h => scheduled'[g] = scheduled[g]
    <2>1. scheduled \in [DOMAIN scheduled -> Instants]
      BY DEF TypeOK
    <2>2. scheduled' = With(scheduled, h, t)
      OBVIOUS
    <2> HIDE DEF IInv, CallAt
    <2> QED BY <2>1, <2>2 DEF With
  <1>3. Dead' = Dead
    BY <1>2 DEF Dead
  <1>4. TypeOK'
    BY <1>1, <1>2 DEF TypeOK, tick, life
  <1>5. Consistent'
    BY <1>1, <1>2 DEF Consistent, Live, tick, life, Broken, Over, TypeOK
  <1>6. NothingLost' /\ OnTime'
    BY <1>1, <1>2 DEF NothingLost, OnTime, tick, life, Broken, Over
  <1> QED BY <1>3, <1>4, <1>5, <1>6 DEF CountCovers

\* Cancelling, wherever the handle is.
LEMMA CancelIInv ==
    ASSUME IInv, NEW h \in Handles, CancelHandle(h)
    PROVE  IInv'
  <1> USE DEF IInv, CancelHandle, OnHeap, Owed
  <1>1. /\ Owed' = Owed \ {h}
        /\ due' \in [Owed \ {h} -> Instants]
        /\ \A g \in Owed \ {h} : due'[g] = due[g]
    BY WithoutFacts DEF TypeOK
  <1>2. Dead' = IF h \in OnHeap THEN Dead \cup {h} ELSE Dead
    BY DEF Dead
  <1>3. IsFiniteSet(Dead) /\ h \notin Dead
    BY ConstantsAssumption, FS_Subset DEF TypeOK, Dead
  <1>4. CountCovers'
    <2>1. Cardinality(Dead \cup {h}) = Cardinality(Dead) + 1
      BY <1>3, FS_AddElement
    <2>2. Cardinality(Dead) \in Nat
      BY <1>3, FS_CardinalityType
    <2> QED BY <1>2, <2>1, <2>2 DEF CountCovers, TypeOK
  <1>5. TypeOK'
    <2>1. cancelCount' \in Nat /\ cancelled' \subseteq Handles
      BY DEF TypeOK
    <2>2. UNCHANGED <<now, scheduled, flagged, ready, batch, left, running, steps, tally,
                      started, stopping, mode, error, interrupted, entries>>
      BY DEF tick, life
    <2> HIDE DEF CancelHandle
    <2> QED BY <1>1, <2>1, <2>2 DEF TypeOK
  <1>6. Consistent'
    BY <1>1 DEF Consistent, Live, tick, life, Broken, Over, TypeOK
  <1>7. NothingLost' /\ OnTime'
    BY <1>1 DEF NothingLost, OnTime, tick, life, Broken, Over
  <1> QED BY <1>4, <1>5, <1>6, <1>7

\* A tick that goes no further than its sweep.
LEMMA SweepOnlyIInv ==
    ASSUME IInv, NEW P \in Sweeps, mode = "poll", SweepOnly(P),
           \E how \in {"stopped", "deadlock", "time"} : LeaveLoop(how)
    PROVE  IInv'
  <1> USE DEF IInv, SweepOnly, LeaveLoop, OnHeap, Owed
  <1>1. /\ P \subseteq Dead
        /\ CountAfter(P) \in Nat
        /\ Cardinality(Dead \ P) <= CountAfter(P)
    BY SweepFacts
  <1>2. /\ OnHeap' = OnHeap \ P
        /\ scheduled' \in [OnHeap \ P -> Instants]
        /\ \A g \in OnHeap \ P : scheduled'[g] = scheduled[g]
    <2>1. scheduled \in [DOMAIN scheduled -> Instants]
      BY DEF TypeOK
    <2> QED BY <2>1 DEF Without
  <1>3. Dead' = Dead \ P
    BY <1>2 DEF Dead
  <1>4. TypeOK'
    BY <1>1, <1>2 DEF TypeOK, tick
  <1>5. Consistent'
    BY <1>1, <1>2 DEF Consistent, Live, Dead, tick, Broken, Over
  <1>6. NothingLost' /\ OnTime'
    BY <1>1, <1>2 DEF NothingLost, OnTime, Consistent, Dead, tick, Broken, Over
  <1> QED BY <1>1, <1>3, <1>4, <1>5, <1>6 DEF CountCovers

\* The head of a tick: time jumps only with nothing ready, so whatever is owed
\* is on the heap, and only to the earliest of it.
LEMMA TickIInv ==
    ASSUME IInv, NEW P \in Sweeps, Tick(P)
    PROVE  IInv'
  <1> USE DEF IInv, OnHeap, Owed
  <1> DEFINE H == OnHeap \ P
  <1>1. PICK t \in Instants :
          /\ JumpsTo(H, t)
          /\ now' = t
          /\ scheduled' = Without(scheduled, P \cup {h \in H : scheduled[h] <= t})
          /\ flagged' = flagged \ (P \cup {h \in H : scheduled[h] <= t})
          /\ batch' = batch \cup ready \cup {h \in H : scheduled[h] <= t}
    BY DEF Tick
  <1>2. /\ mode = "poll" /\ mode' = "run"
        /\ ready # {} \/ H # {}
        /\ left' = batch' /\ ready' = {}
        /\ cancelCount' = CountAfter(P) /\ tally' = steps
        /\ UNCHANGED <<cancelled, running, steps, started, stopping, error,
                       interrupted, entries, due>>
    BY DEF Tick
  <1> DEFINE promoted == {h \in H : scheduled[h] <= t}
             stays == H \ promoted
  <1>3. /\ P \subseteq Dead
        /\ CountAfter(P) \in Nat
        /\ \A D : D \subseteq Dead \ P => Cardinality(D) <= CountAfter(P)
    BY SweepFacts
  <1>4. /\ OnHeap' = stays
        /\ scheduled' \in [stays -> Instants]
        /\ \A g \in stays : scheduled'[g] = scheduled[g]
    <2>1. scheduled \in [DOMAIN scheduled -> Instants]
      BY DEF TypeOK
    <2> QED BY <1>1, <2>1 DEF Without
  <1>5. CountCovers'
    <2>1. Dead' \subseteq Dead \ P
      BY <1>2, <1>4 DEF Dead
    <2> QED BY <1>2, <1>3, <2>1 DEF CountCovers
  <1>6. TypeOK'
    BY <1>1, <1>2, <1>3, <1>4 DEF TypeOK
  <1>7. Consistent'
    <2>1. Live' \subseteq Owed'
      BY <1>2, <1>4 DEF Consistent, Live
    <2>2. Broken \/ batch = {}
      BY <1>2 DEF Consistent, Broken
    <2>3. Broken' \/ (ready' \cup left') \ cancelled' \subseteq Owed'
      BY <1>1, <1>2, <2>2 DEF Consistent, Live, Broken
    <2>4. OnHeap' \cap (ready' \cup batch') = {} /\ ready' \cap batch' = {}
      BY <1>1, <1>2, <1>4 DEF Consistent
    <2>5. steps \in Nat /\ running = None
      BY <1>2 DEF TypeOK, Consistent
    <2> QED BY <1>2, <2>1, <2>3, <2>4, <2>5 DEF Consistent
  <1>8. NothingLost'
    BY <1>1, <1>2, <1>3, <1>4 DEF NothingLost, Consistent, Broken, Dead
  <1>9. OnTime'
    <2>1. SUFFICES ASSUME ~Broken, NEW h \in Owed
                   PROVE  IF h \in stays THEN due[h] = Later(scheduled[h], t)
                                         ELSE due[h] = t
      BY <1>1, <1>2, <1>4 DEF OnTime, Broken
    <2>2. h \in H \cup ready
      BY <1>2, <1>3, <2>1 DEF NothingLost, Consistent, Dead
    <2>3. IF h \in H THEN due[h] = Later(scheduled[h], now) ELSE due[h] = now
      BY <2>1, <2>2 DEF OnTime, Consistent
    <2>4. now \in Instants /\ (h \in H => scheduled[h] \in Instants)
      BY DEF TypeOK
    <2>5. CASE t = now
      BY <2>3, <2>4, <2>5 DEF Later, Instants
    <2>6. CASE t # now
      <3>1. h \in H /\ scheduled[h] > now /\ scheduled[h] >= t /\ t > now
        BY <1>1, <2>2, <2>4, <2>6 DEF JumpsTo, Earliest, Instants, TypeOK
      <3> QED BY <2>3, <2>4, <3>1 DEF Later, Instants
    <2> QED BY <2>5, <2>6
  <1> QED BY <1>5, <1>6, <1>7, <1>8, <1>9

\* A callback starts, or is found cancelled, or finds the limit reached.
LEMMA VisitIInv ==
    ASSUME IInv, NEW h \in left, Skip(h) \/ RunHandle(h) \/ RaiseStepLimit(h)
    PROVE  IInv'
  <1> USE DEF IInv, OnHeap, Owed
  <1>1. /\ scheduled' = scheduled /\ ready' = ready /\ cancelled' = cancelled
        /\ flagged' = flagged /\ cancelCount' = cancelCount /\ now' = now
        /\ interrupted' = interrupted /\ entries' = entries
        /\ h \in Handles /\ h \notin OnHeap /\ h \notin ready
    BY DEF Skip, RunHandle, RaiseStepLimit, LeaveLoop, queues, life,
           TypeOK, Consistent
  <1>2. CountCovers'
    BY <1>1 DEF CountCovers, Dead
  <1>3. /\ CountStep(tally) \in Nat /\ tally <= CountStep(tally)
        /\ CountStep(started) \in Nat
    BY DEF CountStep, TypeOK
  <1>4. CASE Skip(h)
    <2>1. TypeOK'
      BY <1>1, <1>4 DEF Skip, TypeOK, life
    <2>2. Consistent'
      BY <1>1, <1>4 DEF Skip, Consistent, Live, life, Broken, Over
    <2>3. NothingLost' /\ OnTime'
      BY <1>1, <1>4 DEF Skip, NothingLost, OnTime, Consistent, life, Broken, Over
    <2> QED BY <1>2, <2>1, <2>2, <2>3
  <1>5. CASE RunHandle(h)
    <2>1. /\ Owed' = Owed \ {h}
          /\ due' \in [Owed \ {h} -> Instants]
          /\ \A g \in Owed \ {h} : due'[g] = due[g]
      BY <1>5, WithoutFacts DEF RunHandle, TypeOK
    <2>2. TypeOK'
      BY <1>1, <1>3, <1>5, <2>1 DEF RunHandle, TypeOK, life
    <2>3. Live' \subseteq Owed'
      BY <1>1, <2>1 DEF Consistent, Live
    <2>4. Broken' <=> Broken
      BY <1>1, <1>5 DEF RunHandle, Broken, Over
    <2>5. Broken \/ (ready' \cup left') \ cancelled' \subseteq Owed'
      BY <1>1, <1>5, <2>1 DEF RunHandle, Consistent
    <2>6. steps' <= tally' /\ ~Over(tally')
      BY <1>3, <1>5 DEF RunHandle, Consistent, TypeOK
    <2>7. Consistent'
      BY <1>1, <1>5, <2>1, <2>3, <2>4, <2>5, <2>6 DEF RunHandle, Consistent, life
    <2>8. NothingLost' /\ OnTime'
      BY <1>1, <1>5, <2>1, <2>4 DEF RunHandle, NothingLost, OnTime
    <2> QED BY <1>2, <2>2, <2>7, <2>8
  <1>6. CASE RaiseStepLimit(h)
    <2>1. Broken'
      BY <1>6 DEF RaiseStepLimit, Broken, Over
    <2>2. TypeOK'
      BY <1>1, <1>3, <1>6 DEF RaiseStepLimit, LeaveLoop, TypeOK
    <2>3. Live' = Live /\ Owed' = Owed
      BY <1>1, <1>6 DEF RaiseStepLimit, Live
    <2>4. Consistent'
      BY <1>1, <1>6, <2>1, <2>3 DEF RaiseStepLimit, LeaveLoop, Consistent
    <2> QED BY <1>2, <2>1, <2>2, <2>4 DEF NothingLost, OnTime
  <1> QED BY <1>4, <1>5, <1>6

\* The steps that only move the control of the loop.
LEMMA ControlIInv ==
    ASSUME IInv, RunForever \/ Stop \/ Finish \/ Interrupt \/ EndTick
    PROVE  IInv'
  <1> USE DEF IInv
  <1>1. /\ queues' = queues /\ now' = now /\ due' = due
    BY DEF RunForever, Stop, Finish, Interrupt, EndTick
  <1>2. CountCovers'
    BY <1>1 DEF CountCovers, Dead, OnHeap, queues
  <1>3. TypeOK'
    <2>1. CASE RunForever
      BY <2>1, ConstantsAssumption DEF RunForever, TypeOK, OnHeap, Owed, queues, tick
    <2>2. CASE Stop
      BY <2>2 DEF Stop, TypeOK, OnHeap, Owed, queues, tick
    <2>3. CASE Finish
      BY <2>3 DEF Finish, TypeOK, OnHeap, Owed, queues, life
    <2>4. CASE Interrupt
      BY <2>4 DEF Interrupt, LeaveLoop, TypeOK, OnHeap, Owed, queues
    <2>5. CASE EndTick
      BY <2>5 DEF EndTick, LeaveLoop, TypeOK, OnHeap, Owed, queues
    <2> QED BY <2>1, <2>2, <2>3, <2>4, <2>5
  <1>4. Consistent' /\ NothingLost' /\ OnTime'
    <2> USE DEF Consistent, NothingLost, OnTime, Live, OnHeap, Owed, Broken, queues
    <2>1. CASE RunForever
      BY <2>1 DEF RunForever, tick, Over
    <2>2. CASE Stop
      BY <2>2 DEF Stop, tick, Over
    <2>3. CASE Finish
      BY <2>3 DEF Finish, life, Over
    <2>4. CASE Interrupt
      BY <2>4 DEF Interrupt, LeaveLoop
    <2>5. CASE EndTick
      <3>1. /\ mode = "run" /\ left = {} /\ running = None /\ running' = None
            /\ left' = {} /\ batch' = {} /\ steps' = tally /\ tally' = tally
            /\ interrupted' = interrupted /\ mode' # "run"
        BY <2>5 DEF EndTick, LeaveLoop
      <3>2. Broken' <=> Broken
        BY <3>1, ConstantsAssumption DEF Over, TypeOK
      <3>3. mode' # "idle" => error' = "none"
        BY <2>5, <3>1 DEF EndTick, LeaveLoop
      <3>4. Consistent'
        BY <1>1, <3>1, <3>2, <3>3
      <3>5. NothingLost' /\ OnTime'
        BY <1>1, <3>1, <3>2
      <3> QED BY <3>4, <3>5
    <2> QED BY <2>1, <2>2, <2>3, <2>4, <2>5
  <1> QED BY <1>2, <1>3, <1>4

\* Every step preserves the invariant.
LEMMA NextIInv == IInv /\ [Next]_vars => IInv'
  <1> SUFFICES ASSUME IInv, [Next]_vars PROVE IInv'
    OBVIOUS
  <1>1. CASE RunForever \/ Stop \/ Finish \/ Interrupt \/ EndTick
    BY <1>1, ControlIInv
  <1>2. CASE \E h \in Handles : CallSoon(h) \/ CancelHandle(h)
    BY <1>2, CallSoonIInv, CancelIInv
  <1>3. CASE \E h \in Handles : \E t \in Instants : CallAt(h, t)
    BY <1>3, CallAtIInv
  <1>4. CASE Poll
    <2>1. PICK P \in Sweeps :
             Tick(P) \/ RaiseTimeLimit(P) \/ RaiseDeadlock(P) \/ ReturnIdle(P)
      BY <1>4 DEF Poll
    <2>2. CASE Tick(P)
      BY <2>2, TickIInv
    <2>3. CASE RaiseTimeLimit(P) \/ RaiseDeadlock(P) \/ ReturnIdle(P)
      BY <2>3, SweepOnlyIInv DEF RaiseTimeLimit, RaiseDeadlock, ReturnIdle
    <2> QED BY <2>1, <2>2, <2>3
  <1>5. CASE Visit
    BY <1>5, VisitIInv DEF Visit
  <1>6. CASE UNCHANGED vars
    BY <1>6 DEF IInv, vars, queues, tick, life, TypeOK, Consistent, CountCovers,
                NothingLost, OnTime, OnHeap, Owed, Dead, Live, Broken, Over, Later
  <1> QED BY <1>1, <1>2, <1>3, <1>4, <1>5, <1>6 DEF Next, User, LoopStep

\* The invariant holds in every reachable state.
THEOREM InvariantHolds == Spec => []IInv
  BY InitIInv, NextIInv, PTL DEF Spec

-----------------------------------------------------------------------------
(* The properties.                                                         *)

\* Every variable keeps its type; _timer_cancelled_count is never negative.
THEOREM TypeCorrect == Spec => []TypeOK
  <1>1. IInv => TypeOK
    BY DEF IInv
  <1> QED BY InvariantHolds, <1>1, PTL

\* A handle is in one queue at a time, and what a queue holds is owed, until a run is
\* broken off in the middle of a batch.
THEOREM QueuesFitTogether == Spec => []Consistent
  <1>1. IInv => Consistent
    BY DEF IInv
  <1> QED BY InvariantHolds, <1>1, PTL

\* No callback is lost between the heap, _ready and _batch, however the
\* callbacks of a run register, cancel and stop.
THEOREM NothingIsLost == Spec => []NothingLost
  <1>1. IInv => NothingLost
    BY DEF IInv
  <1> QED BY InvariantHolds, <1>1, PTL

\* The clock overtakes no callback, and hands each one over at its instant.
THEOREM EverythingOnTime == Spec => []OnTime
  <1>1. IInv => OnTime
    BY DEF IInv
  <1> QED BY InvariantHolds, <1>1, PTL

\* What the clock may do in one step: nothing, or a jump forward that the limit
\* allows.
LEMMA ClockStep ==
    ASSUME IInv, [Next]_vars
    PROVE  now' = now \/ (now' > now /\ ~PastLimit(now'))
  <1>1. CASE \E P \in Sweeps : Tick(P)
    <2>1. PICK P \in Sweeps : Tick(P)
      BY <1>1
    <2>2. PICK t \in Instants : /\ JumpsTo(OnHeap \ P, t) /\ now' = t
                                /\ t > now => ~PastLimit(t)
      BY <2>1 DEF Tick
    <2>3. t = now \/ t > now
      BY <2>2 DEF JumpsTo, Earliest
    <2> QED BY <2>2, <2>3
  <1>2. CASE ~\E P \in Sweeps : Tick(P)
    BY <1>2 DEF Next, User, LoopStep, Poll, Visit, RunForever, CallSoon, CallAt,
                CancelHandle, Stop, RaiseTimeLimit, RaiseDeadlock, ReturnIdle,
                SweepOnly, Skip, RunHandle, RaiseStepLimit, Finish, Interrupt,
                EndTick, vars
  <1> QED BY <1>1, <1>2

\* The clock never goes back.
THEOREM ClockIsMonotone == Spec => ClockMonotone
  <1>1. ASSUME IInv, [Next]_vars
        PROVE  now' >= now
    <2>1. now \in Nat /\ now' \in Nat
      BY <1>1, NextIInv, ConstantsAssumption DEF IInv, TypeOK, Instants
    <2>2. now' = now \/ now' > now
      BY <1>1, ClockStep
    <2> QED BY <2>1, <2>2
  <1>2. IInv /\ [Next]_vars => [now' >= now]_vars
    BY <1>1
  <1> QED BY InvariantHolds, <1>2, PTL DEF Spec, ClockMonotone

\* How the callbacks started and the count that is kept of them go together: the local
\* count is a copy of _steps between ticks, and runs ahead of it inside one.
StepsCounted ==
    /\ mode # "run" => tally = steps
    /\ MaxSteps > 0 => started <= MaxSteps
    /\ MaxSteps > 0 /\ ~interrupted =>
          started = IF Over(tally) THEN MaxSteps ELSE tally

LEMMA StepsCountedStep == IInv /\ StepsCounted /\ [Next]_vars => StepsCounted'
<1> SUFFICES ASSUME IInv, StepsCounted, [Next]_vars
             PROVE  StepsCounted'
  OBVIOUS
<1>1. steps \in Nat /\ tally \in Nat /\ started \in Nat /\ MaxSteps \in Nat
  BY ConstantsAssumption DEF IInv, TypeOK
<1>2. CASE \E h \in left : RunHandle(h)
  <2>1. /\ mode' = "run" /\ ~Over(CountStep(tally)) /\ tally' = CountStep(tally)
        /\ started' = (IF interrupted THEN started ELSE CountStep(started))
        /\ interrupted' = interrupted
    BY <1>2 DEF RunHandle, life
  <2>2. MaxSteps > 0 => tally' = tally + 1 /\ tally + 1 <= MaxSteps
    BY <1>1, <2>1 DEF Over, CountStep
  <2>3. MaxSteps > 0 /\ ~interrupted => started' = started + 1 /\ started = tally
    BY <1>1, <2>1, <2>2 DEF Over, CountStep, StepsCounted
  <2> QED
    BY <1>1, <2>1, <2>2, <2>3 DEF Over, StepsCounted
<1>3. CASE \E h \in left : RaiseStepLimit(h)
  <2>1. /\ Over(CountStep(tally)) /\ tally' = CountStep(tally) /\ steps' = tally'
        /\ UNCHANGED <<started, interrupted>>
    BY <1>3 DEF RaiseStepLimit
  <2>2. MaxSteps > 0 /\ ~interrupted => started = MaxSteps
    BY <1>1, <2>1 DEF Over, CountStep, StepsCounted
  <2> QED
    BY <2>1, <2>2 DEF StepsCounted, Over
<1>4. CASE Interrupt
  BY <1>1, <1>4 DEF Interrupt, StepsCounted
<1>5. CASE EndTick
  BY <1>5 DEF EndTick, StepsCounted, Over
<1>6. CASE \E P \in Sweeps : Tick(P)
  <2>1. /\ mode = "poll" /\ mode' = "run" /\ tally' = steps
        /\ UNCHANGED <<started, interrupted>>
    BY <1>6 DEF Tick
  <2> QED
    BY <2>1 DEF StepsCounted, Over
<1>7. CASE UNCHANGED <<tick, interrupted>> /\ (mode' = "run" => mode = "run")
                                          /\ (mode # "run" \/ mode' = "run")
  BY <1>7 DEF tick, StepsCounted, Over
<1>8. CASE \E h \in left : Skip(h)
  BY <1>8 DEF Skip, life, StepsCounted, Over
<1>9. CASE Finish
  BY <1>9 DEF Finish, life, StepsCounted, Over
<1>10. CASE RunForever \/ User \/ UNCHANGED vars
            \/ \E P \in Sweeps : RaiseTimeLimit(P) \/ RaiseDeadlock(P) \/ ReturnIdle(P)
  BY <1>7, <1>10 DEF RunForever, User, CallSoon, CallAt, CancelHandle, Stop, RaiseTimeLimit,
                     RaiseDeadlock, ReturnIdle, SweepOnly, LeaveLoop, vars, life
<1> QED
  BY <1>2, <1>3, <1>4, <1>5, <1>6, <1>8, <1>9, <1>10 DEF Next, LoopStep, Poll, Visit

LEMMA StepsAreCounted == Spec => []StepsCounted
<1>1. Init => StepsCounted
  BY ConstantsAssumption DEF Init, StepsCounted, Over
<1> QED
  BY <1>1, StepsCountedStep, InvariantHolds, PTL DEF Spec

\* The clock is within the limit on time.
ClockLimited == MaxTime > 0 => now <= Later(MaxTime, StartTime)

LEMMA ClockLimitedStep == IInv /\ ClockLimited /\ [Next]_vars => ClockLimited'
<1> SUFFICES ASSUME IInv, ClockLimited, [Next]_vars, MaxTime > 0
             PROVE  now' <= Later(MaxTime, StartTime)
  BY DEF ClockLimited
<1>1. StartTime \in Nat /\ MaxTime \in Nat
  BY ConstantsAssumption DEF Instants
<1>2. now \in Nat /\ now' \in Nat /\ now <= Later(MaxTime, StartTime)
  BY NextIInv, ConstantsAssumption DEF IInv, TypeOK, Instants, ClockLimited
<1>3. now' = now \/ (now' > now /\ ~(now' > MaxTime))
  BY ClockStep DEF PastLimit
<1> QED
  BY <1>1, <1>2, <1>3 DEF Later

LEMMA ClockIsLimited == Spec => []ClockLimited
<1>1. Init => ClockLimited
  BY ConstantsAssumption DEF Init, ClockLimited, Later, Instants
<1> QED
  BY <1>1, ClockLimitedStep, InvariantHolds, PTL DEF Spec

\* Who raises what.
LEMMA RaisersOfLimits ==
    ASSUME IInv, [Next]_vars
    PROVE  /\ mode = "poll" /\ error' = "time" => \E P \in Sweeps : RaiseTimeLimit(P)
           /\ mode = "run" /\ error' = "steps" => \E h \in left : RaiseStepLimit(h)
<1>1. mode # "idle" => error = "none"
  BY DEF IInv, Consistent
<1>2. ASSUME mode = "poll", error' = "time"
      PROVE  \E P \in Sweeps : RaiseTimeLimit(P)
  BY <1>1, <1>2 DEF IInv, Consistent, Next, User, LoopStep, Poll, Visit, RunForever,
              CallSoon, CallAt, CancelHandle, Stop, Tick, RaiseDeadlock,
              ReturnIdle, LeaveLoop, UserCode, Skip, RunHandle,
              RaiseStepLimit, Finish, Interrupt, EndTick, vars, life
<1>3. ASSUME mode = "run", error' = "steps"
      PROVE  \E h \in left : RaiseStepLimit(h)
  BY <1>1, <1>3 DEF Next, User, LoopStep, Poll, Visit, RunForever,
              CallSoon, CallAt, CancelHandle, Stop, Tick, RaiseTimeLimit, RaiseDeadlock,
              ReturnIdle, LeaveLoop, Skip, RunHandle, Finish, Interrupt, EndTick, vars, life
<1> QED
  BY <1>2, <1>3

\* What TimeLimitExceeded says of those who wait: the first of the live timers is past
\* the limit, and nothing is owed that is not on the heap.
LEMMA AllPastTheLimit ==
    ASSUME IInv, NEW P \in Sweeps, RaiseTimeLimit(P), ~Broken
    PROVE  Owed # {} /\ \A h \in Owed : due[h] > MaxTime
<1>1. PICK t \in Instants : JumpsTo(OnHeap \ P, t) /\ t > now /\ PastLimit(t)
  BY DEF RaiseTimeLimit
<1>2. mode = "poll" /\ ready = {} /\ left = {} /\ OnHeap \ P # {}
  BY DEF RaiseTimeLimit, IInv, Consistent
<1>3. P \subseteq Dead
  BY SweepFacts DEF IInv
<1>4. Earliest(OnHeap \ P, t)
  <2>1. t \in Nat /\ now \in Nat
    BY ConstantsAssumption DEF IInv, TypeOK, Instants
  <2> QED
    BY <1>1, <2>1 DEF JumpsTo
<1>5. Owed \subseteq OnHeap \ P
  BY <1>2, <1>3 DEF IInv, NothingLost, Consistent, Dead
<1>6. MaxTime \in Nat /\ t \in Nat /\ now \in Nat /\ t > MaxTime
  BY <1>1, ConstantsAssumption DEF PastLimit, IInv, TypeOK, Instants
<1>7. ASSUME NEW h \in Owed
      PROVE  due[h] > MaxTime
  <2>1. due[h] = Later(scheduled[h], now) /\ scheduled[h] >= t /\ scheduled[h] \in Nat
    BY <1>4, <1>5, <1>7, ConstantsAssumption DEF IInv, OnTime, Earliest, TypeOK, Instants
  <2> QED
    BY <1>1, <1>6, <2>1 DEF Later
<1>8. Owed # {}
  \* The cancelled timers that are left all lie behind a live one.
  <2>1. PICK g \in OnHeap \ P : TRUE
    BY <1>2
  <2>2. CASE g \notin cancelled
    BY <2>1, <2>2 DEF IInv, Consistent, Live
  <2>3. CASE g \in cancelled
    <3>1. g \in Dead \ P
      BY <2>1, <2>3 DEF Dead
    <3>2. Live # {}
      BY <3>1 DEF Sweeps
    <3> QED
      BY <3>2 DEF IInv, Consistent
  <2> QED
    BY <2>2, <2>3
<1> QED
  BY <1>7, <1>8

\* Both limits are exact, for every value of them: no callback due by max_time is given
\* up, no more than max_steps are started, and no run is ended with steps to spare.
THEOREM LimitsHoldExactly == Spec => LimitsAreExact
<1> DEFINE Exact ==
      /\ MaxTime > 0 => now' <= Later(MaxTime, StartTime)
      /\ mode = "poll" /\ error' = "time"
            => Broken \/ (Owed # {} /\ \A h \in Owed : due[h] > MaxTime)
      /\ MaxSteps > 0 => started' <= MaxSteps
      /\ mode = "run" /\ error' = "steps" => interrupted \/ started = MaxSteps
<1>1. ASSUME IInv, StepsCounted, ClockLimited, [Next]_vars
      PROVE  Exact
  <2>1. MaxTime > 0 => now' <= Later(MaxTime, StartTime)
    <3>1. ClockLimited'
      BY <1>1, ClockLimitedStep
    <3> QED
      BY <3>1 DEF ClockLimited, Later
  <2>2. mode = "poll" /\ error' = "time"
           => Broken \/ (Owed # {} /\ \A h \in Owed : due[h] > MaxTime)
    BY <1>1, RaisersOfLimits, AllPastTheLimit
  <2>3. MaxSteps > 0 => started' <= MaxSteps
    BY <1>1, StepsCountedStep DEF StepsCounted
  <2>4. mode = "run" /\ error' = "steps" => interrupted \/ started = MaxSteps
    <3>1. SUFFICES ASSUME mode = "run", error' = "steps"
                   PROVE  interrupted \/ started = MaxSteps
      OBVIOUS
    <3>2. Over(CountStep(tally))
      BY <1>1, <3>1, RaisersOfLimits DEF RaiseStepLimit
    <3>3. MaxSteps \in Nat /\ tally \in Nat
      BY <1>1, ConstantsAssumption DEF IInv, TypeOK
    <3> QED
      BY <1>1, <3>2, <3>3 DEF StepsCounted, Over, CountStep
  <2> QED
    BY <2>1, <2>2, <2>3, <2>4
<1>2. IInv /\ StepsCounted /\ ClockLimited /\ [Next]_vars => [Exact]_vars
  BY <1>1
<1> QED
  BY <1>2, InvariantHolds, StepsAreCounted, ClockIsLimited, PTL DEF Spec, LimitsAreExact

\* DeadlockError is raised only when there is nothing left to run, ever.
THEOREM DeadlocksAreReal == Spec => DeadlockIsReal
  <1>1. ASSUME IInv, [Next]_vars, mode = "poll", error' = "deadlock"
        PROVE  Broken \/ Owed = {}
    <2>1. PICK P \in Sweeps : RaiseDeadlock(P)
      BY <1>1 DEF IInv, Consistent, Next, User, LoopStep, Poll, Visit, RunForever,
                  CallSoon, CallAt, CancelHandle, Stop, Tick, RaiseTimeLimit,
                  ReturnIdle, LeaveLoop, UserCode, Skip, RunHandle,
                  RaiseStepLimit, Finish, Interrupt, EndTick, vars, life
    <2>2. OnHeap \subseteq Dead /\ ready = {} /\ left = {}
      BY <1>1, <2>1, SweepFacts DEF RaiseDeadlock, IInv, Consistent
    <2> QED BY <1>1, <2>2 DEF IInv, NothingLost, Consistent, Dead
  <1>2. IInv /\ [Next]_vars
            => [mode = "poll" /\ error' = "deadlock" => Broken \/ Owed = {}]_vars
    BY <1>1
  <1> QED BY InvariantHolds, <1>2, PTL DEF Spec, DeadlockIsReal

\* The head of a tick leaves no more cancelled timers on the heap than the threshold.
THEOREM HeapIsBounded == Spec => HeapBounded
  <1>1. ASSUME IInv, [Next]_vars, mode = "poll", mode' # "poll"
        PROVE  Cardinality(Dead') <= PurgeThreshold
    <2>1. PICK P \in Sweeps :
             Tick(P) \/ RaiseTimeLimit(P) \/ RaiseDeadlock(P) \/ ReturnIdle(P)
      BY <1>1 DEF IInv, Consistent, Next, User, LoopStep, Poll, Visit,
                  RunForever, CallSoon, CallAt, CancelHandle, Stop, UserCode,
                  Skip, RunHandle, RaiseStepLimit, Finish, Interrupt, EndTick,
                  vars, life
    <2>2. OnHeap' \subseteq OnHeap \ P /\ cancelled' = cancelled
      BY <2>1 DEF Tick, RaiseTimeLimit, RaiseDeadlock, ReturnIdle, SweepOnly,
                  OnHeap, Without
    <2> QED BY <1>1, <2>2, SweepFacts DEF IInv, Dead
  <1>2. IInv /\ [Next]_vars
          => [mode = "poll" /\ mode' # "poll"
                => Cardinality(Dead') <= PurgeThreshold]_vars
    BY <1>1
  <1> QED BY InvariantHolds, <1>2, PTL DEF Spec, HeapBounded

-----------------------------------------------------------------------------
(* SimLoop implements VirtualTime.                                         *)

\* Leaving the run in the middle of a batch is final.
LEMMA BrokenStays ==
    ASSUME IInv, [Next]_vars, Broken
    PROVE  Broken'
  <1>1. steps' = steps \/ steps' = tally \/ steps' = CountStep(tally)
    BY DEF Next, User, LoopStep, Poll, Visit, RunForever, CallSoon, CallAt,
           CancelHandle, Stop, Tick, RaiseTimeLimit, RaiseDeadlock, ReturnIdle,
           SweepOnly, Skip, RunHandle, RaiseStepLimit, Finish, Interrupt,
           EndTick, vars, tick
  <1>2. interrupted => interrupted'
    BY DEF Next, User, LoopStep, Poll, Visit, RunForever, CallSoon, CallAt,
           CancelHandle, Stop, Tick, RaiseTimeLimit, RaiseDeadlock, ReturnIdle,
           SweepOnly, Skip, RunHandle, RaiseStepLimit, Finish, Interrupt,
           EndTick, LeaveLoop, vars, life
  <1>3. steps' = steps \/ steps' >= steps
    <2>1. steps' # steps => mode = "run"
      BY DEF Next, User, LoopStep, Poll, Visit, RunForever, CallSoon, CallAt,
             CancelHandle, Stop, Tick, RaiseTimeLimit, RaiseDeadlock, ReturnIdle,
             SweepOnly, Skip, RunHandle, RaiseStepLimit, Finish, Interrupt,
             EndTick, vars, tick
    <2> QED BY <1>1, <2>1 DEF IInv, Consistent, TypeOK, CountStep
  <1>4. steps \in Nat /\ steps' \in Nat
    BY NextIInv DEF IInv, TypeOK
  <1> QED BY <1>2, <1>3, <1>4, ConstantsAssumption DEF Broken, Over

\* A jump of SimLoop is a jump of VirtualTime: the earliest timer left on the
\* heap by the sweep is the earliest callback owed.
LEMMA TickRefines ==
    ASSUME IInv, NEW P \in Sweeps, Tick(P), ~Broken, Broken' <=> Broken
    PROVE  VT!Jump \/ UNCHANGED VT!vars
  <1> DEFINE H == OnHeap \ P
  <1>1. PICK t \in Instants : JumpsTo(H, t) /\ now' = t
    BY DEF Tick
  <1>2. /\ mode = "poll" /\ (ready # {} \/ H # {})
        /\ due' = due
    BY DEF Tick
  <1>3. CASE t = now
    BY <1>1, <1>2, <1>3 DEF VT!vars
  <1>4. CASE t # now
    <2>1. /\ ready = {}
          /\ \A h \in H : scheduled[h] > now
          /\ Earliest(H, t)
      BY <1>1, <1>4 DEF JumpsTo
    <2>2. Owed \subseteq H
      BY <1>2, <2>1, SweepFacts DEF IInv, NothingLost, Consistent, Dead
    <2>3. \A h \in Owed : due[h] = scheduled[h]
      BY <2>1, <2>2 DEF IInv, OnTime, Later, TypeOK, Instants
    <2>4. PICK h \in Live : scheduled[h] = t
      <3>1. PICK g \in H : scheduled[g] = t
        BY <2>1 DEF Earliest
      <3>2. CASE g \in Live
        BY <3>1, <3>2
      <3>3. CASE g \notin Live
        <4>1. g \in Dead \ P
          BY <3>3 DEF Live, Dead
        <4>2. PICK k \in Live : scheduled[k] <= scheduled[g]
          BY <4>1 DEF Sweeps
        <4>3. k \in H
          BY SweepFacts DEF IInv, Live, Dead
        <4>4. scheduled[k] \in Instants /\ t <= scheduled[k]
          BY <2>1, <4>3 DEF Earliest, IInv, TypeOK
        <4> QED BY <3>1, <4>2, <4>4 DEF Instants
      <3> QED BY <3>2, <3>3
    <2>5. h \in Owed /\ due[h] = t
      BY <2>3, <2>4 DEF IInv, Consistent
    <2>6. \A g \in Owed : due[h] <= due[g] /\ due[g] > now
      BY <2>1, <2>2, <2>3, <2>5 DEF Earliest
    <2> QED BY <1>1, <1>2, <2>5, <2>6 DEF VT!Jump, Owed
  <1> QED BY <1>3, <1>4

\* What a callback or other code does is registering, cancelling or nothing.
LEMMA UserRefines ==
    ASSUME IInv, User, ~Broken, Broken' <=> Broken
    PROVE  (\E h \in Handles : VT!Register(h) \/ VT!Cancel(h)) \/ UNCHANGED VT!vars
  <1>1. now \in Instants /\ due \in [Owed -> Instants]
    BY DEF IInv, TypeOK
  <1>2. ASSUME NEW h \in Handles, NEW t \in Instants, t >= now, Fresh(h),
               due' = With(due, h, t), now' = now
        PROVE  VT!Register(h)
    <2>1. h \notin Owed
      BY <1>2 DEF IInv, TypeOK, NothingLost, Fresh
    <2> QED BY <1>2, <2>1 DEF VT!Register, With, Owed
  <1>3. ASSUME NEW h \in Handles, CallSoon(h)
        PROVE  VT!Register(h)
    BY <1>1, <1>2, <1>3 DEF CallSoon, Instants
  <1>4. ASSUME NEW h \in Handles, NEW t \in Instants, CallAt(h, t)
        PROVE  VT!Register(h)
    <2>1. Later(t, now) \in Instants /\ Later(t, now) >= now
      BY <1>1, ConstantsAssumption DEF Later, Instants
    <2> QED BY <1>2, <1>4, <2>1 DEF CallAt
  <1>5. ASSUME NEW h \in Handles, CancelHandle(h)
        PROVE  VT!Cancel(h) \/ UNCHANGED VT!vars
    <2>1. due' = Without(due, {h}) /\ now' = now
      BY <1>5 DEF CancelHandle
    <2>2. CASE h \in Owed
      BY <2>1, <2>2 DEF VT!Cancel, Without, Owed
    <2>3. CASE h \notin Owed
      <3>1. due' = due
        BY <1>1, <2>1, <2>3 DEF Without, Owed
      <3> QED BY <2>1, <3>1 DEF VT!vars
    <2> QED BY <2>2, <2>3
  <1>6. CASE Stop
    BY <1>6 DEF Stop, VT!vars
  <1> QED BY <1>3, <1>4, <1>5, <1>6 DEF User

\* A callback that starts is one that fires; passing over one is nothing.
LEMMA VisitRefines ==
    ASSUME IInv, NEW h \in left, Skip(h) \/ RunHandle(h), ~Broken, Broken' <=> Broken
    PROVE  VT!Fire(h) \/ UNCHANGED VT!vars
  <1>1. CASE Skip(h)
    BY <1>1 DEF Skip, VT!vars
  <1>2. CASE RunHandle(h)
    <2>1. h \in Owed /\ h \notin OnHeap
      BY <1>2 DEF RunHandle, IInv, Consistent, TypeOK
    <2>2. due[h] = now
      BY <2>1 DEF IInv, OnTime
    <2> QED BY <1>2, <2>1, <2>2 DEF RunHandle, VT!Fire, Without, Owed
  <1> QED BY <1>1, <1>2

\* Every step of SimLoop is a step of VirtualTime or changes nothing it shows.
LEMMA StepRefines ==
    ASSUME IInv, [Next]_vars
    PROVE  [VT!Next]_(VT!vars)
  <1>1. now' = now \/ now' > now
    BY ClockStep
  <1>2. now \in Nat /\ now' \in Nat
    BY NextIInv, ConstantsAssumption DEF IInv, TypeOK, Instants
  <1>3. CASE Broken
    BY <1>1, <1>2, <1>3, BrokenStays DEF VT!Next, VT!Aftermath
  <1>4. CASE ~Broken /\ Broken'
    <2>1. now' = now /\ due' = due
      <3>1. Interrupt \/ EndTick \/ \E h \in left : RaiseStepLimit(h)
        BY <1>4 DEF Broken, Next, User, LoopStep, Poll, Visit, RunForever,
             CallSoon, CallAt, CancelHandle, Stop, Tick, RaiseTimeLimit,
             RaiseDeadlock, ReturnIdle, SweepOnly, Skip, RunHandle, Finish,
             vars, life, tick
      <3> QED BY <3>1 DEF Interrupt, EndTick, RaiseStepLimit
    <2> QED BY <1>4, <2>1 DEF VT!Next, VT!Break
  <1>5. CASE ~Broken /\ ~Broken'
    <2>0. Broken' = Broken
      BY <1>5 DEF Broken
    <2>1. CASE Poll
      <3>1. PICK P \in Sweeps :
             Tick(P) \/ RaiseTimeLimit(P) \/ RaiseDeadlock(P) \/ ReturnIdle(P)
        BY <2>1 DEF Poll
      <3>2. CASE Tick(P)
        <4>1. VT!Jump \/ UNCHANGED VT!vars
          BY <1>5, <3>2, TickRefines, Zenon
        <4> QED BY <4>1 DEF VT!Next
      <3>3. CASE RaiseTimeLimit(P) \/ RaiseDeadlock(P) \/ ReturnIdle(P)
        BY <2>0, <3>3 DEF RaiseTimeLimit, RaiseDeadlock, ReturnIdle, SweepOnly, VT!vars
      <3> QED BY <3>1, <3>2, <3>3
    <2>2. CASE Visit
      <3>1. PICK h \in left : Skip(h) \/ RunHandle(h) \/ RaiseStepLimit(h)
        BY <2>2 DEF Visit
      <3>2. ~RaiseStepLimit(h)
        BY <1>5 DEF RaiseStepLimit, Broken, Over
      <3>3. h \in Handles
        BY DEF IInv, TypeOK
      <3>4. VT!Fire(h) \/ UNCHANGED VT!vars
        BY <1>5, <3>1, <3>2, VisitRefines, Zenon
      <3> QED BY <3>3, <3>4 DEF VT!Next
    <2>3. CASE User
      BY <1>5, <2>3, UserRefines DEF VT!Next
    <2>4. CASE RunForever \/ EndTick \/ Finish \/ Interrupt \/ UNCHANGED vars
      BY <2>0, <2>4 DEF RunForever, EndTick, Finish, Interrupt, vars, VT!vars
    <2> QED BY <2>1, <2>2, <2>3, <2>4 DEF Next, LoopStep
  <1> QED BY <1>3, <1>4, <1>5

\* Code on the loop may rely on virtual time: each callback fires once, at its
\* instant, and the clock jumps from one instant with something to do to the
\* next.
THEOREM LoopImplementsVirtualTime == Spec => ImplementsVirtualTime
  <1>1. Init => VT!Init
    BY ConstantsAssumption DEF Init, VT!Init, Broken, Over
  <1>2. IInv /\ [Next]_vars => [VT!Next]_(VT!vars)
    BY StepRefines
  <1> QED BY InvariantHolds, <1>1, <1>2, PTL DEF Spec, ImplementsVirtualTime, VT!Spec

-----------------------------------------------------------------------------
(* What the liveness of the loop rests on.  That something falls for ever  *)
(* is what TLC rules out; what falls, and that nothing stands in the way   *)
(* of the step that lowers it, is proved here.                             *)

\* A set of deadlines has an earliest one.
LEMMA LeastInstant ==
    ASSUME NEW S \in SUBSET Nat, S # {}
    PROVE  \E m \in S : \A k \in S : m <= k
<1> DEFINE R == OpToRel(<, Nat)
<1>1. IsWellFoundedOn(R, Nat)
  BY NatLessThanWellFounded
<1>2. \A j, k \in Nat : j < k => <<j, k>> \in R
  BY DEF OpToRel
<1> HIDE DEF R
<1>3. PICK m \in S : \A k \in S : ~(<<k, m>> \in R)
  BY <1>1, WFMin
<1>4. \A k \in S : ~(k < m)
  BY <1>2, <1>3
<1> QED
  BY <1>3, <1>4

\* Between two ticks there is always a way on: the queues are empty, or there is an
\* instant for the next batch, which Tick or RaiseTimeLimit takes.
PollGoesOn ==
    mode = "poll" =>
        \E P \in Sweeps :
            \/ ready = {} /\ OnHeap \ P = {}
            \/ \E t \in Instants : JumpsTo(OnHeap \ P, t)

\* A sweep is possible at any time, and after it a jump to the next deadline.
LEMMA SweepExists ==
    ASSUME TypeOK
    PROVE  \E P \in Sweeps : P \subseteq OnHeap
<1>1. CASE cancelCount > PurgeThreshold
  BY <1>1 DEF Sweeps, Dead
<1>2. CASE ~(cancelCount > PurgeThreshold)
  <2> DEFINE P == {h \in Dead : \A g \in Live : scheduled[h] <= scheduled[g]}
  <2>1. \A h \in OnHeap : scheduled[h] \in Nat
    BY ConstantsAssumption DEF TypeOK, Instants
  <2>2. \A h \in Dead \ P : \E g \in Live : scheduled[g] <= scheduled[h]
    BY <2>1 DEF Dead, Live
  <2>3. P \in Sweeps
    BY <1>2, <2>2 DEF Sweeps
  <2> QED
    BY <2>3 DEF Dead
<1> QED
  BY <1>1, <1>2

LEMMA JumpExists ==
    ASSUME TypeOK, NEW H \in SUBSET OnHeap, ready # {} \/ H # {}
    PROVE  \E t \in Instants : JumpsTo(H, t)
<1>1. now \in Instants /\ \A h \in H : scheduled[h] \in Instants
  BY DEF TypeOK
<1>2. CASE ready = {} /\ \A h \in H : scheduled[h] > now
  <2> DEFINE S == {scheduled[h] : h \in H}
  <2>1. S \subseteq Instants /\ S # {}
    BY <1>1, <1>2
  <2>2. S \in SUBSET Nat
    BY <2>1, ConstantsAssumption DEF Instants
  <2>3. PICK t \in S : \A k \in S : t <= k
    <3> HIDE DEF S
    <3> QED
      BY <2>1, <2>2, LeastInstant
  <2>4. Earliest(H, t)
    BY <2>3 DEF Earliest
  <2> QED
    BY <1>2, <2>1, <2>3, <2>4 DEF JumpsTo
<1>3. CASE ~(ready = {} /\ \A h \in H : scheduled[h] > now)
  BY <1>1, <1>3 DEF JumpsTo
<1> QED
  BY <1>2, <1>3

\* A tick is never without a next step: it cannot get stuck over its heap.
THEOREM TicksGoOn == Spec => []PollGoesOn
<1>1. IInv => PollGoesOn
  <2> SUFFICES ASSUME TypeOK, mode = "poll"
               PROVE  PollGoesOn
    BY DEF IInv, PollGoesOn
  <2>1. PICK P \in Sweeps : P \subseteq OnHeap
    BY SweepExists
  <2>2. CASE ready = {} /\ OnHeap \ P = {}
    BY <2>1, <2>2 DEF PollGoesOn
  <2>3. CASE ready # {} \/ OnHeap \ P # {}
    <3>1. \E t \in Instants : JumpsTo(OnHeap \ P, t)
      BY <2>3, JumpExists
    <3> QED
      BY <2>1, <3>1 DEF PollGoesOn
  <2> QED
    BY <2>2, <2>3
<1> QED
  BY <1>1, InvariantHolds, PTL

\* What the loop has still to visit: the handles it has not put into a batch, the
\* ones of a broken batch included, and what is left of the batch.
Waiting ==
    (OnHeap \cup ready \cup Owed \cup (IF mode = "poll" THEN batch ELSE {})) \ left

Toll == 2 * Cardinality(left) + (IF running = None THEN 0 ELSE 1)

InBatch == IF mode = "run" THEN 1 ELSE 0

Work == Cardinality(Waiting)

Load == 4 * Work + Toll + InBatch

\* As long as nothing new is asked for, the load does not grow, and the loop and the
\* callbacks that return lower it: only so often before the loop is left.
LoadFalls ==
    [][mode # "idle" /\ mode' # "idle" /\ Owed' \subseteq Owed =>
          /\ Load \in Nat /\ Load' \in Nat /\ Load' <= Load
          /\ LoopStep \/ Finish => Load' < Load]_vars

\* How long a callback that waits for its turn still has to, at most.
InLine(h) == h \in Owed /\ h \in ready \cup left

Most == 2 * Cardinality(Handles) + 1

Place(h) ==
    CASE h \in left -> Toll
      [] h \notin left /\ mode = "run" -> Toll + Most + 1
      [] h \notin left /\ mode = "poll" -> Most

\* Whatever else is asked for meanwhile, a callback that is ready never falls behind,
\* and the loop and the callbacks that return bring it on.
PlacesFall ==
    [][\A h \in Handles : mode # "idle" /\ mode' # "idle" /\ InLine(h) /\ h \in Owed' =>
          /\ InLine(h)' /\ Place(h) \in Nat /\ Place(h)' \in Nat /\ Place(h)' <= Place(h)
          /\ LoopStep \/ Finish => Place(h)' < Place(h)]_vars

LEMMA Counts ==
    ASSUME TypeOK
    PROVE  /\ IsFiniteSet(Waiting) /\ Cardinality(Waiting) \in Nat
           /\ IsFiniteSet(left) /\ Cardinality(left) \in Nat
           /\ Cardinality(Handles) \in Nat /\ Cardinality(left) <= Cardinality(Handles)
<1>1. Waiting \subseteq Handles /\ left \subseteq Handles
  BY DEF TypeOK, Waiting
<1> QED
  BY <1>1, ConstantsAssumption, FS_Subset, FS_CardinalityType

LEMMA CountsNext ==
    ASSUME TypeOK'
    PROVE  /\ IsFiniteSet(Waiting') /\ Cardinality(Waiting') \in Nat
           /\ IsFiniteSet(left') /\ Cardinality(left') \in Nat
           /\ Cardinality(left') <= Cardinality(Handles)
<1>1. Waiting' \subseteq Handles /\ left' \subseteq Handles
  BY DEF TypeOK, Waiting
<1> QED
  BY <1>1, ConstantsAssumption, FS_Subset, FS_CardinalityType

\* The code of the user may fill the queues, and leaves the batch alone.
LEMMA UserKeepsTheBatch ==
    ASSUME IInv, User, mode # "idle"
    PROVE  /\ mode = "run" /\ UNCHANGED <<left, running, mode>>
           /\ ready \subseteq ready'
           /\ Owed' \subseteq Owed => Waiting' \subseteq Waiting
<1> USE DEF IInv, OnHeap, Owed, With, Without, Waiting
<1>1. mode = "run" /\ left \subseteq batch
  BY DEF User, CallSoon, CallAt, CancelHandle, Stop, UserCode, Consistent, TypeOK
<1>2. ASSUME NEW h \in Handles, CallSoon(h)
      PROVE  /\ UNCHANGED <<left, running, mode>> /\ ready \subseteq ready'
             /\ Owed' \subseteq Owed => Waiting' \subseteq Waiting
  BY <1>1, <1>2 DEF CallSoon, Fresh, tick, life
<1>3. ASSUME NEW h \in Handles, NEW t \in Instants, CallAt(h, t)
      PROVE  /\ UNCHANGED <<left, running, mode>> /\ ready \subseteq ready'
             /\ Owed' \subseteq Owed => Waiting' \subseteq Waiting
  BY <1>1, <1>3 DEF CallAt, Fresh, tick, life
<1>4. ASSUME NEW h \in Handles, CancelHandle(h)
      PROVE  /\ UNCHANGED <<left, running, mode>> /\ ready \subseteq ready'
             /\ Owed' \subseteq Owed => Waiting' \subseteq Waiting
  BY <1>1, <1>4 DEF CancelHandle, tick, life
<1>5. CASE Stop
  BY <1>1, <1>5 DEF Stop, tick, queues
<1> QED
  BY <1>1, <1>2, <1>3, <1>4, <1>5 DEF User

\* A tick moves something into a batch, and drops nothing that is ready.
LEMMA TickFillsTheBatch ==
    ASSUME IInv, NEW P \in Sweeps, Tick(P)
    PROVE  /\ mode = "poll" /\ mode' = "run" /\ left = {}
           /\ running = None /\ running' = None
           /\ ready \subseteq left' /\ left' # {}
           /\ left' \subseteq Waiting /\ Waiting' \subseteq Waiting
           /\ Waiting' \cap left' = {}
<1> USE DEF IInv
<1>1. PICK t \in Instants :
         /\ JumpsTo(OnHeap \ P, t)
         /\ LET promoted == {h \in OnHeap \ P : scheduled[h] <= t}
            IN  /\ scheduled' = Without(scheduled, P \cup promoted)
                /\ batch' = batch \cup ready \cup promoted
  BY DEF Tick
<1> DEFINE promoted == {h \in OnHeap \ P : scheduled[h] <= t}
<1>2. /\ mode = "poll" /\ mode' = "run" /\ left = {} /\ ready' = {}
      /\ running = None /\ running' = None /\ left' = batch'
      /\ ready # {} \/ OnHeap \ P # {}
  BY DEF Tick, Consistent
<1>3. OnHeap' \subseteq OnHeap /\ left' = batch \cup ready \cup promoted
  BY <1>1, <1>2 DEF OnHeap, Without
<1>4. due' = due
  BY DEF Tick
<1>5. ready = {} => promoted # {}
  <2>1. \A h \in OnHeap : scheduled[h] \in Nat
    BY ConstantsAssumption DEF TypeOK, Instants
  <2>2. t \in Nat /\ now \in Nat
    BY ConstantsAssumption DEF TypeOK, Instants
  <2> QED
    BY <1>1, <1>2, <2>1, <2>2 DEF JumpsTo, Earliest
<1> HIDE DEF promoted
<1>6. promoted \subseteq OnHeap
  BY DEF promoted
<1>7. /\ Waiting = OnHeap \cup ready \cup Owed \cup batch
      /\ Waiting' = (OnHeap' \cup Owed) \ left'
  BY <1>2, <1>4 DEF Waiting, Owed
<1> QED
  BY <1>2, <1>3, <1>5, <1>6, <1>7

\* The loop over the batch goes from one handle to the next.
LEMMA VisitTakesOne ==
    ASSUME IInv, Visit, mode' # "idle"
    PROVE  /\ mode = "run" /\ mode' = "run" /\ running = None /\ ready' = ready
           /\ Waiting' \subseteq Waiting
           /\ \E h \in left : (left' = left \ {h}) /\ h \notin Owed'
<1> USE DEF IInv
<1>1. PICK h \in left : Skip(h) \/ RunHandle(h)
  BY DEF Visit, RaiseStepLimit, LeaveLoop
<1>2. /\ mode = "run" /\ mode' = "run" /\ running = None /\ left' = left \ {h}
      /\ UNCHANGED <<scheduled, ready, batch>>
  BY <1>1 DEF Skip, RunHandle, queues, life
<1>3. h \notin Owed' /\ Owed' \subseteq Owed
  BY <1>1 DEF Skip, RunHandle, Owed, Without, Consistent
<1>4. h \notin OnHeap \cup ready
  BY DEF TypeOK, Consistent
<1> QED
  BY <1>2, <1>3, <1>4 DEF Waiting, OnHeap

\* What else the loop does on its way.
LEMMA FinishAndEndTick ==
    ASSUME IInv, mode' # "idle"
    PROVE  /\ Finish => /\ UNCHANGED <<left, mode, ready>> /\ Waiting' = Waiting
                        /\ running # None /\ running' = None
           /\ EndTick => /\ mode = "run" /\ mode' = "poll" /\ left = {} /\ left' = {}
                         /\ running = None /\ running' = None
                         /\ ready' = ready /\ Waiting' = Waiting
<1>1. ASSUME Finish
      PROVE  /\ UNCHANGED <<left, mode, ready>> /\ Waiting' = Waiting
             /\ running # None /\ running' = None
  BY <1>1 DEF Finish, queues, life, Waiting, OnHeap, Owed
<1>2. ASSUME EndTick
      PROVE  /\ mode = "run" /\ mode' = "poll" /\ left = {} /\ left' = {}
             /\ running = None /\ running' = None
             /\ ready' = ready /\ Waiting' = Waiting
  BY <1>2 DEF EndTick, LeaveLoop, queues, life, Waiting, OnHeap, Owed
<1> QED
  BY <1>1, <1>2

\* One turn of the loop over the batch lowers what it has to pay for the batch.
LEMMA VisitLowersToll ==
    ASSUME IInv, TypeOK', Visit, mode' # "idle"
    PROVE  Toll' < Toll
<1>1. PICK h \in left : left' = left \ {h}
  BY VisitTakesOne
<1>2. Cardinality(left') = Cardinality(left) - 1
  BY <1>1, Counts, FS_RemoveElement DEF IInv
<1>3. Cardinality(left) \in Nat
  BY Counts DEF IInv
<1>4. running = None
  BY VisitTakesOne
<1> QED
  BY <1>2, <1>3, <1>4 DEF Toll

LEMMA TollIsANumber ==
    ASSUME TypeOK
    PROVE  /\ Toll \in Nat /\ Toll <= 2 * Cardinality(Handles) + 1
           /\ running = None => Toll = 2 * Cardinality(left)
  BY Counts DEF Toll

\* A step of the loop, or the return of a callback, shows in the batch, the callback
\* that runs or the mode.
LEMMA OnlyTheLoopMoves ==
    ASSUME TypeOK, mode # "idle", UNCHANGED <<left, running, mode>>
    PROVE  ~LoopStep /\ ~Finish
<1>1. ~Poll /\ ~Finish /\ ~EndTick
  BY DEF Poll, Tick, RaiseTimeLimit, RaiseDeadlock, ReturnIdle, Finish, EndTick, LeaveLoop
<1>2. ~Visit
  BY DEF TypeOK, Visit, Skip, RunHandle, RaiseStepLimit, LeaveLoop
<1> QED
  BY <1>1, <1>2 DEF LoopStep

LEMMA Sums ==
    ASSUME NEW w \in Nat, NEW p \in Nat, NEW m \in Nat,
           NEW v \in Nat, NEW q \in Nat, NEW n \in Nat
    PROVE  /\ 4 * w + p + m \in Nat
           /\ v <= w /\ q <= p /\ n <= m =>
                 /\ 4 * v + q + n <= 4 * w + p + m
                 /\ q < p \/ n < m => 4 * v + q + n < 4 * w + p + m
  OBVIOUS

LEMMA LoadStep ==
    ASSUME IInv, [Next]_vars, mode # "idle", mode' # "idle", Owed' \subseteq Owed
    PROVE  /\ Load \in Nat /\ Load' \in Nat /\ Load' <= Load
           /\ LoopStep \/ Finish => Load' < Load
<1>1. TypeOK /\ TypeOK'
  BY NextIInv DEF IInv
<1>2. /\ Work \in Nat /\ Work' \in Nat /\ Toll \in Nat /\ Toll' \in Nat
      /\ IsFiniteSet(Waiting) /\ IsFiniteSet(Waiting')
  <2>1. Work \in Nat /\ Toll \in Nat /\ IsFiniteSet(Waiting)
    BY <1>1, Counts, TollIsANumber DEF Work
  <2>2. Work' \in Nat /\ Toll' \in Nat /\ IsFiniteSet(Waiting')
    BY <1>1, CountsNext DEF Toll, Work
  <2> QED
    BY <2>1, <2>2
<1>3. /\ Load = 4 * Work + Toll + InBatch /\ InBatch \in Nat
      /\ Load' = 4 * Work' + Toll' + InBatch' /\ InBatch' \in Nat
  BY DEF Load, InBatch
<1>4. Load \in Nat /\ Load' \in Nat
  BY <1>2, <1>3, Sums
<1>5. ASSUME Waiting' \subseteq Waiting, Toll' <= Toll, InBatch' <= InBatch
      PROVE  /\ Load' <= Load
             /\ Toll' < Toll \/ InBatch' < InBatch => Load' < Load
  <2>1. Work' <= Work
    BY <1>2, <1>5, FS_Subset DEF Work
  <2>2. \A w, p, m, v, q, n \in Nat :
           v <= w /\ q <= p /\ n <= m =>
              /\ 4 * v + q + n <= 4 * w + p + m
              /\ q < p \/ n < m => 4 * v + q + n < 4 * w + p + m
    BY Sums
  <2>3. /\ Work \in Nat /\ Toll \in Nat /\ InBatch \in Nat
        /\ Work' \in Nat /\ Toll' \in Nat /\ InBatch' \in Nat
        /\ Work' <= Work /\ Toll' <= Toll /\ InBatch' <= InBatch
    BY <1>2, <1>3, <1>5, <2>1
  <2>4. /\ 4 * Work' + Toll' + InBatch' <= 4 * Work + Toll + InBatch
        /\ Toll' < Toll \/ InBatch' < InBatch =>
              4 * Work' + Toll' + InBatch' < 4 * Work + Toll + InBatch
    BY <2>2, <2>3, Zenon
  <2> QED
    BY <1>3, <2>4
<1>6. CASE User
  <2>1. Toll' = Toll /\ InBatch' = InBatch /\ Waiting' \subseteq Waiting
    BY <1>6, UserKeepsTheBatch DEF Toll, InBatch
  <2>2. ~LoopStep /\ ~Finish
    BY <1>1, <1>6, UserKeepsTheBatch, OnlyTheLoopMoves
  <2>3. Toll' <= Toll /\ InBatch' <= InBatch /\ Waiting' \subseteq Waiting
    BY <1>2, <1>3, <2>1
  <2> QED
    BY <1>2, <1>3, <1>4, <1>5, <2>1, <2>2, <2>3
<1>7. CASE Poll
  <2>1. PICK P \in Sweeps : Tick(P)
    BY <1>7 DEF Poll, RaiseTimeLimit, RaiseDeadlock, ReturnIdle, LeaveLoop
  <2>2. /\ InBatch = 0 /\ InBatch' = 1 /\ running = None /\ running' = None /\ left = {}
        /\ left' # {} /\ left' \subseteq Waiting /\ Waiting' \subseteq Waiting
        /\ Waiting' \cap left' = {}
    BY <2>1, TickFillsTheBatch DEF InBatch
  <2>3. Toll = 0
    BY <2>2, FS_EmptySet DEF Toll
  <2>4. /\ Toll' = 2 * Cardinality(left') /\ IsFiniteSet(left')
        /\ Cardinality(left') \in Nat /\ Cardinality(left') >= 1
    <3>1. IsFiniteSet(left') /\ Cardinality(left') \in Nat
      BY <1>1, CountsNext
    <3>2. Cardinality(left') # 0
      BY <2>2, <3>1, FS_EmptySet
    <3> QED
      BY <2>2, <3>1, <3>2 DEF Toll
  <2>5. Work' + Cardinality(left') <= Work
    <3>1. /\ IsFiniteSet(Waiting' \cup left')
          /\ Cardinality(Waiting' \cup left')
                = Work' + Cardinality(left') - Cardinality(Waiting' \cap left')
      BY <1>2, <2>4, FS_Union DEF Work
    <3>2. Cardinality(Waiting' \cap left') = 0
      BY <2>2, FS_EmptySet
    <3>3. Cardinality(Waiting' \cup left') <= Work
      BY <1>2, <2>2, FS_Subset DEF Work
    <3> QED
      BY <1>2, <2>4, <3>1, <3>2, <3>3
  <2> QED
    BY <1>2, <1>3, <1>4, <2>2, <2>3, <2>4, <2>5
<1>8. CASE Visit
  <2>1. Toll' < Toll /\ InBatch' = InBatch /\ Waiting' \subseteq Waiting
    BY <1>1, <1>8, VisitLowersToll, VisitTakesOne DEF InBatch
  <2>2. Toll' <= Toll /\ InBatch' <= InBatch /\ Waiting' \subseteq Waiting
    BY <1>2, <1>3, <2>1
  <2> QED
    BY <1>2, <1>3, <1>4, <1>5, <2>1, <2>2
<1>9. CASE Finish
  <2>1. Toll' < Toll /\ InBatch' = InBatch /\ Waiting' = Waiting
    <3>1. left' = left /\ mode' = mode /\ running # None /\ running' = None
      BY <1>9, FinishAndEndTick
    <3>2. Cardinality(left) \in Nat
      BY <1>1, Counts
    <3> QED
      BY <1>9, <3>1, <3>2, FinishAndEndTick DEF Toll, InBatch
  <2>2. Toll' <= Toll /\ InBatch' <= InBatch /\ Waiting' \subseteq Waiting
    BY <1>2, <1>3, <2>1
  <2> QED
    BY <1>2, <1>3, <1>4, <1>5, <2>1, <2>2
<1>10. CASE EndTick
  <2>1. Toll' = Toll /\ InBatch' < InBatch /\ Waiting' = Waiting
    BY <1>10, FinishAndEndTick DEF Toll, InBatch
  <2>2. Toll' <= Toll /\ InBatch' <= InBatch /\ Waiting' \subseteq Waiting
    BY <1>2, <1>3, <2>1
  <2> QED
    BY <1>2, <1>3, <1>4, <1>5, <2>1, <2>2
<1>11. CASE UNCHANGED vars
  <2>1. /\ Toll' = Toll /\ InBatch' = InBatch /\ Waiting' = Waiting
        /\ UNCHANGED <<mode, left, running>>
    BY <1>11 DEF vars, queues, tick, life, Toll, InBatch, Waiting, OnHeap, Owed
  <2>2. ~LoopStep /\ ~Finish
    BY <1>1, <2>1, OnlyTheLoopMoves
  <2>3. Toll' <= Toll /\ InBatch' <= InBatch /\ Waiting' \subseteq Waiting
    BY <1>2, <1>3, <2>1
  <2> QED
    BY <1>2, <1>3, <1>4, <1>5, <2>1, <2>2, <2>3
<1>12. ~RunForever /\ ~Interrupt
  BY DEF RunForever, Interrupt, LeaveLoop
<1> QED
  BY <1>6, <1>7, <1>8, <1>9, <1>10, <1>11, <1>12 DEF Next, LoopStep

\* A loop of which nothing new is asked comes to its end: the argument for
\* Termination, whatever handles, deadlines and limits there are (run_forever and
\* _run_once).
THEOREM LoadsFall == Spec => LoadFalls
<1>1. IInv /\ [Next]_vars =>
         [mode # "idle" /\ mode' # "idle" /\ Owed' \subseteq Owed =>
            /\ Load \in Nat /\ Load' \in Nat /\ Load' <= Load
            /\ LoopStep \/ Finish => Load' < Load]_vars
  BY LoadStep
<1> QED
  BY <1>1, InvariantHolds, PTL DEF Spec, LoadFalls

LEMMA PlaceStep ==
    ASSUME IInv, [Next]_vars, mode # "idle", mode' # "idle",
           NEW h \in Handles, InLine(h), h \in Owed'
    PROVE  /\ InLine(h)' /\ Place(h) \in Nat /\ Place(h)' \in Nat /\ Place(h)' <= Place(h)
           /\ LoopStep \/ Finish => Place(h)' < Place(h)
<1>1. TypeOK /\ TypeOK' /\ Consistent
  BY NextIInv DEF IInv
<1>2. Most \in Nat /\ Toll \in Nat /\ Toll' \in Nat /\ Toll <= Most /\ Toll' <= Most
  BY <1>1, Counts, CountsNext DEF Toll, Most
<1>3. /\ mode = "run" \/ (mode = "poll" /\ left = {} /\ h \in ready)
      /\ mode' = "run" \/ mode' = "poll"
  BY <1>1 DEF TypeOK, Consistent, InLine
<1>4. /\ h \in left => Place(h) = Toll
      /\ h \notin left /\ mode = "run" => Place(h) = Toll + Most + 1
      /\ h \notin left /\ mode = "poll" => Place(h) = Most
  BY DEF Place
<1>5. /\ h \in left' => Place(h)' = Toll'
      /\ h \notin left' /\ mode' = "run" => Place(h)' = Toll' + Most + 1
      /\ h \notin left' /\ mode' = "poll" => Place(h)' = Most
  BY DEF Place, Most
<1>6. ASSUME h \in ready' \cup left', Place(h)' <= Place(h),
             LoopStep \/ Finish => Place(h)' < Place(h)
      PROVE  /\ InLine(h)' /\ Place(h) \in Nat /\ Place(h)' \in Nat /\ Place(h)' <= Place(h)
             /\ LoopStep \/ Finish => Place(h)' < Place(h)
  BY <1>2, <1>3, <1>4, <1>5, <1>6 DEF InLine
<1>7. CASE User
  <2>1. UNCHANGED <<left, running, mode>> /\ ready \subseteq ready'
    BY <1>7, UserKeepsTheBatch
  <2>2. Toll' = Toll /\ ~LoopStep /\ ~Finish
    BY <1>1, <2>1, OnlyTheLoopMoves DEF Toll
  <2>3. Place(h)' = Place(h)
    BY <1>3, <1>4, <1>5, <2>1, <2>2
  <2> QED
    BY <1>2, <1>3, <1>4, <1>6, <2>1, <2>2, <2>3 DEF InLine
<1>8. CASE Poll
  <2>1. PICK P \in Sweeps : Tick(P)
    BY <1>8 DEF Poll, RaiseTimeLimit, RaiseDeadlock, ReturnIdle, LeaveLoop
  <2>2. mode = "poll" /\ left = {} /\ ready \subseteq left' /\ running' = None
    BY <2>1, TickFillsTheBatch
  <2>3. h \in left' /\ h \notin left
    BY <2>2 DEF InLine
  <2>4. Toll' < Most
    <3>1. Cardinality(left') \in Nat /\ Cardinality(left') <= Cardinality(Handles)
      BY <1>1, CountsNext
    <3>2. Toll' = 2 * Cardinality(left')
      BY <2>2, <3>1 DEF Toll
    <3>3. Cardinality(Handles) \in Nat
      BY <1>1, Counts
    <3> QED
      BY <3>1, <3>2, <3>3 DEF Most
  <2>5. Place(h)' < Place(h)
    BY <1>4, <1>5, <2>2, <2>3, <2>4
  <2> QED
    BY <1>2, <1>3, <1>4, <1>5, <1>6, <2>3, <2>5
<1>9. CASE Visit
  <2>1. /\ mode = "run" /\ mode' = "run" /\ ready' = ready
        /\ \E g \in left : (left' = left \ {g}) /\ g \notin Owed'
    BY <1>9, VisitTakesOne
  <2>2. h \in left' <=> h \in left
    BY <2>1
  <2>3. Toll' < Toll
    BY <1>1, <1>9, VisitLowersToll
  <2>4. Place(h)' < Place(h)
    BY <1>2, <1>4, <1>5, <2>1, <2>2, <2>3
  <2> QED
    BY <1>2, <1>3, <1>4, <1>5, <1>6, <2>1, <2>2, <2>4 DEF InLine
<1>10. CASE Finish
  <2>1. UNCHANGED <<left, mode, ready>> /\ running # None /\ running' = None
    BY <1>10, FinishAndEndTick
  <2>2. Toll' < Toll
    <3>1. Cardinality(left) \in Nat
      BY <1>1, Counts
    <3> QED
      BY <2>1, <3>1 DEF Toll
  <2>3. Place(h)' < Place(h)
    <3>1. mode = "run"
      BY <1>1, <2>1 DEF Consistent
    <3> QED
      BY <1>2, <1>4, <1>5, <2>1, <2>2, <3>1
  <2> QED
    BY <1>2, <1>3, <1>4, <1>5, <1>6, <2>1, <2>3 DEF InLine
<1>11. CASE EndTick
  <2>1. mode = "run" /\ mode' = "poll" /\ left = {} /\ left' = {} /\ ready' = ready
    BY <1>11, FinishAndEndTick
  <2>2. Place(h)' < Place(h)
    BY <1>2, <1>4, <1>5, <2>1
  <2> QED
    BY <1>2, <1>3, <1>4, <1>5, <1>6, <2>1, <2>2 DEF InLine
<1>12. CASE UNCHANGED vars
  <2>1. UNCHANGED <<left, mode, ready, running>>
    BY <1>12 DEF vars, queues, tick, life
  <2>2. Toll' = Toll /\ ~LoopStep /\ ~Finish
    BY <1>1, <2>1, OnlyTheLoopMoves DEF Toll
  <2>3. Place(h)' = Place(h)
    BY <1>3, <1>4, <1>5, <2>1, <2>2
  <2> QED
    BY <1>2, <1>3, <1>4, <1>6, <2>1, <2>2, <2>3 DEF InLine
<1>13. ~RunForever /\ ~Interrupt
  BY DEF RunForever, Interrupt, LeaveLoop
<1> QED
  BY <1>7, <1>8, <1>9, <1>10, <1>11, <1>12, <1>13 DEF Next, LoopStep

\* No callback is starved: the argument for NoStarvation, however many callbacks there
\* are and whatever they queue (the _ready queue of _run_once is taken as a whole).
THEOREM PlacesAlwaysFall == Spec => PlacesFall
<1>1. IInv /\ [Next]_vars =>
         [\A h \in Handles : mode # "idle" /\ mode' # "idle" /\ InLine(h) /\ h \in Owed' =>
            /\ InLine(h)' /\ Place(h) \in Nat /\ Place(h)' \in Nat /\ Place(h)' <= Place(h)
            /\ LoopStep \/ Finish => Place(h)' < Place(h)]_vars
  BY PlaceStep
<1> QED
  BY <1>1, InvariantHolds, PTL DEF Spec, PlacesFall
=============================================================================
