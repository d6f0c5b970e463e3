--------------------------- MODULE Campaign_proofs ---------------------------
(***************************************************************************)
(* What TLAPS proves of Campaign, for any mixer of seeds, any scenario and *)
(* any number of iterations and calls: a call simulates what it was asked  *)
(* for, in order, until the first failure; a failure comes back; and it    *)
(* shows the end of its log.  With the mixer of the code, no two           *)
(* iterations have the same seed; with draws that are fine enough, no      *)
(* order of a batch is likelier than another.                              *)
(*                                                                         *)
(* The log is made by recursion.  The induction about it is from a least   *)
(* counterexample (LeastMember).                                           *)
(***************************************************************************)
EXTENDS MCCampaign, Rng_proofs

Runs == [seed : Nat, iteration : Nat, traced : BOOLEAN]

\* What was configured.
Configured ==
    /\ config.seed \in Bases /\ config.iterations \in 0 .. MaxIterations
    /\ config.trace \in BOOLEAN
    /\ env.iterations \in {Unset} \cup 0 .. MaxIterations

\* So far no iteration of the call under way has failed, and each was simulated once.
InTurn ==
    running /\ ~Pinned =>
        /\ iteration \in 0 .. Iterations
        /\ ran \in Seq(Runs) /\ Len(ran) = iteration
        /\ \A i \in 0 .. iteration - 1 :
              seed_for(i) \notin Reliable /\ ran[i + 1].seed = seed_for(i)

CampaignInv == Configured /\ InTurn

LEMMA IterationsBounded ==
    ASSUME Configured, ~Pinned
    PROVE  Iterations \in Nat /\ Iterations <= MaxIterations
  BY CampaignAssumption DEF Configured, Iterations, Unset

LEMMA SeedsAreNumbers ==
    ASSUME Configured, NEW i \in 0 .. MaxIterations - 1
    PROVE  seed_for(i) \in Nat
  BY CampaignAssumption DEF Configured, seed_for

\* An iteration that may pass adds one to what was simulated.
LEMMA PassesInTurn ==
    ASSUME CampaignInv, running, ~Pinned, iteration < Iterations,
           Passes(seed_for(iteration), iteration)
    PROVE  /\ ran' \in Seq(Runs) /\ Len(ran') = iteration + 1
           /\ \A i \in 0 .. iteration :
                 seed_for(i) \notin Reliable /\ ran'[i + 1].seed = seed_for(i)
<1>1. /\ iteration \in Nat /\ ran \in Seq(Runs) /\ Len(ran) = iteration
      /\ iteration \in 0 .. MaxIterations - 1
      /\ \A i \in 0 .. iteration - 1 :
            seed_for(i) \notin Reliable /\ ran[i + 1].seed = seed_for(i)
  BY IterationsBounded, CampaignAssumption DEF CampaignInv, InTurn
<1>2. PICK r \in Runs : r.seed = seed_for(iteration) /\ ran' = Append(ran, r)
  BY <1>1, SeedsAreNumbers DEF Passes, Simulated, Runs, CampaignInv, Configured
<1>3. seed_for(iteration) \notin Reliable
  BY DEF Passes, MayPass, Reliable
<1>4. ran' \in Seq(Runs) /\ Len(ran') = iteration + 1 /\ ran'[iteration + 1] = r
  BY <1>1, <1>2
<1>5. ASSUME NEW i \in 0 .. iteration
      PROVE  seed_for(i) \notin Reliable /\ ran'[i + 1].seed = seed_for(i)
  <2>1. CASE i = iteration
    BY <1>2, <1>3, <1>4, <2>1
  <2>2. CASE i # iteration
    <3>1. i \in 0 .. iteration - 1 /\ ran'[i + 1] = ran[i + 1]
      BY <1>1, <1>2, <2>2
    <3> QED
      BY <1>1, <3>1
  <2> QED
    BY <2>1, <2>2
<1> QED
  BY <1>4, <1>5

\* One that fails adds two.
LEMMA FailsInTurn ==
    ASSUME CampaignInv, running, ~Pinned, iteration < Iterations,
           Fails(seed_for(iteration), iteration)
    PROVE  /\ Len(ran') = iteration + 2
           /\ \A i \in 0 .. iteration - 1 :
                 seed_for(i) \notin Reliable /\ ran'[i + 1].seed = seed_for(i)
           /\ ran'[iteration + 1].seed = seed_for(iteration)
           /\ ran'[iteration + 2].seed = seed_for(iteration)
           /\ ran'[iteration + 2].traced
<1>1. /\ iteration \in Nat /\ ran \in Seq(Runs) /\ Len(ran) = iteration
      /\ iteration \in 0 .. MaxIterations - 1
      /\ \A i \in 0 .. iteration - 1 :
            seed_for(i) \notin Reliable /\ ran[i + 1].seed = seed_for(i)
  BY IterationsBounded, CampaignAssumption DEF CampaignInv, InTurn
<1>2. PICK r \in Runs, q \in Runs :
         /\ r.seed = seed_for(iteration) /\ q.seed = seed_for(iteration) /\ q.traced
         /\ ran' = ran \o <<r, q>>
  BY <1>1, SeedsAreNumbers DEF Fails, Simulated, Runs, CampaignInv, Configured
<1>3. /\ Len(ran') = iteration + 2
      /\ ran'[iteration + 1] = r /\ ran'[iteration + 2] = q
      /\ \A i \in 0 .. iteration - 1 : ran'[i + 1] = ran[i + 1]
  BY <1>1, <1>2
<1> QED
  BY <1>1, <1>2, <1>3

\* What a failure says.
LEMMA FailsSays ==
    ASSUME NEW seed, NEW i, Fails(seed, i)
    PROVE  result'.verdict = "failed" /\ result'.seed = seed /\ result'.iteration = i
<1>1. PICK traced : result' = Failure(seed, i, traced)
  BY Zenon DEF Fails
<1> QED
  BY <1>1 DEF Failure

\* What a step that ends a call without a pinned seed comes to.
LEMMA HowCallsEnd ==
    ASSUME CampaignInv, Next, Ends, ~Pinned
    PROVE  \/ /\ RunNext /\ iteration < Iterations
              /\ Fails(seed_for(iteration), iteration)
           \/ RunEnds
<1>1. ~Call /\ ~RunPinned /\ ~ReplayRun /\ ~ReplayIteration
  BY DEF Call, RunPinned, ReplayRun, ReplayIteration, RunSeed, Ends
<1>2. ASSUME RunNext
      PROVE  iteration < Iterations /\ Fails(seed_for(iteration), iteration)
  BY <1>2 DEF RunNext, Ends
<1> QED
  BY <1>1, <1>2 DEF Next

LEMMA CampaignInvStep ==
    ASSUME CampaignInv, [Next]_vars
    PROVE  CampaignInv'
<1> USE DEF Pinned, Iterations, seed_for, Reliable
<1>1. CASE Call
  <2>1. Configured'
    BY <1>1 DEF Call, CampaignInv, Configured
  <2>2. ran' \in Seq(Runs) /\ Len(ran') = 0 /\ iteration' = 0
    BY <1>1 DEF Call
  <2>3. ~Pinned' => Iterations' \in Nat
    BY <2>1, CampaignAssumption DEF Configured, Unset
  <2> QED
    BY <2>1, <2>2, <2>3 DEF CampaignInv, InTurn
<1>2. CASE RunNext /\ running'
  <2>1. /\ running /\ ~Pinned /\ iteration < Iterations /\ iteration' = iteration + 1
        /\ UNCHANGED <<config, scenario, env>>
        /\ Passes(seed_for(iteration), iteration)
    BY <1>2 DEF RunNext, Fails
  <2>2. /\ ran' \in Seq(Runs) /\ Len(ran') = iteration + 1
        /\ \A i \in 0 .. iteration :
              seed_for(i) \notin Reliable /\ ran'[i + 1].seed = seed_for(i)
    BY <2>1, PassesInTurn
  <2>3. iteration \in Nat /\ Iterations \in Nat /\ Iterations' = Iterations
    BY <2>1, IterationsBounded DEF CampaignInv, InTurn
  <2> QED
    BY <2>1, <2>2, <2>3 DEF CampaignInv, Configured, InTurn
<1>3. CASE ~running' /\ UNCHANGED <<config, env>>
  BY <1>3 DEF CampaignInv, Configured, InTurn
<1>4. CASE UNCHANGED vars
  BY <1>4 DEF vars, CampaignInv, Configured, InTurn
<1>5. CASE RunPinned \/ RunEnds \/ RunNext
  <2>1. UNCHANGED <<config, env>>
    BY <1>5 DEF RunPinned, RunEnds, RunNext
  <2>2. RunPinned \/ RunEnds => ~running'
    BY DEF RunPinned, RunEnds, Return, Fails
  <2> QED
    BY <1>2, <1>3, <1>5, <2>1, <2>2
<1>6. CASE ReplayRun \/ ReplayIteration
  BY <1>3, <1>6 DEF ReplayRun, ReplayIteration, RunSeed
<1> QED
  BY <1>1, <1>4, <1>5, <1>6 DEF Next

LEMMA CampaignInvInit == Init => CampaignInv
  BY DEF Init, CampaignInv, Configured, InTurn, Unset

LEMMA StutteringEndsNothing ==
    ASSUME UNCHANGED vars
    PROVE  ~Ends
<1>1. running' = running
  BY DEF vars
<1> QED
  BY <1>1, Zenon DEF Ends

\* What is always so of a campaign.
THEOREM CampaignInvariant == Spec => []CampaignInv
<1> QED
  BY CampaignInvInit, CampaignInvStep, PTL DEF Spec

\* What a step that ends a call shows of the iterations.
LEMMA EndsInTurn ==
    ASSUME CampaignInv, Next, Ends, ~Pinned
    PROVE  LET passed == result'.verdict = "passed"
               before == IF passed THEN Iterations ELSE result'.iteration
           IN  /\ Len(ran') = IF passed THEN before ELSE before + 2
               /\ \A i \in 0 .. before - 1 :
                     seed_for(i) \notin Reliable /\ ran'[i + 1].seed = seed_for(i)
               /\ ~passed => /\ ran'[before + 1].seed = ran'[before + 2].seed
                             /\ ran'[before + 2].traced
<1>1. running
  BY DEF Ends
<1>2. CASE RunEnds
  <2>1. result'.verdict = "passed" /\ ran' = ran /\ iteration >= Iterations
    BY <1>2 DEF RunEnds, Return, NoFailure
  <2>2. iteration = Iterations
    BY <1>1, <2>1, IterationsBounded DEF CampaignInv, InTurn
  <2> QED
    BY <1>1, <2>1, <2>2 DEF CampaignInv, InTurn
<1>3. CASE iteration < Iterations /\ Fails(seed_for(iteration), iteration)
  <2>1. result'.verdict = "failed" /\ result'.iteration = iteration
    BY <1>3, FailsSays
  <2> QED
    BY <1>1, <1>3, <2>1, FailsInTurn
<1> QED
  BY <1>2, <1>3, HowCallsEnd

\* "Stops at the first failure": a call that passes simulated all it was asked for,
\* and one that fails, all up to the first that does not pass.
THEOREM FailuresAreFound == Spec => NoFailureIsMissed
<1>1. CampaignInv /\ [Next]_vars =>
         (Ends /\ ~Pinned =>
            LET passed == result'.verdict = "passed"
                before == IF passed THEN Iterations ELSE result'.iteration
            IN  /\ Len(ran') = IF passed THEN before ELSE before + 2
                /\ \A i \in 0 .. before - 1 :
                      seed_for(i) \notin Reliable /\ ran'[i + 1].seed = seed_for(i)
                /\ ~passed => /\ ran'[before + 1].seed = ran'[before + 2].seed
                              /\ ran'[before + 2].traced)
  <2>1. Ends => ~UNCHANGED vars
    BY StutteringEndsNothing
  <2> QED
    BY <2>1, EndsInTurn
<1> QED
  BY <1>1, CampaignInvariant, PTL DEF Spec, NoFailureIsMissed

LEMMA EndsWithTheSeed ==
    ASSUME CampaignInv, Next, Ends
    PROVE  IF Pinned
           THEN env.seed \in printed \cap Reliable =>
                   result'.verdict = "failed" /\ result'.seed = env.seed
           ELSE result'.verdict = "failed" =>
                   result'.seed = seed_for(result'.iteration)
<1>1. CASE Pinned
  <2>1. RunPinned
    BY <1>1 DEF Next, Call, RunNext, RunEnds, ReplayRun, ReplayIteration, RunSeed, Ends
  <2>2. env.seed \in Reliable => Fails(env.seed, 0)
    BY <2>1 DEF RunPinned, Passes, MayPass, Reliable
  <2> QED
    BY <1>1, <2>2, FailsSays
<1>2. CASE ~Pinned
  <2>1. RunEnds => result'.verdict = "passed"
    BY DEF RunEnds, Return, NoFailure
  <2>2. Fails(seed_for(iteration), iteration) =>
           result'.seed = seed_for(iteration) /\ result'.iteration = iteration
    BY FailsSays
  <2> QED
    BY <1>2, <2>1, <2>2, HowCallsEnd
<1> QED
  BY <1>1, <1>2

\* A failure can be had again from the seed it printed, whatever ASKEW_ITERATIONS
\* says; and the iteration it names has that seed.
THEOREM FailuresAreReproduced == Spec => FailuresComeBack
<1>1. CampaignInv /\ [Next]_vars =>
         (Ends => IF Pinned
                  THEN env.seed \in printed \cap Reliable =>
                          result'.verdict = "failed" /\ result'.seed = env.seed
                  ELSE result'.verdict = "failed" =>
                          result'.seed = seed_for(result'.iteration))
  <2>1. Ends => ~UNCHANGED vars
    BY StutteringEndsNothing
  <2> QED
    BY <2>1, EndsWithTheSeed
<1> QED
  BY <1>1, CampaignInvariant, PTL DEF Spec, FailuresComeBack

-----------------------------------------------------------------------------
(* The event log.                                                          *)

Least(a, b) == IF a < b THEN a ELSE b

\* The last m of n events.
LastOf(m, n) == [k \in 1 .. m |-> n - m + k]

LEMMA IsLastOf ==
    ASSUME NEW s \in Seq(Int), NEW m \in Nat, NEW n \in Nat, Len(s) = m,
           \A k \in 1 .. m : s[k] = n - m + k
    PROVE  s = LastOf(m, n)
<1>1. s = [k \in 1 .. m |-> s[k]]
  OBVIOUS
<1> QED
  BY <1>1 DEF LastOf

\* One more event for a log that has the last ones.
LEMMA AddToTheLast ==
    ASSUME config.limit \in Nat, NEW n \in Nat \ {0}
    PROVE  Add(LastOf(Least(n - 1, config.limit), n - 1), n) = LastOf(Least(n, config.limit), n)
<1> DEFINE m   == Least(n - 1, config.limit)
           all == Append(LastOf(m, n - 1), n)
<1>1. m \in Nat /\ m <= n - 1 /\ m <= config.limit
  BY DEF Least
<1>2. LastOf(m, n - 1) \in Seq(Int) /\ Len(LastOf(m, n - 1)) = m
  BY <1>1 DEF LastOf
<1>3. all \in Seq(Int) /\ Len(all) = m + 1 /\ \A k \in 1 .. m + 1 : all[k] = n - 1 - m + k
  BY <1>1, <1>2 DEF LastOf
<1> HIDE DEF all, m
<1>4. CASE m + 1 > config.limit
  <2>1. m = config.limit /\ Least(n, config.limit) = m
    BY <1>1, <1>4 DEF Least, m
  <2>2. Tail(all) \in Seq(Int) /\ Len(Tail(all)) = m
        /\ \A k \in 1 .. m : Tail(all)[k] = n - m + k
    BY <1>1, <1>3
  <2>3. Tail(all) = LastOf(m, n)
    BY <1>1, <2>2, IsLastOf
  <2> QED
    BY <1>3, <1>4, <2>1, <2>3 DEF Add, all, m
<1>5. CASE ~(m + 1 > config.limit)
  <2>1. m = n - 1 /\ Least(n, config.limit) = m + 1
    BY <1>1, <1>5 DEF Least, m
  <2>2. all = LastOf(m + 1, n)
    <3>1. \A k \in 1 .. m + 1 : all[k] = n - (m + 1) + k
      BY <1>1, <1>3
    <3> QED
      BY <1>1, <1>3, <3>1, IsLastOf
  <2> QED
    BY <1>3, <1>5, <2>1, <2>2 DEF Add, all, m
<1> QED
  BY <1>4, <1>5

\* The log is well defined: the last events make a solution of its recursion.
LEMMA LoggedDefinition ==
    ASSUME config.limit \in Nat
    PROVE  Logged = [n \in Nat |-> IF n = 0 THEN << >> ELSE Add(Logged[n - 1], n)]
<1> DEFINE Solves(f) == f = [n \in Nat |-> IF n = 0 THEN << >> ELSE Add(f[n - 1], n)]
           last == [n \in Nat |-> LastOf(Least(n, config.limit), n)]
<1>1. ASSUME NEW n \in Nat
      PROVE  last[n] = IF n = 0 THEN << >> ELSE Add(last[n - 1], n)
  <2>1. CASE n = 0
    BY <2>1 DEF LastOf, Least
  <2>2. CASE n # 0
    <3>1. n - 1 \in Nat /\ n \in Nat \ {0}
      BY <2>2
    <3> QED
      BY <2>2, <3>1, AddToTheLast
  <2> QED
    BY <2>1, <2>2
<1>2. Solves(last)
  <2> HIDE DEF last
  <2>1. last = [n \in Nat |-> last[n]]
    BY DEF last
  <2> QED
    BY <1>1, <2>1
<1>3. \E f : Solves(f)
  BY <1>2
<1>4. Logged = CHOOSE f : Solves(f)
  BY DEF Logged
<1> HIDE DEF Solves
<1>5. Solves(Logged)
  BY <1>3, <1>4
<1> QED
  BY <1>5 DEF Solves

\* The log has the last events, as many as its limit.
LEMMA LoggedIsTheLast ==
    ASSUME config.limit \in Nat, NEW n \in Nat
    PROVE  Logged[n] = LastOf(Least(n, config.limit), n)
<1> DEFINE Others == {k \in Nat : Logged[k] # LastOf(Least(k, config.limit), k)}
<1>1. Others = {}
  <2> SUFFICES ASSUME Others # {} PROVE FALSE
    OBVIOUS
  <2>1. PICK k \in Others : \A j \in Others : k <= j
    BY LeastMember
  <2>2. CASE k = 0
    <3>1. Logged[k] = << >>
      BY <2>2, LoggedDefinition
    <3> QED
      BY <2>1, <2>2, <3>1 DEF LastOf, Least
  <2>3. CASE k # 0
    <3>1. k - 1 \in Nat /\ k \in Nat \ {0} /\ k - 1 \notin Others
      BY <2>1, <2>3
    <3>2. Logged[k] = Add(Logged[k - 1], k)
      BY <2>3, <3>1, LoggedDefinition
    <3> QED
      BY <2>1, <3>1, <3>2, AddToTheLast
  <2> QED
    BY <2>2, <2>3
<1> QED
  BY <1>1

\* The tail of it has the last ones of those.
LEMMA TailOfTheLast ==
    ASSUME NEW m \in Nat, NEW n \in Nat, NEW count \in Nat
    PROVE  LogTail(LastOf(m, n), count) = LastOf(Least(m, count), n)
<1>1. LastOf(m, n) \in Seq(Int) /\ Len(LastOf(m, n)) = m
  BY DEF LastOf
<1>2. CASE m > count
  <2>1. LogTail(LastOf(m, n), count) = SubSeq(LastOf(m, n), m - count + 1, m)
    BY <1>1, <1>2 DEF LogTail
  <2>2. SubSeq(LastOf(m, n), m - count + 1, m) = LastOf(count, n)
    BY <1>1, <1>2 DEF LastOf
  <2> QED
    BY <1>2, <2>1, <2>2 DEF Least
<1>3. CASE ~(m > count)
  <2>1. LogTail(LastOf(m, n), count) = SubSeq(LastOf(m, n), 1, m)
    BY <1>1, <1>3 DEF LogTail
  <2>2. SubSeq(LastOf(m, n), 1, m) = LastOf(m, n)
    BY <1>1 DEF LastOf
  <2>3. Least(m, count) = m
    BY <1>3 DEF Least
  <2> QED
    BY <2>1, <2>2, <2>3
<1> QED
  BY <1>2, <1>3

\* What the log and the report may hold does not change, nor what a scenario logs.
Counted == config.limit \in Nat /\ config.lines \in Nat /\ scenario.events \in Nat

ShowInv == CampaignInv /\ Counted /\ FailureShowsTheEnd

\* A failure of an iteration with the log on shows the last of its events.
LEMMA TracedShowsTheEnd ==
    ASSUME Counted, NEW seed, NEW i
    PROVE  LET least == CHOOSE k \in {config.limit, config.lines, scenario.events} :
                           \A j \in {config.limit, config.lines, scenario.events} : k <= j
           IN  Failure(seed, i, TRUE).events
                  = [k \in 1 .. least |-> scenario.events - least + k]
<1> DEFINE bounds == {config.limit, config.lines, scenario.events}
           least  == CHOOSE k \in bounds : \A j \in bounds : k <= j
           m      == Least(scenario.events, config.limit)
<1>1. m \in Nat /\ Least(m, config.lines) \in bounds
      /\ \A j \in bounds : Least(m, config.lines) <= j
  BY DEF Counted, Least
<1>2. least \in bounds /\ \A j \in bounds : least <= j
  <2> HIDE DEF bounds
  <2> QED
    BY <1>1
<1>3. least = Least(m, config.lines)
  <2>1. bounds \subseteq Nat
    BY DEF Counted
  <2> HIDE DEF bounds, least, m
  <2>2. least <= Least(m, config.lines) /\ Least(m, config.lines) <= least
    BY <1>1, <1>2
  <2>3. least \in Nat /\ Least(m, config.lines) \in Nat
    BY <1>1, <1>2, <2>1
  <2> QED
    BY <2>2, <2>3
<1>4. Failure(seed, i, TRUE).events = LogTail(Logged[scenario.events], config.lines)
  BY DEF Failure, Log
<1>5. LogTail(Logged[scenario.events], config.lines)
         = LastOf(Least(m, config.lines), scenario.events)
  <2>1. Logged[scenario.events] = LastOf(m, scenario.events)
    BY LoggedIsTheLast DEF Counted
  <2> QED
    BY <1>1, <2>1, TailOfTheLast DEF Counted
<1> QED
  BY <1>3, <1>4, <1>5 DEF LastOf

\* One with the log off shows none.
LEMMA UntracedShowsNothing ==
    ASSUME Counted, NEW seed, NEW i
    PROVE  Failure(seed, i, FALSE).events = << >>
<1>1. Failure(seed, i, FALSE).events = LogTail(<< >>, config.lines)
  BY DEF Failure, Log
<1>2. LogTail(<< >>, config.lines) = << >>
  BY DEF LogTail, Counted
<1> QED
  BY <1>1, <1>2

LEMMA ShowInvStep ==
    ASSUME ShowInv, [Next]_vars
    PROVE  ShowInv'
<1> DEFINE bounds == {config.limit, config.lines, scenario.events}
           least  == CHOOSE k \in bounds : \A j \in bounds : k <= j
           shown  == [k \in 1 .. least |-> scenario.events - least + k]
<1>1. CampaignInv'
  BY CampaignInvStep DEF ShowInv
<1>2. UNCHANGED <<config, scenario>>
  BY DEF Next, Call, RunPinned, RunNext, RunEnds, ReplayRun, ReplayIteration, RunSeed, vars
<1>3. Counted'
  BY <1>2 DEF ShowInv, Counted
<1>4. ASSUME NEW seed, NEW i
      PROVE  Failure(seed, i, TRUE).events = shown /\ Failure(seed, i, FALSE).events = << >>
  BY TracedShowsTheEnd, UntracedShowsNothing DEF ShowInv
<1> HIDE DEF shown
<1>5. result'.verdict = "failed" =>
         \/ result' = result
         \/ result'.events = shown
         \/ result'.events = << >> /\ result'.seed \in scenario.flaky
  <2>1. ASSUME NEW seed, NEW i, Fails(seed, i)
        PROVE  \/ result'.events = shown
               \/ result'.events = << >> /\ result'.seed \in scenario.flaky
    <3>1. CASE result' = Failure(seed, i, TRUE)
      BY <1>4, <3>1
    <3>2. CASE MayPass(seed) /\ result' = Failure(seed, i, config.trace)
      <4>1. config.trace \in BOOLEAN
        BY DEF ShowInv, CampaignInv, Configured
      <4>2. seed \in scenario.flaky
        BY <2>1, <3>2 DEF Fails, MayFail, MayPass
      <4>3. result' = Failure(seed, i, TRUE) \/ result' = Failure(seed, i, FALSE)
        BY <3>2, <4>1, Zenon
      <4> QED
        BY <1>4, <2>1, <4>2, <4>3, FailsSays
    <3> QED
      BY <2>1, <3>1, <3>2 DEF Fails
  <2>2. ASSUME NEW seed, RunSeed(seed), result'.verdict = "failed"
        PROVE  result'.events = shown
    <3>1. result' = NoFailure("passed") \/ result' = Failure(seed, 0, TRUE)
      BY <2>2 DEF RunSeed
    <3>2. NoFailure("passed").verdict = "passed"
      BY DEF NoFailure
    <3> QED
      BY <1>4, <2>2, <3>1, <3>2
  <2>3. Call \/ RunEnds => result'.verdict # "failed"
    BY DEF Call, RunEnds, Return, NoFailure
  <2>4. RunPinned => \/ result'.verdict # "failed"
                     \/ \E seed, i : Fails(seed, i)
    BY DEF RunPinned, Return, NoFailure
  <2>5. RunNext => result' = result \/ \E seed, i : Fails(seed, i)
    BY DEF RunNext
  <2>6. UNCHANGED vars => result' = result
    BY DEF vars
  <2> QED
    BY <2>1, <2>2, <2>3, <2>4, <2>5, <2>6 DEF Next, ReplayRun, ReplayIteration
<1>6. FailureShowsTheEnd'
  <2>1. result.verdict = "failed" =>
           \/ result.events = shown
           \/ result.events = << >> /\ result.seed \in scenario.flaky
    BY DEF ShowInv, FailureShowsTheEnd, shown
  <2>2. result'.verdict = "failed" =>
           \/ result'.events = shown
           \/ result'.events = << >> /\ result'.seed \in scenario.flaky
    BY <1>5, <2>1
  <2>3. config' = config /\ scenario' = scenario
    BY <1>2
  <2> QED
    BY <2>2, <2>3 DEF FailureShowsTheEnd, shown
<1> QED
  BY <1>1, <1>3, <1>6 DEF ShowInv

\* A failure shows the last events before it, as many as the log keeps and the
\* report asks for, and none only if the run with the log on passed.
THEOREM FailuresShowTheEnd == Spec => []FailureShowsTheEnd
<1>1. Init => ShowInv
  <2>1. Init => Counted
    BY CampaignAssumption DEF Init, Counted
  <2>2. Init => FailureShowsTheEnd
    BY DEF Init, NoFailure, FailureShowsTheEnd
  <2> QED
    BY <2>1, <2>2, CampaignInvInit DEF ShowInv
<1>2. ShowInv => FailureShowsTheEnd
  BY DEF ShowInv
<1> QED
  BY <1>1, <1>2, ShowInvStep, PTL DEF Spec

-----------------------------------------------------------------------------

\* The campaign mixes seeds as the code does.
MixerOfTheCode == \A base \in Bases, i \in Seeds : Mixed(base, i) = mix(base, i)

\* The base seed is set once for all.
LEMMA BaseIsKept ==
    ASSUME config.seed \in Bases, [MCNext]_<<size, vars>>
    PROVE  config'.seed \in Bases
<1>1. config' = config
  BY DEF MCNext, Next, vars, Call, RunPinned, RunNext, RunEnds, ReplayRun,
         ReplayIteration, RunSeed
<1> QED
  BY <1>1

LEMMA SeedsOfAllIndices ==
    ASSUME MixerOfTheCode, config.seed \in Bases
    PROVE  {seed_for(i) : i \in Seeds} = Seeds
<1> DEFINE f == [i \in Numbers |-> mix(config.seed, i)]
<1>1. config.seed \in Int
  <2>1. Bases \subseteq Int
    BY CampaignAssumption
  <2> HIDE DEF f
  <2> QED
    BY <2>1
<1>2. f \in Bijection(Numbers, Numbers)
  BY <1>1, MixPermutesSeeds
<1>3. \A i \in Numbers : f[i] \in Numbers
  <2> HIDE DEF f
  <2> QED
    BY <1>2 DEF Bijection, Surjection
<1>4. \A t \in Numbers : \E i \in Numbers : f[i] = t
  <2> HIDE DEF f
  <2> QED
    BY <1>2 DEF Bijection, Surjection
<1>5. Seeds = Numbers /\ \A i \in Seeds : seed_for(i) = f[i]
  BY DEF Seeds, Numbers, MixerOfTheCode, seed_for
<1> HIDE DEF f
<1> QED
  BY <1>3, <1>4, <1>5

\* With the mixer of the code, at any width and for any base seed, the iterations of a
\* run have all the values of a seed for their seeds, and no two have the same
\* (SimulationTest.seed_for).
THEOREM EverySeedOnce ==
    ASSUME MixerOfTheCode
    PROVE  MCSpec => []SeedsAreUnique
<1>1. MCInit => config.seed \in Bases
  BY DEF MCInit, Init
<1>2. config.seed \in Bases /\ [MCNext]_<<size, vars>> => (config.seed \in Bases)'
  BY BaseIsKept
<1>3. config.seed \in Bases => SeedsAreUnique
  BY SeedsOfAllIndices DEF SeedsAreUnique
<1> QED
  BY <1>1, <1>2, <1>3, PTL DEF MCSpec

-----------------------------------------------------------------------------
(* The draws that a batch is made of.                                      *)

\* The steps of a draw are fine enough for every bound of these batches.
FineDraws == \A k \in 1 .. 4 : Resolution % k = 0

LEMMA TheBatch ==
    ASSUME size \in 2 .. 4
    PROVE  /\ Batch = [i \in 1 .. size |-> i]
           /\ Batch \in Seq(1 .. size) /\ Len(Batch) = size
<1> DEFINE four == <<1, 2, 3, 4>>
<1>1. four \in Seq(Nat) /\ Len(four) = 4 /\ \A i \in 1 .. 4 : four[i] = i
  OBVIOUS
<1>2. Batch = SubSeq(four, 1, size)
  BY DEF Batch
<1> HIDE DEF four
<1>3. SubSeq(four, 1, size) = [i \in 1 .. size |-> four[i]]
  BY <1>1
<1>4. [i \in 1 .. size |-> four[i]] = [i \in 1 .. size |-> i]
  BY <1>1
<1>5. Batch = [i \in 1 .. size |-> i]
  BY <1>2, <1>3, <1>4
<1> QED
  BY <1>5

LEMMA OrdersOfTheBatch ==
    ASSUME size \in 2 .. 4
    PROVE  /\ \A p \in Rearrangements(size) : Rearranged(Batch, p) = p
           /\ Orders = Rearrangements(size) /\ OrdersOf(Batch) = Orders
<1>0. Batch = [i \in 1 .. size |-> i] /\ Len(Batch) = size
  BY TheBatch
<1>1. ASSUME NEW p \in Rearrangements(size)
      PROVE  Rearranged(Batch, p) = p
  <2>1. p \in [1 .. size -> 1 .. size]
    BY DEF Rearrangements
  <2>2. \A i \in 1 .. size : Batch[p[i]] = p[i]
    BY <1>0, <2>1
  <2> QED
    BY <1>0, <2>1, <2>2 DEF Rearranged
<1>2. ASSUME NEW s \in Orders
      PROVE  \A c \in 1 .. size : \E a \in 1 .. size : s[a] = c
  <2>1. IsFiniteSet(1 .. size)
    BY FS_Interval
  <2>2. s \in Injection(1 .. size, 1 .. size)
    BY DEF Orders, Injection, IsInjective
  <2>3. s \in Surjection(1 .. size, 1 .. size)
    BY <2>1, <2>2, FS_Injection
  <2> QED
    BY <2>3 DEF Surjection
<1>3. Orders = Rearrangements(size)
  BY <1>2 DEF Orders, Rearrangements
<1>4. OrdersOf(Batch) = Rearrangements(size)
  BY <1>0, <1>1 DEF OrdersOf
<1> QED
  BY <1>1, <1>3, <1>4

LEMMA DrawsOfABatchAreFair ==
    ASSUME FineDraws, size \in 2 .. 4
    PROVE  DrawsAreFair
<1>0. Batch = [i \in 1 .. size |-> i] /\ Batch \in Seq(1 .. size) /\ Len(Batch) = size
  BY TheBatch
<1>5. Batch \in Seq(1 .. size) /\ \A a, b \in 1 .. Len(Batch) : Batch[a] = Batch[b] => a = b
  BY TheBatch
<1>1. ASSUME NEW k \in 1 .. size PROVE Resolution % k = 0
  BY DEF FineDraws
<1>2. Fair([d \in Draws(size - 1) |-> Order("Random", Batch, d)], Orders)
  <2> DEFINE f == [d \in Draws(size - 1) |-> Order("Random", Batch, d)]
  <2>1. ASSUME NEW s \in Orders
        PROVE  Cardinality({d \in Draws(size - 1) : Order("Random", Batch, d) = s})
                 * Cardinality(Orders) = Cardinality(Draws(size - 1))
    <3>1. s \in OrdersOf(Batch) /\ OrdersOf(Batch) = Orders
      BY OrdersOfTheBatch
    <3>2. Cardinality({d \in Draws(Len(Batch) - 1) : Order("Random", Batch, d) = s})
            * Cardinality(OrdersOf(Batch)) = Cardinality(Draws(Len(Batch) - 1))
      <4>1. Len(Batch) # 0 /\ \A k \in 1 .. Len(Batch) : Resolution % k = 0
        BY <1>0, <1>1
      <4>2. \A batch, order :
               /\ batch \in Seq(1 .. size) /\ Len(batch) # 0
               /\ \A a, b \in 1 .. Len(batch) : batch[a] = batch[b] => a = b
               /\ \A k \in 1 .. Len(batch) : Resolution % k = 0
               /\ order \in OrdersOf(batch)
               => Cardinality({d \in Draws(Len(batch) - 1) : Order("Random", batch, d) = order})
                    * Cardinality(OrdersOf(batch)) = Cardinality(Draws(Len(batch) - 1))
        BY OrdersAreEquallyLikely
      <4> QED
        BY <1>5, <3>1, <4>1, <4>2, Zenon
    <3> QED
      BY <1>0, <3>1, <3>2
  <2>2. DOMAIN f = Draws(size - 1)
    OBVIOUS
  <2>3. \A s : {d \in DOMAIN f : f[d] = s} = {d \in Draws(size - 1) : Order("Random", Batch, d) = s}
    OBVIOUS
  <2> HIDE DEF f
  <2>4. Fair(f, Orders)
    BY <2>1, <2>2, <2>3 DEF Fair
  <2> QED
    BY <2>4 DEF f
<1>3. ASSUME NEW kind \in {"Fifo", "Reverse", "Partial"}, NEW d \in Draws(2 * Swaps(size))
      PROVE  Order(kind, Batch, d) \in Orders
  <2>1. \E p \in Rearrangements(size) : Order(kind, Batch, d) = Rearranged(Batch, p)
    <3>1. CASE kind = "Fifo"
      <4>1. Order(kind, Batch, d) = Batch
        BY <3>1 DEF Order
      <4> QED
        BY <1>0, <4>1, Unmoved
    <3>2. CASE kind = "Reverse"
      <4>1. Order(kind, Batch, d) = reverse(Batch)
        BY <3>2 DEF Order
      <4> QED
        BY <1>0, <4>1, ReverseRearranges
    <3>3. CASE kind = "Partial"
      <4>1. Order(kind, Batch, d) = partial(Batch, d)
        BY <3>3 DEF Order
      <4>2. 2 * Swaps(size) \in Nat /\ 2 * Swaps(Len(Batch)) <= 2 * Swaps(size)
        <5>1. Swaps(size) \in Nat
          BY RngAssumption, DivIs DEF Swaps
        <5> QED
          BY <1>0, <5>1
      <4>3. \A batch, m, draws :
               batch \in Seq(1 .. size) /\ m \in Nat /\ 2 * Swaps(Len(batch)) <= m /\ draws \in Draws(m)
               => \E p \in Rearrangements(Len(batch)) : partial(batch, draws) = Rearranged(batch, p)
        BY PartialRearranges
      <4>4. \E p \in Rearrangements(Len(Batch)) : partial(Batch, d) = Rearranged(Batch, p)
        BY <1>5, <4>2, <4>3, Zenon
      <4> QED
        BY <1>0, <4>1, <4>4, Zenon
    <3> QED
      BY <3>1, <3>2, <3>3
  <2> QED
    BY <2>1, OrdersOfTheBatch
<1>4. Fair([d \in Draws(2) |-> sample(Batch, 2, d)],
           {p \in (1 .. size) \X (1 .. size) : p[1] # p[2]})
  <2> DEFINE f == [d \in Draws(2) |-> sample(Batch, 2, d)]
             S == {p \in (1 .. size) \X (1 .. size) : p[1] # p[2]}
  <2>1. PairsOf(Batch) = S
    <3>1. \A p \in S : p = <<Batch[p[1]], Batch[p[2]]>>
      BY <1>0
    <3>2. PairsOf(Batch) = {<<Batch[p[1]], Batch[p[2]]>> : p \in S}
      BY <1>0, Zenon DEF PairsOf
    <3> HIDE DEF S
    <3> QED
      BY <3>1, <3>2
  <2> HIDE DEF S
  <2>2. ASSUME NEW s \in S
        PROVE  Cardinality({d \in Draws(2) : sample(Batch, 2, d) = s}) * Cardinality(S)
                 = Cardinality(Draws(2))
    <3>1. s \in PairsOf(Batch)
      BY <2>1
    <3>2. Len(Batch) >= 2 /\ Resolution % Len(Batch) = 0 /\ Resolution % (Len(Batch) - 1) = 0
      <4>1. size \in 1 .. size /\ size - 1 \in 1 .. size /\ size >= 2
        OBVIOUS
      <4> QED
        BY <1>0, <1>1, <4>1
    <3>3. Cardinality({d \in Draws(2) : sample(Batch, 2, d) = s}) * Cardinality(PairsOf(Batch))
            = Cardinality(Draws(2))
      <4>1. \A items, pair :
               /\ items \in Seq(1 .. size) /\ Len(items) >= 2
               /\ \A a, b \in 1 .. Len(items) : items[a] = items[b] => a = b
               /\ Resolution % Len(items) = 0 /\ Resolution % (Len(items) - 1) = 0
               /\ pair \in PairsOf(items)
               => Cardinality({d \in Draws(2) : sample(items, 2, d) = pair})
                    * Cardinality(PairsOf(items)) = Cardinality(Draws(2))
        BY PairsAreEquallyLikely
      <4> QED
        BY <1>5, <3>1, <3>2, <4>1, Zenon
    <3> QED
      BY <2>1, <3>3
  <2>3. DOMAIN f = Draws(2)
    OBVIOUS
  <2>4. \A s : {d \in DOMAIN f : f[d] = s} = {d \in Draws(2) : sample(Batch, 2, d) = s}
    OBVIOUS
  <2> HIDE DEF f
  <2>5. Fair(f, S)
    BY <2>2, <2>3, <2>4 DEF Fair
  <2> QED
    BY <2>5 DEF f, S
<1> QED
  BY <1>2, <1>3, <1>4 DEF DrawsAreFair

\* If the steps of a draw are so fine that all bounds divide their number, each order of
\* a batch comes of as many draws under RandomScheduler, the others keep a batch
\* together, and each sample of two comes of as many draws (rng.py, scheduler.py).
THEOREM EveryOrderAsLikely ==
    ASSUME FineDraws
    PROVE  MCSpec => []DrawsAreFair
<1>1. MCInit => size \in {0} \cup 2 .. 4
  BY DEF MCInit
<1>2. size \in {0} \cup 2 .. 4 /\ [MCNext]_<<size, vars>> => (size \in {0} \cup 2 .. 4)'
  BY DEF MCNext
<1>3. size \in {0} \cup 2 .. 4 => DrawsAreFair
  <2>1. size = 0 => DrawsAreFair
    BY DEF DrawsAreFair
  <2> QED
    BY <2>1, DrawsOfABatchAreFair
<1> QED
  BY <1>1, <1>2, <1>3, PTL DEF MCSpec
=============================================================================
