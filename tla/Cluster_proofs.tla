-------------------------- MODULE Cluster_proofs --------------------------
(***************************************************************************)
(* What TLAPS proves of Cluster, for any number of nodes and any links:    *)
(* the type invariant; that the splits do only what Partitions lets them   *)
(* do; that what the chaos loop has cut will be healed; that the list of   *)
(* the crashed is that of the nodes that are down, so that the chaos loop  *)
(* leaves a quorum; that the mailboxes of those are empty; that the books  *)
(* of the network balance; and that links are configured one way.          *)
(*                                                                         *)
(* Each proof starts from a lemma that sorts the steps into classes by     *)
(* what they do to the variables it is about: Classes, NodeClasses and     *)
(* TrafficClasses.                                                         *)
(***************************************************************************)
EXTENDS Cluster, Partitions_proofs, SequenceTheorems

\* The part of the type invariant that concerns splits and their timers.
TimersTyped ==
    /\ now \in Nat
    /\ active \in [Splits -> BOOLEAN]
    /\ heals \subseteq [split : ChaosSplits, at : Nat]

\* What a step does to the splits, to the clock and to the timers that heal:
\* the classes of steps that the proofs below tell apart.
Quiet     == UNCHANGED <<partitionVars, heals, now>>
Scenarist == /\ (\E p \in ScenarioSplits : Apply(p) \/ HealSplit(p)) \/ HealAll
             /\ UNCHANGED <<heals, now>>
Passing   == /\ UNCHANGED <<partitionVars, heals>>
             /\ \E t \in Nat : now < t /\ now' = t /\ \A h \in heals : t <= h.at
Cutting   == /\ UNCHANGED now
             /\ \E p \in ChaosSplits, d \in Durations :
                   /\ Apply(p)
                   /\ heals' = heals \cup {[split |-> p, at |-> now + d]}
Healing   == /\ UNCHANGED now
             /\ \E h \in heals :
                   /\ heals' = heals \ {h}
                   /\ \/ active[h.split] /\ HealSplit(h.split)
                      \/ ~active[h.split] /\ UNCHANGED partitionVars

\* Every step of a cluster is of one of these classes.
LEMMA Classes ==
    ASSUME [Next]_clusterVars
    PROVE  Quiet \/ Scenarist \/ Passing \/ Cutting \/ Healing
<1> USE DEF clusterVars, networkVars, faultVars, traffic, nodeVars
<1>1. CASE Traffic
  <2>1. ASSUME NEW s, NEW T, SendTo(s, T) PROVE UNCHANGED <<partitionVars, now>>
    BY <2>1 DEF SendTo, Dispatch
  <2>2. UNCHANGED <<partitionVars, now>>
    BY <1>1, <2>1 DEF Traffic, Send, Broadcast, Configure, Deliver, Receive
  <2> QED
    BY <1>1, <2>2 DEF Traffic, Quiet
<1>2. CASE Splitting
  BY <1>2 DEF Splitting, NetworkApply, NetworkHeal, NetworkHealAll, Scenarist
<1>3. CASE Time
  <2>1. PICK t \in 1 .. Horizon : PassTime(t, Deadlines)
    BY <1>3 DEF Time
  <2>2. \A h \in heals : t <= h.at
    BY <2>1 DEF PassTime, Deadlines
  <2> QED
    BY <1>3, <2>1, <2>2, NetworkAssumption DEF Time, PassTime, Passing
<1>4. CASE Faults
  <2>1. ASSUME NEW n \in Nodes, Spawn(n) \/ Crash(n) \/ Restart(n)
        PROVE  Quiet
    BY <2>1 DEF Spawn, Crash, Restart, Quiet
  <2>2. ASSUME StartChaos PROVE Quiet
    BY <2>2 DEF StartChaos, Quiet
  <2>3. ASSUME ChaosWake PROVE Quiet \/ Cutting
    BY <2>3 DEF ChaosWake, ChaosSplit, NewSplit, Quiet, Cutting
  <2>4. ASSUME NEW h \in heals, ChaosHeal(h) PROVE Healing
    BY <2>4 DEF ChaosHeal, HealSplit, Healing
  <2> QED
    BY <1>4, <2>1, <2>2, <2>3, <2>4 DEF Faults
<1>5. CASE UNCHANGED clusterVars
  BY <1>5 DEF Quiet
<1> QED
  BY <1>1, <1>2, <1>3, <1>4, <1>5 DEF Next

LEMMA TimersTypedInit == Init => TimersTyped
  BY DEF Init, NetworkInit, FaultsInit, PartitionsInit, TimersTyped

LEMMA TimersTypedStep ==
    ASSUME TimersTyped, [Next]_clusterVars
    PROVE  TimersTyped'
<1> USE DEF TimersTyped, partitionVars
<1>1. CASE Quiet
  BY <1>1 DEF Quiet
<1>2. CASE Scenarist
  BY <1>2, ClusterAssumption DEF Scenarist, Apply, HealSplit, HealAll
<1>3. CASE Passing
  BY <1>3 DEF Passing
<1>4. CASE Cutting
  <2>1. PICK p \in ChaosSplits, d \in Durations :
           Apply(p) /\ heals' = heals \cup {[split |-> p, at |-> now + d]}
    BY <1>4 DEF Cutting
  <2>2. active' \in [Splits -> BOOLEAN]
    BY <2>1 DEF Apply
  <2>3. [split |-> p, at |-> now + d] \in [split : ChaosSplits, at : Nat]
    BY ClusterAssumption
  <2> QED
    BY <1>4, <2>1, <2>2, <2>3 DEF Cutting
<1>5. CASE Healing
  BY <1>5 DEF Healing, HealSplit, ChaosSplits
<1> QED
  BY <1>1, <1>2, <1>3, <1>4, <1>5, Classes

\* The timers of the chaos loop are for splits of its own, in every state.
LEMMA TimersAreTyped == Spec => []TimersTyped
  BY TimersTypedInit, TimersTypedStep, PTL DEF Spec

LEMMA KeepsToPartitionsStep ==
    ASSUME TimersTyped, [Next]_clusterVars
    PROVE  [SplitStep \/ HealAll]_partitionVars
<1>1. CASE Scenarist
  BY <1>1, ClusterAssumption DEF Scenarist, SplitStep
<1>2. CASE Cutting
  BY <1>2 DEF Cutting, SplitStep, ChaosSplits
<1>3. CASE Healing
  BY <1>3 DEF Healing, SplitStep, ChaosSplits, TimersTyped
<1> QED
  BY <1>1, <1>2, <1>3, Classes DEF Quiet, Passing

\* A cluster does to its splits only what Partitions has them do: the methods
\* of Partition and Network are the only way to the list of groupings.
THEOREM ClusterKeepsToPartitions == Spec => PartitionsSpec
<1>1. Init => PartitionsInit
  BY DEF Init, NetworkInit
<1> QED
  BY <1>1, KeepsToPartitionsStep, TimersAreTyped, PTL DEF Spec, PartitionsSpec

\* So no run of a cluster, with or without chaos, leaves a grouping on the
\* network's list more often than there are active splits with it.
COROLLARY ClusterHasNoPhantoms == Spec => []NoPhantomSplit
  BY ClusterKeepsToPartitions, NoPhantoms, PTL

LEMMA ChaosIsHealedStep ==
    ASSUME TimersTyped, TimersTyped', ChaosIsHealed, [Next]_clusterVars
    PROVE  ChaosIsHealed'
<1> USE DEF TimersTyped, partitionVars, ChaosIsHealed
<1>1. CASE Quiet
  BY <1>1 DEF Quiet
<1>2. CASE Scenarist
  BY <1>2 DEF Scenarist, Apply, HealSplit, HealAll, ChaosSplits
<1>3. CASE Passing
  BY <1>3 DEF Passing
<1>4. CASE Cutting
  <2>1. PICK p \in ChaosSplits, d \in Durations :
           Apply(p) /\ heals' = heals \cup {[split |-> p, at |-> now + d]}
    BY <1>4 DEF Cutting
  <2>2. ASSUME NEW q \in ChaosSplits, active'[q]
        PROVE  \E h \in heals' : h.split = q /\ h.at >= now'
    <3>1. CASE q = p
      <4>1. [split |-> p, at |-> now + d].at >= now
        BY ClusterAssumption
      <4> QED
        BY <1>4, <2>1, <3>1, <4>1 DEF Cutting
    <3>2. CASE q # p
      <4>1. active[q]
        BY <2>1, <2>2, <3>2 DEF Apply, ChaosSplits
      <4> QED
        BY <1>4, <2>1, <4>1 DEF Cutting
    <3> QED
      BY <3>1, <3>2
  <2> QED
    BY <2>2
<1>5. CASE Healing
  BY <1>5 DEF Healing, HealSplit, ChaosSplits
<1> QED
  BY <1>1, <1>2, <1>3, <1>4, <1>5, Classes

\* A split of the chaos loop that is active has a timer ahead that heals it,
\* whatever the scenario applies, heals or crashes in between.
THEOREM ChaosWillBeHealed == Spec => []ChaosIsHealed
<1>1. Init => ChaosIsHealed
  BY DEF Init, NetworkInit, FaultsInit, PartitionsInit, ChaosIsHealed, ChaosSplits
<1> QED
  BY <1>1, ChaosIsHealedStep, TimersAreTyped, PTL DEF Spec

-----------------------------------------------------------------------------
(* Types.                                                                  *)

\* A link is what was configured or the default.
LEMMA LinkOfType ==
    ASSUME TypeOK, NEW s, NEW t
    PROVE  /\ LinkOf(s, t) \in LinkConfig
           /\ <<s, t>> \notin DOMAIN links => LinkOf(s, t) = DefaultLink
  BY NetworkAssumption DEF LinkOf, TypeOK

\* A send comes to no copy, one or two, with delays that the link allows.
LEMMA FateOf ==
    ASSUME NEW s, NEW t, NEW f \in Fates(s, t)
    PROVE  /\ Len(f) \in 0 .. 2 /\ DOMAIN f = 1 .. Len(f)
           /\ f = << >> <=> Len(f) = 0
           /\ \A i \in DOMAIN f : f[i] \in LinkOf(s, t).min .. LinkOf(s, t).max
<1> DEFINE Delays == LinkOf(s, t).min .. LinkOf(s, t).max
<1>1. \/ f = << >>
      \/ \E d \in Delays : f = <<d>>
      \/ \E d, e \in Delays : f = <<d, e>>
  BY DEF Fates, CopyDelays
<1>2. CASE f = << >>
  BY <1>2
<1>3. ASSUME NEW d \in Delays, f = <<d>>
      PROVE  Len(f) = 1 /\ DOMAIN f = 1 .. 1 /\ f[1] = d
  BY <1>3
<1>4. ASSUME NEW d \in Delays, NEW e \in Delays, f = <<d, e>>
      PROVE  Len(f) = 2 /\ DOMAIN f = 1 .. 2 /\ f[1] = d /\ f[2] = e
  BY <1>4
<1> QED
  BY <1>1, <1>2, <1>3, <1>4

\* The copies a send leaves behind, without the definitions of Dispatch.
Accepted(T, fate)   == {t \in T : fate[t] # << >>}
Doubled(T, fate)    == {t \in T : Len(fate[t]) = 2}
Sent(s, T, fate, t, i) ==
    [seq |-> Number(Accepted(T, fate), t), copy |-> i, source |-> s, target |-> t,
     sent_at |-> now, deliver_at |-> now + fate[t][1], at |-> now + fate[t][i]]

\* What is known of a step that sends.
Sending(s, T, fate) ==
    /\ s \in spawned /\ T \subseteq spawned
    /\ DOMAIN fate = T
    /\ \A t \in T : fate[t] \in Fates(s, t)
    /\ Dispatch(s, T, fate)
    /\ RaiseOnPartition =>
          \A t, u \in T : u < t => Reachable(s, u)

\* Send and broadcast are the steps that send.
LEMMA SendersDispatch ==
    ASSUME (\E s, t \in Nodes : Send(s, t)) \/ (\E s \in Nodes : Broadcast(s)),
           TypeOK
    PROVE  \E s \in Nodes, T \in SUBSET Nodes :
              \E fate \in [T -> UNION {Fates(s, t) : t \in T}] : Sending(s, T, fate)
<1> USE DEF SendTo, Sending
<1>0. spawned \subseteq Nodes /\ spawned \subseteq Nat
  BY NetworkAssumption DEF TypeOK
<1>1. CASE \E s, t \in Nodes : Send(s, t)
  <2>1. PICK s \in Nodes, t \in Nodes : Send(s, t)
    BY <1>1
  <2>2. \A u, v \in {t} : ~(u < v)
    BY NetworkAssumption
  <2> QED
    BY <1>0, <2>1, <2>2 DEF Send
<1>2. CASE \E s \in Nodes : Broadcast(s)
  <2>1. PICK s \in Nodes : Broadcast(s)
    BY <1>2
  <2> DEFINE T == {t \in spawned \ {s} :
                      RaiseOnPartition =>
                         \A u \in spawned \ {s} : u < t => Reachable(s, u)}
  <2>2. s \in spawned /\ SendTo(s, T)
    BY <2>1 DEF Broadcast
  <2>3. RaiseOnPartition => \A t, u \in T : u < t => Reachable(s, u)
    OBVIOUS
  <2> QED
    BY <1>0, <2>2, <2>3
<1> QED
  BY <1>1, <1>2

\* Numbers start above _seq and reach at most what _seq becomes.
LEMMA NumberBounds ==
    ASSUME seq \in Nat, NEW A \in SUBSET Nat, IsFiniteSet(A), NEW t \in A
    PROVE  /\ Number(A, t) \in Nat
           /\ seq < Number(A, t) /\ Number(A, t) <= seq + Cardinality(A)
<1> DEFINE B == {u \in A : u <= t}
<1>1. IsFiniteSet(B) /\ Cardinality(B) \in Nat /\ Cardinality(B) <= Cardinality(A)
  BY FS_Subset, FS_CardinalityType
<1>2. Cardinality(A) \in Nat
  BY FS_CardinalityType
<1>3. t \in B
  OBVIOUS
<1>4. Cardinality(B) # 0
  BY <1>1, <1>3, FS_EmptySet
<1> QED
  BY <1>1, <1>2, <1>4 DEF Number

\* The copies that a send adds to what is in flight.
LEMMA SendingCopies ==
    ASSUME TypeOK, NEW s \in Nodes, NEW T \in SUBSET Nodes, NEW fate, Sending(s, T, fate)
    PROVE  /\ inflight' = inflight \cup {Sent(s, T, fate, t, 1) : t \in Accepted(T, fate)}
                                   \cup {Sent(s, T, fate, t, 2) : t \in Doubled(T, fate)}
           /\ Doubled(T, fate) \subseteq Accepted(T, fate)
           /\ \A t \in Accepted(T, fate) : fate[t][1] \in LinkOf(s, t).min .. LinkOf(s, t).max
           /\ \A t \in Doubled(T, fate) : fate[t][2] \in LinkOf(s, t).min .. LinkOf(s, t).max
<1> DEFINE A == Accepted(T, fate)
           D == Doubled(T, fate)
           S(t, i) == Sent(s, T, fate, t, i)
<1>1. \A t \in T : /\ Len(fate[t]) \in 0 .. 2 /\ DOMAIN fate[t] = 1 .. Len(fate[t])
                   /\ fate[t] = << >> <=> Len(fate[t]) = 0
                   /\ \A i \in DOMAIN fate[t] :
                         fate[t][i] \in LinkOf(s, t).min .. LinkOf(s, t).max
  BY FateOf DEF Sending
<1>2. \A t \in A : 1 \in DOMAIN fate[t] /\ (2 \in DOMAIN fate[t] <=> t \in D)
                   /\ DOMAIN fate[t] \subseteq {1, 2}
  BY <1>1 DEF Accepted, Doubled
<1>3. D \subseteq A
  BY <1>1 DEF Accepted, Doubled
<1>4. inflight' = inflight \cup UNION {{S(t, i) : i \in DOMAIN fate[t]} : t \in A}
  BY DEF Sending, Dispatch, Accepted, Sent
<1>5. UNION {{S(t, i) : i \in DOMAIN fate[t]} : t \in A}
         = {S(t, 1) : t \in A} \cup {S(t, 2) : t \in D}
  <2> HIDE DEF S, A, D
  <2>1. ASSUME NEW t \in A PROVE {S(t, i) : i \in DOMAIN fate[t]}
           = {S(t, 1)} \cup (IF t \in D THEN {S(t, 2)} ELSE {})
    BY <1>2
  <2> QED
    BY <1>3, <2>1
<1> QED
  BY <1>1, <1>2, <1>3, <1>4, <1>5 DEF Accepted, Doubled

\* Each of them is a message, with a number that is new.
LEMMA SentType ==
    ASSUME TypeOK, NEW s \in Nodes, NEW T \in SUBSET Nodes, NEW fate, Sending(s, T, fate),
           NEW t \in Accepted(T, fate), NEW i \in {1, 2},
           i = 2 => t \in Doubled(T, fate)
    PROVE  /\ Sent(s, T, fate, t, i) \in Message
           /\ seq < Sent(s, T, fate, t, i).seq /\ Sent(s, T, fate, t, i).seq <= seq'
           /\ alive' = alive
<1> DEFINE A == Accepted(T, fate)
<1>1. t \in Nodes /\ A \subseteq Nat /\ IsFiniteSet(A) /\ seq \in Nat /\ now \in Nat
  BY NetworkAssumption, FS_Subset DEF Accepted, TypeOK
<1>2. /\ Number(A, t) \in Nat
      /\ seq < Number(A, t) /\ Number(A, t) <= seq + Cardinality(A)
  BY <1>1, NumberBounds
<1>3. seq' = seq + Cardinality(A) /\ alive' = alive
  BY DEF Sending, Dispatch, Accepted, nodeVars
<1>4. LinkOf(s, t).min \in Nat /\ LinkOf(s, t).max \in Nat
  BY LinkOfType DEF LinkConfig
<1>5. fate[t][1] \in Nat /\ fate[t][i] \in Nat
  BY <1>4, SendingCopies
<1>6. now + fate[t][1] \in Nat /\ now + fate[t][i] \in Nat
  BY <1>1, <1>5
<1> QED
  BY <1>1, <1>2, <1>3, <1>6 DEF Sent, Message

\* The same of the first copies and of the second ones.
LEMMA FirstSent ==
    ASSUME TypeOK, NEW s \in Nodes, NEW T \in SUBSET Nodes, NEW fate, Sending(s, T, fate),
           NEW t \in Accepted(T, fate)
    PROVE  /\ Sent(s, T, fate, t, 1) \in Message
           /\ seq < Sent(s, T, fate, t, 1).seq /\ Sent(s, T, fate, t, 1).seq <= seq'
<1>1. 1 \in {1, 2} /\ (1 = 2 => t \in Doubled(T, fate))
  OBVIOUS
<1> QED
  BY <1>1, SentType, Zenon

LEMMA SecondSent ==
    ASSUME TypeOK, NEW s \in Nodes, NEW T \in SUBSET Nodes, NEW fate, Sending(s, T, fate),
           NEW t \in Doubled(T, fate)
    PROVE  /\ t \in Accepted(T, fate)
           /\ Sent(s, T, fate, t, 2) \in Message
           /\ seq < Sent(s, T, fate, t, 2).seq /\ Sent(s, T, fate, t, 2).seq <= seq'
<1>1. 2 \in {1, 2} /\ t \in Accepted(T, fate)
  BY SendingCopies
<1> QED
  BY <1>1, SentType, Zenon

-----------------------------------------------------------------------------
(* The type invariant.                                                     *)

LEMMA TypeInit == Init => TypeOK
<1> SUFFICES ASSUME Init PROVE TypeOK
  OBVIOUS
<1>1. Cardinality({}) = 0
  BY FS_EmptySet
<1>2. PartitionsTypeOK
  BY InitType DEF Init, NetworkInit
<1>3. links \in [DOMAIN links -> OtherLinks] /\ DOMAIN links = {}
  BY DEF Init, NetworkInit
<1> QED
  BY <1>1, <1>2, <1>3, ClusterAssumption DEF Init, NetworkInit, FaultsInit, TypeOK

\* A crash of a node that was spawned keeps the types.
LEMMA TakeDownType ==
    ASSUME TypeOK, NEW n \in spawned, TakeDown(n)
    PROVE  /\ alive' \in [Nodes -> BOOLEAN]
           /\ inbox' \in [Nodes -> Seq(Message)]
           /\ crashed' \in Seq(Nodes)
           /\ crashedAt' \in [Nodes -> Nat \cup {-1}]
           /\ crashes' \in 0 .. MaxCrashes
<1>1. n \in Nodes
  BY DEF TypeOK
<1>2. crashed' \in Seq(Nodes)
  BY <1>1, AppendProperties DEF TypeOK, TakeDown
<1>3. alive' \in [Nodes -> BOOLEAN] /\ inbox' \in [Nodes -> Seq(Message)]
  BY <1>1 DEF TypeOK, TakeDown
<1>4. now \in Nat \cup {-1} /\ crashedAt \in [Nodes -> Nat \cup {-1}]
  BY DEF TypeOK
<1>5. crashedAt' \in [Nodes -> Nat \cup {-1}]
  BY <1>1, <1>4, Zenon DEF TakeDown
<1>6. crashes' \in 0 .. MaxCrashes
  <2>1. crashes \in 0 .. MaxCrashes
    BY DEF TypeOK
  <2>2. crashes < MaxCrashes /\ crashes' = crashes + 1
    BY DEF TakeDown
  <2> QED
    BY <2>1, <2>2, ClusterAssumption
<1> QED
  BY <1>2, <1>3, <1>5, <1>6

\* A set of numbers that is not empty has a least one.
LEMMA NatLeast ==
    ASSUME NEW S \in SUBSET Nat, S # {}
    PROVE  \E i \in S : \A j \in S : i <= j
<1>1. PICK i \in S : \A j \in S : <<j, i>> \notin OpToRel(<, Nat)
  BY NatLessThanWellFounded, WFMin
<1>2. ASSUME NEW j \in S PROVE ~(j < i)
  BY <1>1, Zenon DEF OpToRel
<1> QED
  BY <1>2

\* Taking an entry off a list: one place less, the others in their order.
LEMMA WithoutType ==
    ASSUME NEW S, NEW list \in Seq(S), NEW n
    PROVE  /\ Without(list, n) \in Seq(S)
           /\ (\A i \in DOMAIN list : list[i] # n) => Without(list, n) = list
           /\ \A i \in DOMAIN list :
                 list[i] = n /\ (\A j \in DOMAIN list : list[j] = n => i <= j)
                    => /\ Len(Without(list, n)) = Len(list) - 1
                       /\ \A j \in 1 .. Len(list) - 1 :
                             Without(list, n)[j] = IF j < i THEN list[j] ELSE list[j + 1]
<1>1. CASE \A i \in DOMAIN list : list[i] # n
  BY <1>1 DEF Without
<1>2. CASE \E i \in DOMAIN list : list[i] = n
  <2> DEFINE Least(i) == /\ i \in DOMAIN list
                         /\ list[i] = n /\ \A j \in DOMAIN list : list[j] = n => i <= j
             first == CHOOSE i \in DOMAIN list :
                         list[i] = n /\ \A j \in DOMAIN list : list[j] = n => i <= j
  <2>1. DOMAIN list = 1 .. Len(list) /\ Len(list) \in Nat
    OBVIOUS
  <2>2. \E i \in Nat : Least(i)
    <3> DEFINE At == {i \in DOMAIN list : list[i] = n}
    <3>1. At \subseteq Nat /\ At # {}
      BY <1>2, <2>1
    <3>2. \E i \in At : \A j \in At : i <= j
      BY <3>1, NatLeast
    <3> QED
      BY <2>1, <3>2
  <2>3. Least(first)
    BY <2>2
  <2>4. \A i : Least(i) => i = first
    BY <2>1, <2>3
  <2>5. Without(list, n) = [j \in 1 .. Len(list) - 1 |->
                              IF j < first THEN list[j] ELSE list[j + 1]]
    BY <1>2 DEF Without
  <2> HIDE DEF first
  <2>6. Len(list) - 1 \in Nat
    BY <2>1, <2>3
  <2>7. \A j \in 1 .. Len(list) - 1 :
           (IF j < first THEN list[j] ELSE list[j + 1]) \in S
    BY <2>1
  <2>8. Without(list, n) \in [1 .. Len(list) - 1 -> S]
    BY <2>5, <2>7
  <2>9. Without(list, n) \in Seq(S) /\ Len(Without(list, n)) = Len(list) - 1
    BY <2>5, <2>6, <2>8
  <2> QED
    BY <1>2, <2>4, <2>5, <2>9
<1> QED
  BY <1>1, <1>2

\* The nodes are finitely many, and the next one is not on the list.
LEMMA SpawnedFacts ==
    ASSUME TypeOK
    PROVE  /\ IsFiniteSet(spawned) /\ Cardinality(spawned) \in Nat
           /\ Cardinality(spawned) \notin spawned
           /\ \A T \in SUBSET spawned : IsFiniteSet(T) /\ Cardinality(T) \in Nat
<1>1. spawned \subseteq Nodes /\ spawned = 0 .. Cardinality(spawned) - 1
  BY DEF TypeOK
<1>2. IsFiniteSet(spawned) /\ Cardinality(spawned) \in Nat
  BY <1>1, NetworkAssumption, FS_Subset, FS_CardinalityType
<1>3. \A T \in SUBSET spawned : IsFiniteSet(T) /\ Cardinality(T) \in Nat
  BY <1>2, FS_Subset, FS_CardinalityType
<1> QED
  BY <1>1, <1>2, <1>3

\* What the type invariant says of the variables of a crash.
FaultTypes ==
    /\ alive \in [Nodes -> BOOLEAN]
    /\ inbox \in [Nodes -> Seq(Message)]
    /\ crashed \in Seq(Nodes)
    /\ crashedAt \in [Nodes -> Nat \cup {-1}]
    /\ crashes \in 0 .. MaxCrashes

LEMMA SendType ==
    ASSUME TypeOK, PartitionsTypeOK', NEW s \in Nodes, NEW T \in SUBSET Nodes, NEW fate,
           Sending(s, T, fate), UNCHANGED faultVars
    PROVE  TypeOK'
<1> DEFINE A == Accepted(T, fate)
           D == Doubled(T, fate)
           R == Refused(s, T, fate)
<1>1. inflight' \subseteq Message
  <2>2. ASSUME NEW t \in A PROVE Sent(s, T, fate, t, 1) \in Message
    BY FirstSent
  <2>3. ASSUME NEW t \in D PROVE Sent(s, T, fate, t, 2) \in Message
    BY SecondSent
  <2>4. inflight' = inflight \cup {Sent(s, T, fate, t, 1) : t \in A}
                            \cup {Sent(s, T, fate, t, 2) : t \in D}
    BY SendingCopies
  <2>5. inflight \subseteq Message
    BY DEF TypeOK
  <2> HIDE DEF A, D
  <2> QED
    BY <2>2, <2>3, <2>4, <2>5
<1>2. T \subseteq spawned
  BY DEF Sending
<1>3. /\ Cardinality(T) \in Nat /\ Cardinality(A) \in Nat
      /\ Cardinality(D) \in Nat /\ Cardinality(R) \in Nat
  BY <1>2, SpawnedFacts DEF Accepted, Doubled, Refused
<1>4. /\ seq' = seq + Cardinality(A) /\ sent' = sent + Cardinality(T)
      /\ dropped' = dropped + Cardinality(R) /\ duplicated' = duplicated + Cardinality(D)
      /\ UNCHANGED <<now, links, delivered, spawned, alive, inbox>>
  BY DEF Sending, Dispatch, Accepted, Doubled, nodeVars
<1> HIDE DEF A, D, R
<1>5. /\ seq \in Nat /\ sent \in Nat /\ delivered \in Nat /\ dropped \in Nat
      /\ duplicated \in Nat
  BY DEF TypeOK
<1>6. /\ seq' \in Nat /\ sent' \in Nat /\ delivered' \in Nat /\ dropped' \in Nat
      /\ duplicated' \in Nat
  BY <1>3, <1>4, <1>5
<1> QED
  BY <1>1, <1>4, <1>6 DEF TypeOK, faultVars

LEMMA TrafficType ==
    ASSUME TypeOK, PartitionsTypeOK', Traffic
    PROVE  TypeOK'
<1> USE DEF traffic, nodeVars, faultVars
<1>0. UNCHANGED faultVars
  BY DEF Traffic
<1>1. CASE (\E s, t \in Nodes : Send(s, t)) \/ (\E s \in Nodes : Broadcast(s))
  BY <1>0, <1>1, SendersDispatch, SendType
<1>2. ASSUME NEW c \in Configurable, NEW l \in OtherLinks, Configure(c[1], c[2], l)
      PROVE  TypeOK'
  <2>1. <<c[1], c[2]>> \in Configurable
    BY NetworkAssumption
  <2>2. /\ DOMAIN links' \subseteq Configurable
        /\ links' \in [DOMAIN links' -> OtherLinks]
    BY <1>2, <2>1 DEF Configure, TypeOK
  <2>3. UNCHANGED <<now, inflight, seq, sent, delivered, dropped, duplicated,
                    spawned, alive, inbox>>
    BY <1>2 DEF Configure
  <2> QED
    BY <1>0, <2>2, <2>3 DEF TypeOK
<1>3. ASSUME NEW m \in inflight, Deliver(m)
      PROVE  TypeOK'
  <2>1. inflight' \subseteq Message /\ m \in Message
    BY <1>3 DEF Deliver, TypeOK
  <2>2. UNCHANGED <<now, links, seq, sent, duplicated, spawned, alive>>
    BY <1>3 DEF Deliver
  <2>3. delivered' \in Nat /\ dropped' \in Nat
    <3>1. delivered \in Nat /\ dropped \in Nat
      BY DEF TypeOK
    <3>2. delivered' \in {delivered, delivered + 1} /\ dropped' \in {dropped, dropped + 1}
      BY <1>3 DEF Deliver
    <3> QED
      BY <3>1, <3>2
  <2>4. m.target \in Nodes /\ Append(inbox[m.target], m) \in Seq(Message)
    <3>1. m.target \in Nodes
      BY <2>1 DEF Message
    <3>2. inbox[m.target] \in Seq(Message)
      BY <3>1 DEF TypeOK
    <3> QED
      BY <2>1, <3>1, <3>2, AppendProperties
  <2>5. inbox' \in [Nodes -> Seq(Message)]
    <3>1. CASE inbox' = inbox
      BY <3>1 DEF TypeOK
    <3>2. CASE inbox' = [inbox EXCEPT ![m.target] = Append(@, m)]
      <4>1. inbox \in [Nodes -> Seq(Message)]
        BY DEF TypeOK
      <4> QED
        BY <2>4, <3>2, <4>1
    <3> QED
      BY <1>3, <3>1, <3>2 DEF Deliver
  <2> QED
    BY <1>0, <2>1, <2>2, <2>3, <2>5 DEF TypeOK
<1>4. ASSUME NEW n \in Nodes, Receive(n)
      PROVE  TypeOK'
  <2>1. inbox' \in [Nodes -> Seq(Message)]
    <3>1. inbox[n] \in Seq(Message) /\ inbox[n] # << >>
      BY <1>4 DEF Receive, TypeOK
    <3>2. Tail(inbox[n]) \in Seq(Message)
      BY <3>1, HeadTailProperties
    <3>3. inbox \in [Nodes -> Seq(Message)]
      BY DEF TypeOK
    <3> QED
      BY <1>4, <3>2, <3>3 DEF Receive
  <2> QED
    BY <1>0, <1>4, <2>1 DEF TypeOK, Receive
<1> QED
  BY <1>1, <1>2, <1>3, <1>4 DEF Traffic

LEMMA FaultsType ==
    ASSUME TypeOK, PartitionsTypeOK', Faults
    PROVE  TypeOK'
<1> USE DEF traffic, nodeVars, faultVars, networkVars
<1>0. heals' \subseteq [split : ChaosSplits, at : Nat]
  BY TimersTypedStep DEF TimersTyped, TypeOK, PartitionsTypeOK, Next
<1>1. ASSUME NEW n \in Nodes, Spawn(n)
      PROVE  TypeOK'
  <2>1. n = Cardinality(spawned) /\ n \in Nat /\ spawned' = spawned \cup {n}
        /\ spawned = 0 .. n - 1
    BY <1>1, NetworkAssumption DEF Spawn, TypeOK
  <2>2. Cardinality(spawned \cup {n}) = n + 1
    BY <2>1, SpawnedFacts, FS_AddElement
  <2>3. Cardinality(spawned') = n + 1
    BY <2>1, <2>2, Zenon
  <2>4. spawned' = 0 .. (n + 1) - 1
    <3>1. \A x : x \in 0 .. (n + 1) - 1 <=> x \in 0 .. n - 1 \/ x = n
      BY <2>1
    <3> QED
      BY <2>1, <3>1
  <2>5. spawned' = 0 .. Cardinality(spawned') - 1
    BY <2>3, <2>4, Zenon
  <2>6. spawned' \subseteq Nodes
    BY <2>1 DEF TypeOK
  <2> QED
    BY <1>0, <1>1, <2>5, <2>6 DEF TypeOK, Spawn
<1>2. ASSUME NEW n \in Nodes, Crash(n)
      PROVE  TypeOK'
  <2>1. FaultTypes'
    BY <1>2, TakeDownType DEF Crash, FaultTypes
  <2> QED
    BY <1>0, <1>2, <2>1 DEF TypeOK, Crash, FaultTypes
<1>3. ASSUME NEW n \in Nodes, Restart(n)
      PROVE  TypeOK'
  <2>1. crashed' \in Seq(Nodes)
    BY <1>3, WithoutType DEF Restart, TypeOK
  <2> QED
    BY <1>0, <1>3, <2>1 DEF TypeOK, Restart
<1>4. CASE StartChaos
  <2>1. wake' \in Nat
    BY <1>4, ClusterAssumption DEF StartChaos, TypeOK
  <2> QED
    BY <1>0, <1>4, <2>1 DEF TypeOK, StartChaos
<1>5. CASE ChaosWake
  <2>1. wake' \in Nat
    BY <1>5, ClusterAssumption DEF ChaosWake, TypeOK
  <2>2. FaultTypes'
    <3>1. ASSUME NEW n \in Nodes, MayCrash(n), TakeDown(n)
          PROVE  FaultTypes'
      BY <3>1, TakeDownType DEF MayCrash, FaultTypes
    <3>2. CASE UNCHANGED <<alive, crashed, inbox, crashedAt, crashes>>
      BY <3>2 DEF FaultTypes, TypeOK
    <3> QED
      BY <1>5, <3>1, <3>2 DEF ChaosWake, ChaosCrash
  <2> QED
    BY <1>0, <1>5, <2>1, <2>2 DEF TypeOK, ChaosWake, FaultTypes
<1>6. ASSUME NEW h \in heals, ChaosHeal(h)
      PROVE  TypeOK'
  BY <1>0, <1>6 DEF TypeOK, ChaosHeal
<1> QED
  BY <1>1, <1>2, <1>3, <1>4, <1>5, <1>6 DEF Faults

LEMMA TypeStep == TypeOK /\ [Next]_clusterVars => TypeOK'
<1> SUFFICES ASSUME TypeOK, [Next]_clusterVars PROVE TypeOK'
  OBVIOUS
<1>1. PartitionsTypeOK'
  BY KeepsToPartitionsStep, StepType DEF TimersTyped, TypeOK, PartitionsTypeOK
<1>2. CASE Traffic
  BY <1>1, <1>2, TrafficType
<1>3. CASE Splitting
  BY <1>1, <1>3
     DEF Splitting, NetworkApply, NetworkHeal, NetworkHealAll, TypeOK, traffic, nodeVars, faultVars
<1>4. CASE Time
  BY <1>1, <1>4 DEF Time, PassTime, TypeOK, traffic, nodeVars, faultVars
<1>5. CASE Faults
  BY <1>1, <1>5, FaultsType
<1>6. CASE UNCHANGED clusterVars
  BY <1>6 DEF clusterVars, networkVars, partitionVars, traffic, nodeVars, faultVars, TypeOK,
              PartitionsTypeOK
<1> QED
  BY <1>2, <1>3, <1>4, <1>5, <1>6 DEF Next

\* Every variable of a cluster keeps its type: no counter goes below zero, no
\* mailbox and no list of crashed nodes holds what is not a message or a node,
\* and the nodes are numbered without a gap.
THEOREM ClusterTypeCorrect == Spec => []TypeOK
  BY TypeInit, TypeStep, PTL DEF Spec

-----------------------------------------------------------------------------
(* Nodes that are down.                                                    *)

\* What a step does to the nodes, their mailboxes and the list of the crashed:
\* the classes of steps that the next proofs tell apart.
Undisturbed == UNCHANGED <<spawned, alive, inbox, crashed>>
Mailing     == /\ UNCHANGED <<spawned, alive, crashed>>
               /\ \/ \E m \in inflight :
                        /\ alive[m.target]
                        /\ inbox' = [inbox EXCEPT ![m.target] = Append(@, m)]
                  \/ \E n \in Nodes : 
                        inbox[n] # << >> /\ inbox' = [inbox EXCEPT ![n] = Tail(@)]
Spawning(n) == Spawn(n) /\ UNCHANGED <<inbox, crashed>>
Falling(n)  == /\ n \in spawned /\ alive[n]
               /\ TakeDown(n)
               /\ UNCHANGED spawned
Rising(n)   == Restart(n)

LEMMA NodeClasses ==
    ASSUME TypeOK, [Next]_clusterVars
    PROVE  \/ Undisturbed \/ Mailing
           \/ \E n \in Nodes : Spawning(n) \/ Falling(n) \/ Rising(n)
<1> USE DEF clusterVars, networkVars, faultVars, traffic, nodeVars
<1>1. CASE Traffic
  <2>1. ASSUME NEW s, NEW T, SendTo(s, T) PROVE UNCHANGED <<spawned, alive, inbox>>
    BY <2>1 DEF SendTo, Dispatch
  <2>2. ASSUME NEW c, NEW l, Configure(c[1], c[2], l)
        PROVE  UNCHANGED <<spawned, alive, inbox>>
    BY <2>2 DEF Configure
  <2>3. ASSUME NEW m \in inflight, Deliver(m)
        PROVE  UNCHANGED <<spawned, alive, inbox>> \/ Mailing
    BY <1>1, <2>3 DEF Traffic, Deliver, Arrives, Mailing
  <2>4. ASSUME NEW n \in Nodes, Receive(n)
        PROVE  Mailing
    BY <1>1, <2>4 DEF Traffic, Receive, Mailing
  <2> QED
    BY <1>1, <2>1, <2>2, <2>3, <2>4 DEF Traffic, Send, Broadcast, Undisturbed
<1>2. CASE Splitting
  BY <1>2 DEF Splitting, NetworkApply, NetworkHeal, NetworkHealAll, Undisturbed
<1>3. CASE Time
  BY <1>3 DEF Time, PassTime, Undisturbed
<1>4. CASE Faults
  <2>1. ASSUME NEW n \in Nodes, Spawn(n) PROVE Spawning(n)
    BY <2>1 DEF Spawn, Spawning
  <2>2. ASSUME NEW n \in Nodes, Crash(n) PROVE Falling(n)
    BY <2>2 DEF Crash, TakeDown, Falling
  <2>3. CASE StartChaos
    BY <2>3 DEF StartChaos, Undisturbed
  <2>4. CASE ChaosWake
    BY <2>4 DEF ChaosWake, ChaosCrash, MayCrash, Undisturbed, Falling
  <2>5. ASSUME NEW h \in heals, ChaosHeal(h) PROVE Undisturbed
    BY <2>5 DEF ChaosHeal, Undisturbed
  <2> QED
    BY <1>4, <2>1, <2>2, <2>3, <2>4, <2>5 DEF Faults, Rising
<1>5. CASE UNCHANGED clusterVars
  BY <1>5 DEF Undisturbed
<1> QED
  BY <1>1, <1>2, <1>3, <1>4, <1>5 DEF Next

LEMMA DownIsEmptyStep ==
    ASSUME TypeOK, DownIsEmpty, [Next]_clusterVars
    PROVE  DownIsEmpty'
<1> USE DEF DownIsEmpty
<1>0. /\ inbox \in [Nodes -> Seq(Message)] /\ alive \in [Nodes -> BOOLEAN]
      /\ inflight \subseteq Message /\ spawned \subseteq Nodes
  BY DEF TypeOK
<1>1. CASE Undisturbed
  BY <1>1 DEF Undisturbed
<1>2. CASE Mailing
  <2>1. ASSUME NEW m \in inflight, alive[m.target],
               inbox' = [inbox EXCEPT ![m.target] = Append(@, m)]
        PROVE  DownIsEmpty'
    BY <1>0, <1>2, <2>1 DEF Mailing
  <2>2. ASSUME NEW n \in Nodes, inbox[n] # << >>,
               inbox' = [inbox EXCEPT ![n] = Tail(@)]
        PROVE  DownIsEmpty'
    BY <1>0, <1>2, <2>2 DEF Mailing
  <2> QED
    BY <1>2, <2>1, <2>2 DEF Mailing
<1>3. ASSUME NEW n \in Nodes, Spawning(n) PROVE DownIsEmpty'
  BY <1>0, <1>3 DEF Spawning, Spawn
<1>4. ASSUME NEW n \in Nodes, Falling(n) PROVE DownIsEmpty'
  BY <1>0, <1>4 DEF Falling, TakeDown
<1>5. ASSUME NEW n \in Nodes, Rising(n) PROVE DownIsEmpty'
  BY <1>0, <1>5 DEF Rising, Restart
<1> QED
  BY <1>1, <1>2, <1>3, <1>4, <1>5, NodeClasses

\* A node that is down has an empty mailbox, however late a message for it
\* comes and whoever crashed it.
THEOREM MailboxesOfTheDown == Spec => []DownIsEmpty
<1>1. Init => DownIsEmpty
  BY DEF Init, NetworkInit, DownIsEmpty
<1> QED
  BY <1>1, TypeInit, TypeStep, DownIsEmptyStep, PTL DEF Spec

\* The inductive form of CrashedAreDown: the list says who is down, and says it
\* once.  Without the second part, removing one entry might leave another.
Listed ==
    /\ {crashed[i] : i \in DOMAIN crashed} = Down
    /\ \A i, j \in DOMAIN crashed : crashed[i] = crashed[j] => i = j

\* A list without repetitions is as long as the set of its entries is large.
LEMMA ListedOnce ==
    ASSUME TypeOK, Listed
    PROVE  /\ Len(crashed) = Cardinality(Down)
           /\ Len(crashed) \in Nat /\ IsFiniteSet(Down)
<1>1. /\ Len(crashed) \in Nat /\ DOMAIN crashed = 1 .. Len(crashed)
      /\ crashed \in [1 .. Len(crashed) -> Nodes]
  BY LenProperties DEF TypeOK
<1>2. crashed \in [1 .. Len(crashed) -> Down]
  BY <1>1 DEF Listed
<1>3. crashed \in Injection(1 .. Len(crashed), Down)
  <2>1. \A i, j \in 1 .. Len(crashed) : crashed[i] = crashed[j] => i = j
    BY <1>1 DEF Listed
  <2> QED
    BY <1>2, <2>1 DEF Injection, IsInjective
<1>4. \A n \in Down : \E i \in 1 .. Len(crashed) : crashed[i] = n
  BY <1>1 DEF Listed
<1>5. crashed \in Surjection(1 .. Len(crashed), Down)
  BY <1>2, <1>4 DEF Surjection
<1>6. crashed \in Bijection(1 .. Len(crashed), Down)
  BY <1>3, <1>5 DEF Bijection
<1> QED
  BY <1>1, <1>6, FS_CountingElements, FS_NatBijection DEF ExistsBijection

\* A crash puts one more node on the list, which was not there.
LEMMA FallingListed ==
    ASSUME TypeOK, Listed, NEW n \in Nodes, Falling(n)
    PROVE  Listed' /\ Down' = Down \cup {n} /\ n \notin Down
<1>1. /\ Len(crashed) \in Nat /\ DOMAIN crashed = 1 .. Len(crashed)
      /\ alive \in [Nodes -> BOOLEAN] /\ spawned \subseteq Nodes
  BY LenProperties DEF TypeOK
<1>2. /\ DOMAIN crashed' = 1 .. Len(crashed) + 1
      /\ \A i \in 1 .. Len(crashed) : crashed'[i] = crashed[i]
      /\ crashed'[Len(crashed) + 1] = n
  BY <1>1, AppendProperties DEF Falling, TakeDown, TypeOK
<1>3. n \notin Down
  BY DEF Falling, Down
<1>4. Down' = Down \cup {n}
  BY <1>1 DEF Falling, TakeDown, Down
<1>5. \A i \in DOMAIN crashed : crashed[i] # n
  BY <1>3 DEF Listed
<1>6. \A i, j \in DOMAIN crashed' : crashed'[i] = crashed'[j] => i = j
  BY <1>1, <1>2, <1>5 DEF Listed
<1>7. {crashed'[i] : i \in DOMAIN crashed'} = {crashed[i] : i \in DOMAIN crashed} \cup {n}
  BY <1>1, <1>2
<1> QED
  BY <1>3, <1>4, <1>6, <1>7 DEF Listed

\* A restart takes one node off the list, and leaves the others.
LEMMA RisingListed ==
    ASSUME TypeOK, Listed, NEW n \in Nodes, Rising(n)
    PROVE  Listed'
<1>1. /\ Len(crashed) \in Nat /\ DOMAIN crashed = 1 .. Len(crashed)
      /\ alive \in [Nodes -> BOOLEAN] /\ spawned \subseteq Nodes
  BY LenProperties DEF TypeOK
<1>2. n \in Down /\ Down' = Down \ {n}
  BY <1>1 DEF Rising, Restart, Down
<1>3. PICK k \in DOMAIN crashed : crashed[k] = n
  BY <1>2 DEF Listed
<1>4. \A j \in DOMAIN crashed : crashed[j] = n <=> j = k
  BY <1>3 DEF Listed
<1>5. crashed' = Without(crashed, n)
  BY DEF Rising, Restart
<1>6. /\ crashed' \in Seq(Nodes) /\ Len(crashed') = Len(crashed) - 1
      /\ \A j \in 1 .. Len(crashed) - 1 :
            crashed'[j] = IF j < k THEN crashed[j] ELSE crashed[j + 1]
  <2>1. \A j \in DOMAIN crashed : crashed[j] = n => k <= j
    BY <1>1, <1>4
  <2>2. crashed \in Seq(Nodes)
    BY DEF TypeOK
  <2> QED
    BY <1>3, <1>5, <2>1, <2>2, WithoutType
<1>7. DOMAIN crashed' = 1 .. Len(crashed) - 1
  BY <1>6
<1>8. ASSUME NEW i \in DOMAIN crashed', NEW j \in DOMAIN crashed', crashed'[i] = crashed'[j]
      PROVE  i = j
  <2> DEFINE Old(x) == IF x < k THEN x ELSE x + 1
  <2>1. ASSUME NEW x \in DOMAIN crashed'
        PROVE  x \in Int /\ Old(x) \in DOMAIN crashed /\ crashed'[x] = crashed[Old(x)]
    BY <1>1, <1>3, <1>6, <1>7
  <2>2. Old(i) = Old(j)
    BY <1>8, <2>1 DEF Listed
  <2> QED
    BY <1>1, <1>3, <2>1, <2>2
<1>9. {crashed'[i] : i \in DOMAIN crashed'} = {crashed[i] : i \in DOMAIN crashed} \ {n}
  <2>1. ASSUME NEW i \in DOMAIN crashed'
        PROVE  crashed'[i] \in {crashed[j] : j \in DOMAIN crashed} \ {n}
    BY <1>1, <1>3, <1>4, <1>6, <1>7
  <2>2. ASSUME NEW i \in DOMAIN crashed, crashed[i] # n
        PROVE  \E j \in DOMAIN crashed' : crashed'[j] = crashed[i]
    <3>1. CASE i < k
      <4>1. i \in DOMAIN crashed' /\ crashed'[i] = crashed[i]
        BY <1>1, <1>3, <1>6, <1>7, <3>1
      <4> QED
        BY <4>1
    <3>2. CASE i > k
      <4>1. i - 1 \in DOMAIN crashed' /\ crashed'[i - 1] = crashed[i]
        BY <1>1, <1>3, <1>6, <1>7, <3>2
      <4> QED
        BY <4>1
    <3> QED
      BY <1>1, <1>3, <2>2, <3>1, <3>2
  <2> QED
    BY <2>1, <2>2
<1> QED
  BY <1>2, <1>8, <1>9 DEF Listed

LEMMA ListedStep ==
    ASSUME TypeOK, Listed, [Next]_clusterVars
    PROVE  Listed'
<1>0. alive \in [Nodes -> BOOLEAN]
  BY DEF TypeOK
<1>1. CASE Undisturbed
  BY <1>1 DEF Undisturbed, Listed, Down
<1>2. CASE Mailing
  BY <1>2 DEF Mailing, Listed, Down
<1>3. ASSUME NEW n \in Nodes, Spawning(n) PROVE Listed'
  <2>1. n \notin spawned
    BY <1>3, SpawnedFacts DEF Spawning, Spawn
  <2>2. Down' = Down
    BY <1>0, <1>3, <2>1 DEF Spawning, Spawn, Down, TypeOK
  <2> QED
    BY <1>3, <2>2 DEF Spawning, Listed
<1> QED
  BY <1>1, <1>2, <1>3, FallingListed, RisingListed, NodeClasses

LEMMA ListedInit == Init => Listed
  BY DEF Init, NetworkInit, FaultsInit, Listed, Down

\* FaultInjector.crashed is the list of the nodes that are down, in every state,
\* whether the scenario or the chaos loop crashes and restarts them.
THEOREM TheCrashedAreTheDown == Spec => []CrashedAreDown
<1>1. TypeOK /\ Listed => CrashedAreDown
  BY ListedOnce DEF Listed, CrashedAreDown
<1> QED
  BY <1>1, TypeInit, TypeStep, ListedInit, ListedStep, PTL DEF Spec

\* The chaos loop takes no node down when max_crashed of them are down.
THEOREM ChaosLeavesAQuorum == Spec => ChaosKeepsQuorum
<1>1. ASSUME TypeOK, Listed, Faults, wake' # wake, Cardinality(Down') > Cardinality(Down)
      PROVE  Cardinality(Down') <= MaxCrashed
  <2>1. CASE ChaosWake
    <3>1. CASE UNCHANGED <<alive, crashed, inbox, crashedAt, crashes>>
      <4>1. Down' = Down
        BY <2>1, <3>1 DEF ChaosWake, Down
      <4>2. Cardinality(Down) \in Nat
        BY <1>1, ListedOnce
      <4> QED
        BY <1>1, <4>1, <4>2
    <3>2. ASSUME NEW n \in Nodes, MayCrash(n), TakeDown(n)
          PROVE  Cardinality(Down') <= MaxCrashed
      <4>1. Falling(n)
        BY <2>1, <3>2 DEF Falling, MayCrash, ChaosWake
      <4>2. Down' = Down \cup {n} /\ n \notin Down
        BY <1>1, <4>1, FallingListed
      <4>3. Cardinality(Down \cup {n}) = Cardinality(Down) + 1
        BY <1>1, <4>2, ListedOnce, FS_AddElement
      <4>4. Cardinality(Down') = Len(crashed) + 1
        BY <1>1, <4>2, <4>3, ListedOnce
      <4> QED
        BY <1>1, <3>2, <4>4, ListedOnce, ClusterAssumption DEF MayCrash
    <3> QED
      BY <2>1, <3>1, <3>2 DEF ChaosWake, ChaosCrash
  <2>2. CASE StartChaos
    <3>1. Down' = Down
      BY <2>2 DEF StartChaos, networkVars, nodeVars, Down
    <3>2. Cardinality(Down) \in Nat
      BY <1>1, ListedOnce
    <3> QED
      BY <1>1, <3>1, <3>2
  <2> QED
    BY <1>1, <2>1, <2>2 DEF Faults, Spawn, Crash, Restart, ChaosHeal, faultVars
<1>2. TypeOK /\ Listed /\ [Next]_clusterVars
         => [Faults /\ wake' # wake /\ Cardinality(Down') > Cardinality(Down)
               => Cardinality(Down') <= MaxCrashed]_clusterVars
  BY <1>1
<1> QED
  BY <1>2, TypeInit, TypeStep, ListedInit, ListedStep, PTL DEF Spec, ChaosKeepsQuorum

-----------------------------------------------------------------------------
(* Messages.                                                               *)

\* A step either sends, with all that SendingCopies and SentType say of it, or
\* is one of these: nothing is counted as sent, and nothing comes into flight.
Landing(m) ==
    /\ m \in inflight /\ inflight' = inflight \ {m}
    /\ \/ delivered' = delivered + 1 /\ dropped' = dropped
       \/ delivered' = delivered /\ dropped' = dropped + 1
    /\ UNCHANGED <<seq, sent, duplicated>>
Resting == UNCHANGED traffic

LEMMA TrafficClasses ==
    ASSUME TypeOK, [Next]_clusterVars
    PROVE  \/ \E s \in Nodes, T \in SUBSET Nodes :
                 \E fate \in [T -> UNION {Fates(s, t) : t \in T}] : Sending(s, T, fate)
           \/ \E m \in inflight : Landing(m)
           \/ Resting
<1> USE DEF clusterVars, networkVars, traffic, nodeVars
<1>1. CASE Traffic
  <2>1. CASE (\E s, t \in Nodes : Send(s, t)) \/ (\E s \in Nodes : Broadcast(s))
    BY <2>1, SendersDispatch
  <2>2. ASSUME NEW c, NEW l, Configure(c[1], c[2], l) PROVE Resting
    BY <2>2 DEF Configure, Resting
  <2>3. ASSUME NEW m \in inflight, Deliver(m) PROVE Landing(m)
    BY <2>3 DEF Deliver, Landing
  <2>4. ASSUME NEW n \in Nodes, Receive(n) PROVE Resting
    BY <2>4 DEF Receive, Resting
  <2> QED
    BY <1>1, <2>1, <2>2, <2>3, <2>4 DEF Traffic
<1>2. CASE Splitting
  BY <1>2 DEF Splitting, NetworkApply, NetworkHeal, NetworkHealAll, Resting
<1>3. CASE Time
  BY <1>3 DEF Time, PassTime, Resting
<1>4. CASE Faults
  BY <1>4 DEF Faults, Spawn, Crash, Restart, StartChaos, ChaosWake, ChaosHeal, Resting
<1>5. CASE UNCHANGED clusterVars
  BY <1>5 DEF Resting
<1> QED
  BY <1>1, <1>2, <1>3, <1>4, <1>5 DEF Next

\* The inductive form of Conservation: what is in flight can be counted, and
\* carries numbers that were given out, so that a new copy is not an old one.
Books ==
    /\ IsFiniteSet(inflight)
    /\ \A m \in inflight : m.seq <= seq
    /\ Conservation

\* Sets with nothing in common are counted one after the other.
LEMMA DisjointUnion ==
    ASSUME NEW S, NEW T, IsFiniteSet(S), IsFiniteSet(T), S \cap T = {}
    PROVE  /\ IsFiniteSet(S \cup T)
           /\ Cardinality(S) \in Nat /\ Cardinality(T) \in Nat
           /\ Cardinality(S \cup T) = Cardinality(S) + Cardinality(T)
<1>1. Cardinality(S) \in Nat /\ Cardinality(T) \in Nat
  BY FS_CardinalityType
<1>2. Cardinality(S \cap T) = 0
  BY FS_EmptySet, Zenon
<1>3. Cardinality(S \cup T) = Cardinality(S) + Cardinality(T) - Cardinality(S \cap T)
      /\ IsFiniteSet(S \cup T)
  BY FS_Union
<1> QED
  BY <1>1, <1>2, <1>3

\* As many copies come into flight as there are messages accepted and messages
\* doubled: no two of them are the same.
LEMMA CopiesCounted ==
    ASSUME TypeOK, Books, NEW s \in Nodes, NEW T \in SUBSET Nodes, NEW fate,
           Sending(s, T, fate)
    PROVE  /\ IsFiniteSet(inflight')
           /\ Cardinality(inflight') = Cardinality(inflight)
                 + Cardinality(Accepted(T, fate)) + Cardinality(Doubled(T, fate))
<1> DEFINE A == Accepted(T, fate)
           D == Doubled(T, fate)
           First(t)  == Sent(s, T, fate, t, 1)
           Second(t) == Sent(s, T, fate, t, 2)
           Firsts  == {First(t) : t \in A}
           Seconds == {Second(t) : t \in D}
<1>1. A \in SUBSET spawned /\ D \in SUBSET spawned /\ D \subseteq A
  BY SendingCopies DEF Sending, Accepted, Doubled
<1>2. /\ IsFiniteSet(A) /\ Cardinality(A) \in Nat
      /\ IsFiniteSet(D) /\ Cardinality(D) \in Nat
  BY <1>1, SpawnedFacts
<1>3. \A t, u : /\ First(t) = First(u) => t = u
                /\ Second(t) = Second(u) => t = u
                /\ First(t) # Second(u)
  BY DEF Sent
<1>4. /\ \A t \in A : First(t) \notin inflight
      /\ \A t \in D : Second(t) \notin inflight
  <2>0. seq \in Nat /\ \A m \in inflight : m.seq \in Nat /\ m.seq <= seq
    BY DEF Books, Message, TypeOK
  <2>1. ASSUME NEW t \in A PROVE First(t) \notin inflight
    <3>1. First(t) \in Message /\ seq < First(t).seq
      BY FirstSent
    <3> HIDE DEF First
    <3> QED
      BY <2>0, <3>1
  <2>2. ASSUME NEW t \in D PROVE Second(t) \notin inflight
    <3>1. Second(t) \in Message /\ seq < Second(t).seq
      BY SecondSent
    <3> HIDE DEF Second
    <3> QED
      BY <2>0, <3>1
  <2> QED
    BY <2>1, <2>2
<1>5. inflight' = inflight \cup (Firsts \cup Seconds)
  BY SendingCopies
<1> HIDE DEF A, D, First, Second
<1>6. IsFiniteSet(Firsts) /\ Cardinality(Firsts) = Cardinality(A)
  <2> DEFINE f == [t \in A |-> First(t)]
  <2>1. f \in Injection(A, Firsts)
    BY <1>3 DEF Injection, IsInjective
  <2>2. f \in Surjection(A, Firsts)
    BY DEF Surjection
  <2> QED
    BY <1>2, <2>1, <2>2, FS_Bijection DEF Bijection, ExistsBijection
<1>7. IsFiniteSet(Seconds) /\ Cardinality(Seconds) = Cardinality(D)
  <2> DEFINE f == [t \in D |-> Second(t)]
  <2>1. f \in Injection(D, Seconds)
    BY <1>3 DEF Injection, IsInjective
  <2>2. f \in Surjection(D, Seconds)
    BY DEF Surjection
  <2> QED
    BY <1>2, <2>1, <2>2, FS_Bijection DEF Bijection, ExistsBijection
<1>8. Firsts \cap Seconds = {} /\ inflight \cap (Firsts \cup Seconds) = {}
  BY <1>3, <1>4
<1> HIDE DEF Firsts, Seconds
<1>9. /\ IsFiniteSet(Firsts \cup Seconds)
      /\ Cardinality(Firsts \cup Seconds) = Cardinality(A) + Cardinality(D)
  <2>1. /\ IsFiniteSet(Firsts \cup Seconds)
        /\ Cardinality(Firsts \cup Seconds) = Cardinality(Firsts) + Cardinality(Seconds)
    BY <1>6, <1>7, <1>8, DisjointUnion
  <2> QED
    BY <1>6, <1>7, <2>1
<1>10. /\ IsFiniteSet(inflight \cup (Firsts \cup Seconds))
       /\ Cardinality(inflight \cup (Firsts \cup Seconds))
             = Cardinality(inflight) + (Cardinality(A) + Cardinality(D))
  <2>1. IsFiniteSet(inflight)
    BY DEF Books
  <2> QED
    BY <1>8, <1>9, <2>1, DisjointUnion
<1>11. Cardinality(inflight) \in Nat
  BY FS_CardinalityType DEF Books
<1>12. Cardinality(inflight') = Cardinality(inflight) + (Cardinality(A) + Cardinality(D))
       /\ IsFiniteSet(inflight')
  BY <1>5, <1>10, Zenon
<1>13. Cardinality(inflight') = Cardinality(inflight) + Cardinality(A) + Cardinality(D)
  BY <1>2, <1>11, <1>12
<1> QED
  BY <1>12, <1>13 DEF A, D

LEMMA BooksStep ==
    ASSUME TypeOK, TypeOK', Books, [Next]_clusterVars
    PROVE  Books'
<1>0. /\ sent \in Nat /\ duplicated \in Nat /\ delivered \in Nat /\ dropped \in Nat
      /\ seq \in Nat /\ seq' \in Nat /\ inflight \subseteq Message
      /\ IsFiniteSet(inflight) /\ Cardinality(inflight) \in Nat
      /\ sent + duplicated = delivered + dropped + Cardinality(inflight)
      /\ \A m \in inflight : m.seq \in Nat /\ m.seq <= seq
  BY FS_CardinalityType DEF Books, Conservation, TypeOK, Message
<1>1. ASSUME NEW s \in Nodes, NEW T \in SUBSET Nodes, NEW fate, Sending(s, T, fate)
      PROVE  Books'
  <2> DEFINE A == Accepted(T, fate)
             D == Doubled(T, fate)
             R == Refused(s, T, fate)
  <2>1. /\ seq' = seq + Cardinality(A) /\ sent' = sent + Cardinality(T)
        /\ dropped' = dropped + Cardinality(R) /\ duplicated' = duplicated + Cardinality(D)
        /\ delivered' = delivered
    BY <1>1 DEF Sending, Dispatch, Accepted, Doubled
  <2>2. /\ IsFiniteSet(inflight')
        /\ Cardinality(inflight') = Cardinality(inflight) + Cardinality(A) + Cardinality(D)
    BY <1>1, CopiesCounted
  <2>3. Cardinality(T) = Cardinality(A) + Cardinality(R)
        /\ Cardinality(A) \in Nat /\ Cardinality(R) \in Nat
    <3>1. T = A \cup R /\ A \cap R = {}
      BY DEF Accepted, Refused
    <3>2. IsFiniteSet(A) /\ IsFiniteSet(R)
      BY <1>1, SpawnedFacts DEF Sending, Accepted, Refused
    <3> HIDE DEF A, R
    <3>3. Cardinality(A \cup R) = Cardinality(A) + Cardinality(R)
          /\ Cardinality(A) \in Nat /\ Cardinality(R) \in Nat
      BY <3>1, <3>2, DisjointUnion
    <3> QED
      BY <3>1, <3>3
  <2>4. Cardinality(D) \in Nat
    BY <1>1, SpawnedFacts DEF Sending, Doubled
  <2>5. \A m \in inflight' : m.seq <= seq'
    <3>1. ASSUME NEW t \in A PROVE Sent(s, T, fate, t, 1).seq <= seq'
      BY <1>1, FirstSent
    <3>2. ASSUME NEW t \in D PROVE Sent(s, T, fate, t, 2).seq <= seq'
      BY <1>1, SecondSent
    <3>3. inflight' = inflight \cup {Sent(s, T, fate, t, 1) : t \in A}
                              \cup {Sent(s, T, fate, t, 2) : t \in D}
      BY <1>1, SendingCopies
    <3>4. \A m \in inflight : m.seq <= seq'
      <4>1. seq' = seq + Cardinality(A)
        BY <2>1
      <4> HIDE DEF A
      <4> QED
        BY <1>0, <2>3, <4>1
    <3> HIDE DEF A, D
    <3> QED
      BY <3>1, <3>2, <3>3, <3>4
  <2> HIDE DEF A, D, R
  <2>6. sent' + duplicated' = delivered' + dropped' + Cardinality(inflight')
    BY <1>0, <2>1, <2>2, <2>3, <2>4
  <2> QED
    BY <2>2, <2>5, <2>6 DEF Books, Conservation
<1>2. ASSUME NEW m \in inflight, Landing(m)
      PROVE  Books'
  <2>1. inflight' = inflight \ {m} /\ UNCHANGED <<seq, sent, duplicated>>
    BY <1>2 DEF Landing
  <2>2. IsFiniteSet(inflight \ {m})
        /\ Cardinality(inflight \ {m}) = Cardinality(inflight) - 1
    BY <1>0, FS_RemoveElement
  <2>3. IsFiniteSet(inflight') /\ Cardinality(inflight') = Cardinality(inflight) - 1
    BY <2>1, <2>2, Zenon
  <2>4. ASSUME delivered' = delivered + 1, dropped' = dropped
        PROVE  sent' + duplicated' = delivered' + dropped' + Cardinality(inflight')
    BY <1>0, <2>1, <2>3, <2>4
  <2>5. ASSUME delivered' = delivered, dropped' = dropped + 1
        PROVE  sent' + duplicated' = delivered' + dropped' + Cardinality(inflight')
    BY <1>0, <2>1, <2>3, <2>5
  <2>6. \A c \in inflight' : c.seq <= seq'
    BY <1>0, <2>1
  <2> QED
    BY <2>3, <2>4, <2>5, <2>6, <1>2 DEF Books, Conservation, Landing
<1>3. CASE Resting
  BY <1>3 DEF Resting, traffic, Books, Conservation
<1> QED
  BY <1>1, <1>2, <1>3, TrafficClasses

LEMMA BooksInit == Init => Books
  BY FS_EmptySet DEF Init, NetworkInit, Books, Conservation

\* The books balance in every state: whatever is lost, doubled, cut off, late or
\* sent to a node that died, each message sent and each copy made is delivered,
\* dropped or in flight, and counted once.
THEOREM BooksBalance == Spec => []Conservation
<1>1. Books => Conservation
  BY DEF Books
<1> QED
  BY <1>1, TypeInit, TypeStep, BooksInit, BooksStep, PTL DEF Spec

\* The messages that exist: those in flight and those in a mailbox.
Mail == inflight \cup UNION {{inbox[n][i] : i \in DOMAIN inbox[n]} : n \in Nodes}

\* Whatever is in a mailbox was there before or comes from what is in flight.
LEMMA MailboxesGather ==
    ASSUME TypeOK, [Next]_clusterVars
    PROVE  \A n \in Nodes : \A i \in DOMAIN inbox'[n] : inbox'[n][i] \in Mail
<1>0. /\ inbox \in [Nodes -> Seq(Message)] /\ inflight \subseteq Message
      /\ spawned \subseteq Nodes
  BY DEF TypeOK
<1>1. \A n \in Nodes : \A i \in DOMAIN inbox[n] : inbox[n][i] \in Mail
  BY DEF Mail
<1>2. CASE Undisturbed
  BY <1>1, <1>2 DEF Undisturbed
<1>3. ASSUME NEW m \in inflight, inbox' = [inbox EXCEPT ![m.target] = Append(@, m)],
             NEW n \in Nodes, NEW i \in DOMAIN inbox'[n]
      PROVE  inbox'[n][i] \in Mail
  <2>1. CASE n = m.target
    <3>1. inbox[n] \in Seq(Message) /\ m \in Message
      BY <1>0
    <3>2. inbox'[n] = Append(inbox[n], m)
      BY <1>0, <1>3, <2>1
    <3>3. \/ i \in DOMAIN inbox[n] /\ inbox'[n][i] = inbox[n][i]
          \/ inbox'[n][i] = m
      BY <1>3, <3>1, <3>2, AppendProperties, LenProperties
    <3> QED
      BY <1>1, <3>3 DEF Mail
  <2>2. CASE n # m.target
    BY <1>0, <1>1, <1>3, <2>2
  <2> QED
    BY <2>1, <2>2
<1>4. ASSUME NEW k \in Nodes, inbox[k] # << >>, inbox' = [inbox EXCEPT ![k] = Tail(@)],
             NEW n \in Nodes, NEW i \in DOMAIN inbox'[n]
      PROVE  inbox'[n][i] \in Mail
  <2>1. CASE n = k
    <3>1. inbox[n] \in Seq(Message) /\ inbox[n] # << >>
      BY <1>0, <1>4, <2>1
    <3>2. inbox'[n] = Tail(inbox[n])
      BY <1>0, <1>4, <2>1
    <3>3. /\ Tail(inbox[n]) \in Seq(Message) /\ Len(Tail(inbox[n])) = Len(inbox[n]) - 1
          /\ \A j \in 1 .. Len(Tail(inbox[n])) : Tail(inbox[n])[j] = inbox[n][j + 1]
      BY <3>1, HeadTailProperties
    <3>4. DOMAIN Tail(inbox[n]) = 1 .. Len(Tail(inbox[n]))
          /\ DOMAIN inbox[n] = 1 .. Len(inbox[n]) /\ Len(inbox[n]) \in Nat
      BY <3>1, <3>3, LenProperties
    <3>5. i \in 1 .. Len(Tail(inbox[n]))
      BY <1>4, <3>2, <3>4
    <3>6. i + 1 \in DOMAIN inbox[n]
      BY <3>3, <3>4, <3>5
    <3>7. inbox'[n][i] = inbox[n][i + 1]
      BY <3>2, <3>3, <3>5
    <3> QED
      BY <1>1, <3>6, <3>7
  <2>2. CASE n # k
    BY <1>0, <1>1, <1>4, <2>2
  <2> QED
    BY <2>1, <2>2
<1>5. ASSUME NEW k \in Nodes, Spawning(k) \/ Rising(k)
      PROVE  inbox' = inbox
  BY <1>5 DEF Spawning, Rising, Restart
<1>6. ASSUME NEW k \in Nodes, Falling(k), NEW n \in Nodes, NEW i \in DOMAIN inbox'[n]
      PROVE  inbox'[n][i] \in Mail
  <2>1. inbox' = [inbox EXCEPT ![k] = << >>]
    BY <1>6 DEF Falling, TakeDown
  <2>2. CASE n = k
    <3>1. inbox'[n] = << >>
      BY <1>0, <2>1, <2>2
    <3> QED
      BY <1>6, <3>1
  <2>3. CASE n # k
    BY <1>0, <1>1, <1>6, <2>1, <2>3
  <2> QED
    BY <2>2, <2>3
<1> QED
  BY <1>1, <1>2, <1>3, <1>4, <1>5, <1>6, NodeClasses DEF Mailing

\* A link that was configured stays configured.
LEMMA LinksGrow ==
    ASSUME [Next]_clusterVars
    PROVE  DOMAIN links \subseteq DOMAIN links'
<1> USE DEF clusterVars, networkVars
<1>1. CASE Traffic
  <2>1. ASSUME NEW s, NEW T, SendTo(s, T) PROVE links' = links
    BY <2>1 DEF SendTo, Dispatch
  <2>2. ASSUME NEW c, NEW l, Configure(c[1], c[2], l)
        PROVE  DOMAIN links \subseteq DOMAIN links'
    BY <2>2 DEF Configure
  <2> QED
    BY <1>1, <2>1, <2>2 DEF Traffic, Send, Broadcast, Deliver, Receive
<1>2. CASE Splitting
  BY <1>2 DEF Splitting, NetworkApply, NetworkHeal, NetworkHealAll
<1>3. CASE Time
  BY <1>3 DEF Time, PassTime
<1>4. CASE Faults
  BY <1>4 DEF Faults, Spawn, Crash, Restart, StartChaos, ChaosWake, ChaosHeal
<1> QED
  BY <1>1, <1>2, <1>3, <1>4 DEF Next

LEMMA OneWayStep ==
    ASSUME TypeOK, OneWayOnly, [Next]_clusterVars
    PROVE  OneWayOnly'
<1> DEFINE ByDefault(m) == m.at - m.sent_at \in DefaultLink.min .. DefaultLink.max
<1>1. DOMAIN links \subseteq DOMAIN links'
  BY LinksGrow
<1>2. \A m \in Mail : <<m.source, m.target>> \notin DOMAIN links => ByDefault(m)
  BY DEF OneWayOnly, Mail
<1>3. \A n \in Nodes : \A i \in DOMAIN inbox'[n] :
         LET m == inbox'[n][i]
         IN  <<m.source, m.target>> \notin DOMAIN links' => ByDefault(m)
  BY <1>1, <1>2, MailboxesGather
<1>4. \A m \in inflight' : <<m.source, m.target>> \notin DOMAIN links' => ByDefault(m)
  <2>1. ASSUME NEW s \in Nodes, NEW T \in SUBSET Nodes, NEW fate, Sending(s, T, fate),
               NEW t \in Accepted(T, fate), NEW i \in {1, 2},
               i = 2 => t \in Doubled(T, fate),
               <<s, t>> \notin DOMAIN links
        PROVE  ByDefault(Sent(s, T, fate, t, i))
    <3>1. LinkOf(s, t) = DefaultLink
      BY <2>1, LinkOfType
    <3>2. fate[t][i] \in DefaultLink.min .. DefaultLink.max
      BY <2>1, <3>1, SendingCopies
    <3>3. DefaultLink.min \in Nat /\ DefaultLink.max \in Nat /\ now \in Nat
      BY NetworkAssumption DEF LinkConfig, TypeOK
    <3>4. (now + fate[t][i]) - now = fate[t][i]
      BY <3>2, <3>3
    <3> QED
      BY <3>2, <3>4 DEF Sent
  <2>2. ASSUME NEW s \in Nodes, NEW T \in SUBSET Nodes, NEW fate, Sending(s, T, fate),
               NEW m \in inflight', <<m.source, m.target>> \notin DOMAIN links'
        PROVE  ByDefault(m)
    <3> DEFINE A == Accepted(T, fate)
               D == Doubled(T, fate)
    <3>1. inflight' = inflight \cup {Sent(s, T, fate, t, 1) : t \in A}
                               \cup {Sent(s, T, fate, t, 2) : t \in D} /\ D \subseteq A
      BY <2>2, SendingCopies
    <3>2. CASE m \in inflight
      BY <1>1, <1>2, <2>2, <3>2 DEF Mail
    <3>3. ASSUME NEW t \in A, m = Sent(s, T, fate, t, 1) PROVE ByDefault(m)
      <4>1. m.source = s /\ m.target = t
        BY <3>3 DEF Sent
      <4>2. <<s, t>> \notin DOMAIN links
        BY <1>1, <2>2, <4>1
      <4> QED
        BY <2>1, <2>2, <3>3, <4>2
    <3>4. ASSUME NEW t \in D, m = Sent(s, T, fate, t, 2) PROVE ByDefault(m)
      <4>1. m.source = s /\ m.target = t
        BY <3>4 DEF Sent
      <4>2. <<s, t>> \notin DOMAIN links
        BY <1>1, <2>2, <4>1
      <4> QED
        BY <2>1, <2>2, <3>1, <3>4, <4>2
    <3> HIDE DEF A, D, ByDefault
    <3> QED
      BY <2>2, <3>1, <3>2, <3>3, <3>4
  <2>3. CASE inflight' \subseteq inflight
    BY <1>1, <1>2, <2>3 DEF Mail
  <2> QED
    BY <2>2, <2>3, TrafficClasses DEF Landing, Resting, traffic
<1> HIDE DEF ByDefault
<1>5. \A m \in Mail' : <<m.source, m.target>> \notin DOMAIN links' => ByDefault(m)
  BY <1>3, <1>4 DEF Mail
<1> QED
  BY <1>5 DEF ByDefault, OneWayOnly, Mail

\* A message between two nodes whose own link was never configured took as long
\* as the default link allows: configuring a link touches no other link, not
\* even the way back, and nothing that is under way already.
THEOREM LinksAreOneWay == Spec => []OneWayOnly
<1>1. Init => OneWayOnly
  BY DEF Init, NetworkInit, OneWayOnly
<1> QED
  BY <1>1, TypeInit, TypeStep, OneWayStep, PTL DEF Spec

\* A broadcast that is refused, taken apart: whom it is sent to, ...
LEMMA RefusedTargets ==
    ASSUME TypeOK, RaiseOnPartition, NEW s \in spawned, NEW r \in spawned \ {s},
           ~Reachable(s, r),
           \A t \in spawned \ {s} : t < r => Reachable(s, t)
    PROVE  {t \in spawned \ {s} :
              RaiseOnPartition => \A u \in spawned \ {s} : u < t => Reachable(s, u)}
             = {t \in spawned \ {s} : t <= r}
<1>1. spawned \subseteq Nat
  BY NetworkAssumption DEF TypeOK
<1>2. ASSUME NEW t \in spawned \ {s}
      PROVE  (\A u \in spawned \ {s} : u < t => Reachable(s, u)) <=> t <= r
  <2>1. ASSUME \A u \in spawned \ {s} : u < t => Reachable(s, u) PROVE t <= r
    <3>1. ~(r < t)
      BY <2>1
    <3> QED
      BY <1>1, <3>1
  <2>2. ASSUME t <= r, NEW u \in spawned \ {s}, u < t PROVE Reachable(s, u)
    <3>1. u < r
      BY <1>1, <2>2
    <3> QED
      BY <3>1
  <2> QED
    BY <2>1, <2>2
<1> QED
  BY <1>2

\* ... and what becomes of that.
LEMMA RefusedStep ==
    ASSUME TypeOK, RaiseOnPartition, NEW s \in spawned, NEW r \in spawned \ {s},
           ~Reachable(s, r),
           \A t \in spawned \ {s} : t < r => Reachable(s, t),
           Broadcast(s)
    PROVE  /\ sent' = sent + Cardinality({t \in spawned \ {s} : t <= r})
           /\ \A m \in inflight' \ inflight : m.target < r
<1> DEFINE T == {t \in spawned \ {s} : t <= r}
<1>0. spawned \subseteq Nodes /\ spawned \subseteq Nat /\ r \in T
  <2>1. spawned \subseteq Nodes /\ spawned \subseteq Nat
    BY NetworkAssumption DEF TypeOK
  <2>2. r <= r
    BY <2>1
  <2> QED
    BY <2>1, <2>2
<1>1. SendTo(s, T)
  BY RefusedTargets, Zenon DEF Broadcast
<1>2. \A t, u \in T : u < t => Reachable(s, u)
  <2> TAKE t, u \in T
  <2>1. u \in spawned \ {s} /\ (u < t => u < r)
    BY <1>0
  <2> QED
    BY <2>1
<1>3. s \in Nodes /\ T \in SUBSET Nodes /\ T \subseteq spawned
  BY <1>0
<1> HIDE DEF T
<1>4. PICK fate : Sending(s, T, fate)
  BY <1>1, <1>2, <1>3 DEF SendTo, Sending
<1>5. sent' = sent + Cardinality(T)
  BY <1>4 DEF Sending, Dispatch
<1>6. r \notin Accepted(T, fate)
  BY <1>0, <1>4 DEF Sending, Fates, Accepted
<1>7. \A t \in Accepted(T, fate) : t < r
  BY <1>0, <1>6 DEF Accepted, T
<1>8. /\ inflight' = inflight \cup {Sent(s, T, fate, t, 1) : t \in Accepted(T, fate)}
                              \cup {Sent(s, T, fate, t, 2) : t \in Doubled(T, fate)}
      /\ Doubled(T, fate) \subseteq Accepted(T, fate)
  BY <1>3, <1>4, SendingCopies
<1>9. \A t, i : Sent(s, T, fate, t, i).target = t
  BY DEF Sent
<1>10. \A m \in inflight' \ inflight : m.target \in Accepted(T, fate)
  BY <1>8, <1>9
<1> QED
  BY <1>5, <1>7, <1>10 DEF T

\* With raise_on_partition, whatever the links lose or double: the nodes in front of
\* the first one out of reach are sent to, it is counted, and those behind it, within
\* reach or not, get nothing and are not counted (Network.broadcast and send).
THEOREM NothingIsSentBehindARefusal == Spec => NothingBehindARefusal
<1>1. TypeOK /\ [Next]_clusterVars =>
         [\A s \in spawned : \A r \in spawned \ {s} :
            /\ RaiseOnPartition
            /\ ~Reachable(s, r)
            /\ \A t \in spawned \ {s} : t < r => Reachable(s, t)
            /\ Broadcast(s)
            => /\ sent' = sent + Cardinality({t \in spawned \ {s} : t <= r})
               /\ \A m \in inflight' \ inflight : m.target < r]_clusterVars
  BY RefusedStep
<1> QED
  BY <1>1, TypeInit, TypeStep, PTL DEF Spec, NothingBehindARefusal
=============================================================================
