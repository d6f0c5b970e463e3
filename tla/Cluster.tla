------------------------------ MODULE Cluster ------------------------------
(***************************************************************************)
(* askew.sim.world.World and askew.sim.faults.FaultInjector on top of the  *)
(* network: nodes are spawned, crash and are restarted, the network is cut *)
(* and healed, by the scenario and by the chaos loop.                      *)
(*                                                                         *)
(* What a node's coroutine does is up to it: it may send, broadcast and    *)
(* receive in any order.  So may the scenario, which holds the handles,    *)
(* and the clean-up of a coroutine that was cancelled by a crash.          *)
(***************************************************************************)
EXTENDS Network

CONSTANTS
    ScenarioSplits,  \* the Partition objects of the scenario
    Chaotic,         \* whether the scenario starts the chaos loop
    MaxCrashed,      \* max_crashed of the policy
    Intervals,       \* the delays between two wakeups of the chaos loop
    Durations,       \* the lives of the partitions it makes
    MaxCrashes       \* bound: crashes of a run

ChaosSplits == Splits \ ScenarioSplits

ASSUME ClusterAssumption ==
    /\ Nodes = 0 .. Cardinality(Nodes) - 1
    /\ ScenarioSplits \subseteq Splits
    /\ Chaotic \in BOOLEAN
    /\ MaxCrashed \in Nat
    /\ Intervals \subseteq Nat \ {0}
    /\ Durations \subseteq Nat
    /\ MaxCrashes \in Nat

VARIABLES
    crashed,    \* FaultInjector.crashed, in the order of the crashes
    crashedAt,  \* ghost: when each node last crashed, -1 if it never did
    crashes,    \* bound: crashes so far
    wake,       \* when the chaos loop wakes up next, -1 if it is not running
    heals       \* the timers that heal what the chaos loop cut

faultVars   == <<crashed, crashedAt, crashes, wake, heals>>
clusterVars == <<networkVars, faultVars>>

Down == {n \in spawned : ~alive[n]}

-----------------------------------------------------------------------------

\* The new node is the next in the list and starts at the next tick.
Spawn(n) ==
    /\ n = Cardinality(spawned)
    /\ spawned' = spawned \cup {n}
    /\ alive' = [alive EXCEPT ![n] = TRUE]
    /\ UNCHANGED <<now, links, traffic, inbox, partitionVars, faultVars>>

\* The part of a crash that concerns the node; cancelling its task is left to
\* the task.  Idempotent: nothing happens to a node that is down.
TakeDown(n) ==
    /\ alive[n]
    /\ alive' = [alive EXCEPT ![n] = FALSE]
    /\ crashed' = Append(crashed, n)
    /\ inbox' = [inbox EXCEPT ![n] = << >>]
    /\ crashedAt' = [crashedAt EXCEPT ![n] = now]
    /\ crashes < MaxCrashes
    /\ crashes' = crashes + 1

Crash(n) ==
    /\ n \in spawned
    /\ TakeDown(n)
    /\ UNCHANGED <<now, links, traffic, spawned, partitionVars, wake, heals>>

\* list.remove: the list without the first entry that is n, if there is one.
Without(list, n) ==
    IF \E i \in DOMAIN list : list[i] = n
    THEN LET first == CHOOSE i \in DOMAIN list :
                         list[i] = n /\ \A j \in DOMAIN list : list[j] = n => i <= j
         IN  [j \in 1 .. Len(list) - 1 |-> IF j < first THEN list[j] ELSE list[j + 1]]
    ELSE list

\* Variant: the list of the crashed is not told.
RestartUnlisted(n) ==
    /\ n \in spawned /\ ~alive[n]
    /\ alive' = [alive EXCEPT ![n] = TRUE]
    /\ UNCHANGED <<now, links, traffic, spawned, inbox, partitionVars, crashed,
                   crashedAt, crashes, wake, heals>>

\* The node comes back with the mailbox it has, which the crash has emptied.
\* Whether its own attributes are wiped (fresh) is nothing the network sees.
Restart(n) ==
    /\ n \in spawned /\ ~alive[n]
    /\ alive' = [alive EXCEPT ![n] = TRUE]
    /\ crashed' = Without(crashed, n)
    /\ UNCHANGED <<now, links, traffic, spawned, inbox, partitionVars, crashedAt,
                   crashes, wake, heals>>

-----------------------------------------------------------------------------
(* The chaos loop.                                                         *)

StartChaos ==
    /\ Chaotic /\ wake = -1
    /\ \E i \in Intervals : wake' = now + i
    /\ UNCHANGED <<networkVars, crashed, crashedAt, crashes, heals>>

\* Variant: the limit is compared too late by one.
MayCrashOneMore(n) == n \in spawned /\ alive[n] /\ Len(crashed) <= MaxCrashed

\* crash_random: one of the nodes that are up, unless too many are down.
MayCrash(n) == n \in spawned /\ alive[n] /\ Len(crashed) < MaxCrashed

\* partition_random: the nodes in any order, in slices of a size.
RandomGroupings(groups) ==
    LET count == Cardinality(spawned)
        size  == IF count \div groups > 1 THEN count \div groups ELSE 1
        orders == {f \in [spawned -> 0 .. count - 1] :
                     \A m, n \in spawned : f[m] = f[n] => m = n}
    IN  {[n \in Nodes |-> IF n \in spawned THEN order[n] \div size ELSE -1] :
            order \in orders}

\* A Partition object nobody has yet, with a grouping that may be drawn.
NewSplit(p) ==
    /\ p \in ChaosSplits
    /\ ~active[p]
    /\ GroupsOf[p] \in RandomGroupings(2)

\* One turn of the loop: perhaps a crash, perhaps a split with the timer that
\* heals it, and the next wakeup.
ChaosCrash ==
    \/ \E n \in Nodes :
          /\ MayCrash(n)
          /\ TakeDown(n)
    \/ UNCHANGED <<alive, crashed, inbox, crashedAt, crashes>>

\* Variant: the timer is set only if no other one is pending.
ChaosSplitShares ==
    \/ \E p \in ChaosSplits, d \in Durations :
          /\ NewSplit(p)
          /\ Apply(p)
          /\ heals' = IF heals = {} THEN {[split |-> p, at |-> now + d]} ELSE heals
    \/ UNCHANGED <<partitionVars, heals>>

ChaosSplit ==
    \/ \E p \in ChaosSplits, d \in Durations :
          /\ NewSplit(p)
          /\ Apply(p)
          /\ heals' = heals \cup {[split |-> p, at |-> now + d]}
    \/ UNCHANGED <<partitionVars, heals>>

ChaosWake ==
    /\ wake = now
    /\ ChaosCrash
    /\ ChaosSplit
    /\ \E i \in Intervals : wake' = now + i
    /\ UNCHANGED <<now, links, traffic, spawned>>

\* Variant: the grouping is withdrawn from the network, the object not told.
ChaosHealWithdraws(h) ==
    /\ h.at = now
    /\ heals' = heals \ {h}
    /\ held' = [held EXCEPT ![GroupsOf[h.split]] = IF @ > 0 THEN @ - 1 ELSE 0]
    /\ UNCHANGED <<active, overruled>>
    /\ UNCHANGED <<now, links, traffic, nodeVars, crashed, crashedAt, crashes, wake>>

\* The timer heals its split, which may be on the list no more.
ChaosHeal(h) ==
    /\ h.at = now
    /\ heals' = heals \ {h}
    /\ IF active[h.split] THEN HealSplit(h.split) ELSE UNCHANGED partitionVars
    /\ UNCHANGED <<now, links, traffic, nodeVars, crashed, crashedAt, crashes, wake>>

-----------------------------------------------------------------------------

FaultsInit ==
    /\ crashed = << >>
    /\ crashedAt = [n \in Nodes |-> -1]
    /\ crashes = 0
    /\ wake = -1
    /\ heals = {}

\* A new world: no node yet, an empty network, nothing crashed.
Init == NetworkInit /\ FaultsInit

\* The deadlines of all timers that are pending.
Deadlines == Arrivals \cup {h.at : h \in heals} \cup ({wake} \ {-1})

Traffic ==
    /\ \/ \E s, t \in Nodes : Send(s, t)
       \/ \E s \in Nodes : Broadcast(s)
       \/ \E c \in Configurable, l \in OtherLinks : Configure(c[1], c[2], l)
       \/ \E m \in inflight : Deliver(m)
       \/ \E n \in Nodes : Receive(n)
    /\ UNCHANGED faultVars

Splitting ==
    /\ \/ \E p \in ScenarioSplits : NetworkApply(p) \/ NetworkHeal(p)
       \/ NetworkHealAll
    /\ UNCHANGED faultVars

Time ==
    /\ \E t \in 1 .. Horizon : PassTime(t, Deadlines)
    /\ UNCHANGED faultVars

Faults ==
    \/ \E n \in Nodes : Spawn(n) \/ Crash(n) \/ Restart(n)
    \/ StartChaos \/ ChaosWake
    \/ \E h \in heals : ChaosHeal(h)

Next == Traffic \/ Splitting \/ Time \/ Faults

Spec == Init /\ [][Next]_clusterVars

-----------------------------------------------------------------------------

Message ==
    [seq : Nat, copy : {1, 2}, source : Nodes, target : Nodes, sent_at : Nat,
     deliver_at : Nat, at : Nat]

TypeOK ==
    /\ PartitionsTypeOK
    /\ now \in Nat
    /\ DOMAIN links \subseteq Configurable
    /\ links \in [DOMAIN links -> OtherLinks]
    /\ inflight \subseteq Message
    /\ <<seq, sent, delivered, dropped, duplicated>> \in Nat \X Nat \X Nat \X Nat \X Nat
    /\ spawned \subseteq Nodes /\ spawned = 0 .. Cardinality(spawned) - 1
    /\ alive \in [Nodes -> BOOLEAN]
    /\ inbox \in [Nodes -> Seq(Message)]
    /\ crashed \in Seq(Nodes)
    /\ crashedAt \in [Nodes -> Nat \cup {-1}]
    /\ crashes \in 0 .. MaxCrashes
    /\ wake \in Nat \cup {-1}
    /\ heals \subseteq [split : ChaosSplits, at : Nat]

\* The books of the network balance: every message sent and every extra copy
\* made is delivered, dropped or still in flight, and is so once.
Conservation == sent + duplicated = delivered + dropped + Cardinality(inflight)

\* The mailbox of a node that is down is empty, and stays so however late a
\* message arrives: it is what a restart starts with.
DownIsEmpty == \A n \in Nodes : ~alive[n] => inbox[n] = << >>

\* FaultInjector.crashed lists the nodes that are down, each of them once;
\* crash_random takes its length for their number.
CrashedAreDown ==
    /\ {crashed[i] : i \in DOMAIN crashed} = Down
    /\ Len(crashed) = Cardinality(Down)

\* Configuring a link concerns one direction of one link: a message between two
\* nodes whose own link was never configured took as long as the default allows.
OneWayOnly ==
    \A m \in inflight \cup UNION {{inbox[n][i] : i \in DOMAIN inbox[n]} : n \in Nodes} :
        <<m.source, m.target>> \notin DOMAIN links =>
            m.at - m.sent_at \in DefaultLink.min .. DefaultLink.max

\* What the chaos loop cuts has a timer pending that heals it, even if
\* Network.heal was called meanwhile or another split was made.
ChaosIsHealed ==
    \A p \in ChaosSplits :
        active[p] => \E h \in heals : h.split = p /\ h.at >= now

\* The chaos loop does not crash a node when max_crashed of them are down
\* already, crashes by the scenario included.
ChaosKeepsQuorum ==
    [][Faults /\ wake' # wake /\ Cardinality(Down') > Cardinality(Down)
          => Cardinality(Down') <= MaxCrashed]_clusterVars

\* With raise_on_partition, a broadcast stops at the first node r it cannot reach:
\* what it adds is a send for each node up to r, r included, and no copy of the
\* message is under way to r or to a node behind it, within reach or not.
NothingBehindARefusal ==
    [][\A s \in spawned : \A r \in spawned \ {s} :
         /\ RaiseOnPartition
         /\ ~Reachable(s, r)
         /\ \A t \in spawned \ {s} : t < r => Reachable(s, t)
         /\ Broadcast(s)
         => /\ sent' = sent + Cardinality({t \in spawned \ {s} : t <= r})
            /\ \A m \in inflight' \ inflight : m.target < r]_clusterVars

\* A node that is down sends nothing: its code is told so (NodeCrashed) "instead
\* of sending into a network that would drop it".
DownIsSilent ==
    [][\A m \in inflight' : m.seq > seq => alive[m.source]]_clusterVars

\* After a restart the mailbox holds nothing sent before the crash: "whatever
\* was in flight when it died is gone".
RestartsEmptyHanded ==
    \A n \in Nodes : \A i \in DOMAIN inbox[n] : inbox[n][i].sent_at >= crashedAt[n]
=============================================================================
