------------------------------ MODULE Network ------------------------------
(***************************************************************************)
(* askew.sim.net.Network and the end of it that is in askew.sim.node: who  *)
(* may send, what becomes of a message, and the mailbox it ends up in.     *)
(*                                                                         *)
(* A send settles loss, duplication and delay at once and leaves a timer   *)
(* behind for each copy; whether the copy arrives is settled when that     *)
(* timer fires.  Timers are what VirtualTime promises: one fires exactly   *)
(* when it is due, and time does not pass it.                              *)
(*                                                                         *)
(* A payload makes no difference to anything here and is left out; so are  *)
(* the log and the names of nodes.  Cluster adds what happens to nodes.    *)
(***************************************************************************)
EXTENDS Partitions, Sequences

CONSTANTS
    DefaultLink,       \* _link
    OtherLinks,        \* the LinkConfigs a scenario may configure a link with,
    Configurable,      \* and the links, as pairs of source and target
    RaiseOnPartition,  \* raise_on_partition
    MaxSent,           \* bound: sends of a run
    Horizon            \* bound: the last instant looked at

\* A LinkConfig: the range of its latency, and the outcomes its draws for loss
\* and duplication can have ({FALSE} stands for the probability 0.0, {TRUE} for
\* 1.0 and BOOLEAN for what is between).
LinkConfig == [min : Nat, max : Nat, loss : SUBSET BOOLEAN, duplicate : SUBSET BOOLEAN]

ASSUME NetworkAssumption ==
    /\ Nodes \subseteq Nat /\ IsFiniteSet(Nodes)
    /\ {DefaultLink} \cup OtherLinks \subseteq LinkConfig
    /\ Configurable \subseteq Nodes \X Nodes
    /\ RaiseOnPartition \in BOOLEAN
    /\ MaxSent \in Nat
    /\ Horizon \in Nat

VARIABLES
    now,        \* the loop's clock
    links,      \* _links: pairs of nodes that were configured -> LinkConfig
    inflight,   \* the copies with a delivery timer pending
    seq,        \* _seq
    sent,       \* sent
    delivered,  \* delivered
    dropped,    \* dropped
    duplicated, \* duplicated
    spawned,    \* _nodes, the list of nodes shared with the world
    alive,      \* alive of each node
    inbox       \* _inbox of each node

traffic     == <<inflight, seq, sent, delivered, dropped, duplicated>>
nodeVars    == <<spawned, alive, inbox>>
networkVars == <<now, links, traffic, nodeVars, partitionVars>>

NetworkInit ==
    /\ PartitionsInit
    /\ now = 0
    /\ links = [pair \in {} |-> DefaultLink]
    /\ inflight = {}
    /\ seq = 0 /\ sent = 0 /\ delivered = 0 /\ dropped = 0 /\ duplicated = 0
    /\ spawned = {}
    /\ alive = [n \in Nodes |-> FALSE]
    /\ inbox = [n \in Nodes |-> << >>]

\* Variant: the link that was configured for the other direction.
LinkBack(source, target) ==
    IF <<target, source>> \in DOMAIN links THEN links[<<target, source>>]
                                           ELSE DefaultLink

LinkOf(source, target) ==
    IF <<source, target>> \in DOMAIN links THEN links[<<source, target>>]
                                           ELSE DefaultLink

-----------------------------------------------------------------------------
(* Sending.                                                                *)

\* The delays of the copies of one message: of none, of one or of two.
CopyDelays(link) ==
    LET Delays == link.min .. link.max
    IN  {<< >>} \cup {<<d>> : d \in Delays} \cup {<<d, e>> : d, e \in Delays}

\* What one send may come to: a split drops it, its link draws the rest.
Fates(source, target) ==
    LET link == LinkOf(source, target)
    IN  IF ~Reachable(source, target)
        THEN {<< >>}
        ELSE {f \in CopyDelays(link) :
                /\ (f = << >>) \in link.loss
                /\ f # << >> => (Len(f) = 2) \in link.duplicate}

\* Variant: a message that is lost, and not cut off, is not counted.
RefusedByPartition(source, targets, fate) ==
    {t \in targets : ~Reachable(source, t)}

\* The targets whose message is dropped on the spot.
Refused(source, targets, fate) == {t \in targets : fate[t] = << >>}

\* _seq goes up by one for each message accepted, in the order of the nodes.
Number(accepted, t) == seq + Cardinality({u \in accepted : u <= t})

\* The sends of source to each of the targets, one after the other.  Both copies
\* of a message are one object: deliver_at is that of the first.  at is the
\* deadline of the timer.
Dispatch(source, targets, fate) ==
    LET refused  == Refused(source, targets, fate)
        accepted == {t \in targets : fate[t] # << >>}
        doubled  == {t \in targets : Len(fate[t]) = 2}
        Copy(t, i) == [seq |-> Number(accepted, t), copy |-> i,
                       source |-> source, target |-> t, sent_at |-> now,
                       deliver_at |-> now + fate[t][1], at |-> now + fate[t][i]]
    IN  /\ sent + Cardinality(targets) <= MaxSent
        /\ inflight' = inflight \cup
              UNION {{Copy(t, i) : i \in DOMAIN fate[t]} : t \in accepted}
        /\ seq' = seq + Cardinality(accepted)
        /\ sent' = sent + Cardinality(targets)
        /\ dropped' = dropped + Cardinality(refused)
        /\ duplicated' = duplicated + Cardinality(doubled)
        /\ UNCHANGED <<now, links, delivered, nodeVars, partitionVars>>

SendTo(source, targets) ==
    \E fate \in [targets -> UNION {Fates(source, t) : t \in targets}] :
        /\ \A t \in targets : fate[t] \in Fates(source, t)
        /\ Dispatch(source, targets, fate)

\* Node.send refuses when the node is down.
Send(source, target) ==
    /\ {source, target} \subseteq spawned
    /\ alive[source]
    /\ SendTo(source, {target})

\* Variant: the nodes out of reach are skipped, counted and passed over.
BroadcastGoesOn(source) ==
    /\ source \in spawned
    /\ SendTo(source, spawned \ {source})

\* Node.broadcast does not ask whether the node is down.  With
\* raise_on_partition, the first node out of reach ends it.
Broadcast(source) ==
    LET others  == spawned \ {source}
        reached == {t \in others :
                      RaiseOnPartition =>
                         \A u \in others : u < t => Reachable(source, u)}
    IN  /\ source \in spawned
        /\ SendTo(source, reached)

Configure(source, target, link) ==
    /\ links' = [pair \in DOMAIN links \cup {<<source, target>>} |->
                    IF pair = <<source, target>> THEN link ELSE links[pair]]
    /\ UNCHANGED <<now, traffic, nodeVars, partitionVars>>

-----------------------------------------------------------------------------
(* Arrival.                                                                *)

\* Variant: a node that is down still takes messages.
ArrivesAnyway(m) == Reachable(m.source, m.target)

Arrives(m) == Reachable(m.source, m.target) /\ alive[m.target]

\* The timer of a copy fires: the test of reachability is made once more.
Deliver(m) ==
    /\ m.at = now
    /\ inflight' = inflight \ {m}
    /\ IF Arrives(m)
       THEN /\ delivered' = delivered + 1
            /\ inbox' = [inbox EXCEPT ![m.target] = Append(@, m)]
            /\ UNCHANGED dropped
       ELSE dropped' = dropped + 1 /\ UNCHANGED <<delivered, inbox>>
    /\ UNCHANGED <<now, links, seq, sent, duplicated, spawned, alive, partitionVars>>

\* recv or try_recv takes the message at the front.
Receive(n) ==
    /\ inbox[n] # << >>
    /\ inbox' = [inbox EXCEPT ![n] = Tail(@)]
    /\ UNCHANGED <<now, links, traffic, spawned, alive, partitionVars>>

-----------------------------------------------------------------------------
(* Splits, which leave alone what is in flight, and time.                  *)

NetworkApply(p) ==
    /\ Apply(p)
    /\ UNCHANGED <<now, links, traffic, nodeVars>>

NetworkHeal(p) ==
    /\ HealSplit(p)
    /\ UNCHANGED <<now, links, traffic, nodeVars>>

NetworkHealAll ==
    /\ HealAll
    /\ UNCHANGED <<now, links, traffic, nodeVars>>

\* Time moves on, to some instant a coroutine sleeps until, and past none of the
\* timers that are due at the instants given.
PassTime(t, deadlines) ==
    /\ now < t
    /\ \A d \in deadlines : t <= d
    /\ now' = t
    /\ UNCHANGED <<links, traffic, nodeVars, partitionVars>>

Arrivals == {m.at : m \in inflight}
=============================================================================
