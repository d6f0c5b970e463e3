------------------------------- MODULE Election -------------------------------
(***************************************************************************)
(* examples/leader_election.py: a replica that hears nothing for its       *)
(* timeout declares itself leader, or stands for election and takes office *)
(* once more than half of the replicas have granted it the term.           *)
(*                                                                         *)
(* A message that was sent may be received at any time, never, or twice:   *)
(* that is what Network makes of latency, loss, duplication and splits.    *)
(***************************************************************************)
EXTENDS Integers, FiniteSets

CONSTANTS
    Replicas,  \* the replicas; total is their number
    Quorum,    \* quorum
    MaxTerm    \* bound: the highest term anybody stands in

Nobody == -1   \* None

ASSUME ElectionAssumption ==
    /\ Replicas \subseteq Nat /\ IsFiniteSet(Replicas)
    /\ Quorum \in BOOLEAN
    /\ MaxTerm \in Nat

VARIABLES
    term,    \* term of each replica
    leader,  \* leader, whom it believes to lead
    votes,   \* votes
    sent     \* every message that was ever sent

electionVars == <<term, leader, votes, sent>>

Payload == [kind : {"standing", "granted", "leader"}, term : 0 .. MaxTerm,
            from : Replicas, to : SUBSET Replicas]

Message(kind, t, from, to) == [kind |-> kind, term |-> t, from |-> from, to |-> to]
Others(r) == Replicas \ {r}

ElectionInit ==
    /\ term = [r \in Replicas |-> 0]
    /\ leader = [r \in Replicas |-> Nobody]
    /\ votes = [r \in Replicas |-> {}]
    /\ sent = {}

\* Nothing was heard for the timeout.
Timeout(r) ==
    /\ term[r] < MaxTerm
    /\ term' = [term EXCEPT ![r] = @ + 1]
    /\ votes' = [votes EXCEPT ![r] = {r}]
    /\ IF Quorum
       THEN /\ sent' = sent \cup {Message("standing", term[r] + 1, r, Others(r))}
            /\ UNCHANGED leader
       ELSE /\ sent' = sent \cup {Message("leader", term[r] + 1, r, Others(r))}
            /\ leader' = [leader EXCEPT ![r] = r]

\* Variant: a replica grants its own term once more.
GrantAgain(r, m) ==
    /\ m.kind = "standing" /\ m.term >= term[r]
    /\ term' = [term EXCEPT ![r] = m.term]
    /\ sent' = sent \cup {Message("granted", m.term, r, {m.from})}
    /\ UNCHANGED <<leader, votes>>

\* A term is granted to the first who stands in it, and with it all before.
Grant(r, m) ==
    /\ m.kind = "standing" /\ m.term > term[r]
    /\ term' = [term EXCEPT ![r] = m.term]
    /\ sent' = sent \cup {Message("granted", m.term, r, {m.from})}
    /\ UNCHANGED <<leader, votes>>

\* Variant: a grant counts whatever term it is for.
CountAny(r, m) ==
    /\ m.kind = "granted"
    /\ votes' = [votes EXCEPT ![r] = @ \cup {m.from}]
    /\ IF Cardinality(votes'[r]) * 2 > Cardinality(Replicas)
       THEN /\ leader' = [leader EXCEPT ![r] = r]
            /\ sent' = sent \cup {Message("leader", term[r], r, Others(r))}
       ELSE UNCHANGED <<leader, sent>>
    /\ UNCHANGED term

\* A grant of the term the replica is in; with more than half of them it leads.
Count(r, m) ==
    /\ m.kind = "granted" /\ m.term = term[r]
    /\ votes' = [votes EXCEPT ![r] = @ \cup {m.from}]
    /\ IF Cardinality(votes'[r]) * 2 > Cardinality(Replicas)
       THEN /\ leader' = [leader EXCEPT ![r] = r]
            /\ sent' = sent \cup {Message("leader", term[r], r, Others(r))}
       ELSE UNCHANGED <<leader, sent>>
    /\ UNCHANGED term

\* A leader of the replica's own term, or a later one, is believed.
Follow(r, m) ==
    /\ m.kind = "leader" /\ m.term >= term[r]
    /\ term' = [term EXCEPT ![r] = m.term]
    /\ leader' = [leader EXCEPT ![r] = m.from]
    /\ UNCHANGED <<votes, sent>>

Receive(r, m) == r \in m.to /\ (Grant(r, m) \/ Count(r, m) \/ Follow(r, m))

ElectionNext == \E r \in Replicas : Timeout(r) \/ \E m \in sent : Receive(r, m)

ElectionSpec == ElectionInit /\ [][ElectionNext]_electionVars

-----------------------------------------------------------------------------

ElectionTypeOK ==
    /\ term \in [Replicas -> 0 .. MaxTerm]
    /\ leader \in [Replicas -> Replicas \cup {Nobody}]
    /\ votes \in [Replicas -> SUBSET Replicas]
    /\ sent \subseteq Payload

\* With the quorum, a term has at most one leader, although messages are lost, late
\* or doubled, and votes outlive the term they were cast in.
OneLeaderPerTerm ==
    Quorum => \A m, k \in sent :
        m.kind = "leader" /\ k.kind = "leader" /\ m.term = k.term => m.from = k.from

\* Whoever claims a term has been granted it, and no other one, by so many that they
\* are more than half of the replicas with itself: grants that come late count for
\* nothing, and votes kept from an earlier term neither.
Granters(r, t) == {v \in Replicas : Message("granted", t, v, {r}) \in sent}

LeadersAreElected ==
    Quorum => \A m \in sent :
        m.kind = "leader" =>
            Cardinality(Granters(m.from, m.term) \cup {m.from}) * 2 > Cardinality(Replicas)
=============================================================================
