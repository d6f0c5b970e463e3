----------------------------- MODULE Partitions -----------------------------
(***************************************************************************)
(* The splits of askew.sim.net: Partition objects, each with its own idea  *)
(* of whether it is active, and the network's list of the groupings in     *)
(* effect, which says who reaches whom.                                    *)
(*                                                                         *)
(* The list holds groupings and not the objects they came from, and a      *)
(* grouping is taken off it by equality, so objects with equal groupings   *)
(* share its entries.  Only how often a grouping is on the list matters;   *)
(* the list is a bag here.                                                 *)
(***************************************************************************)
EXTENDS Integers, FiniteSets

CONSTANTS
    Nodes,     \* node identifiers
    Splits,    \* the Partition objects of a scenario
    GroupsOf   \* groups: for each object, the group number of every node

VARIABLES
    held,      \* _partitions, as a bag: grouping -> how often it is listed
    active,    \* _active of each Partition
    overruled  \* ghost: the splits that Network.heal found active and did not tell

partitionVars == <<held, active, overruled>>

\* The argument of Network.partition, a sequence of sets of nodes, as a function
\* of the node: a node named twice is in the last group that names it, and the
\* nodes not named are the group -1 of reachable.
GroupMap(groups) ==
    [n \in Nodes |->
        LET named == {i \in DOMAIN groups : n \in groups[i]}
        IN  IF named = {} THEN -1
            ELSE (CHOOSE i \in named : \A j \in named : j <= i) - 1]

Isolate(n) == GroupMap(<<{n}>>)

Groupings == {GroupsOf[p] : p \in Splits}

ASSUME SplitsAssumption ==
    /\ IsFiniteSet(Splits)
    /\ GroupsOf \in [Splits -> [Nodes -> Int]]

Held == {g \in Groupings : held[g] > 0}

Reachable(source, target) == \A g \in Held : g[source] = g[target]

-----------------------------------------------------------------------------

PartitionsInit ==
    /\ held = [g \in Groupings |-> 0]
    /\ active = [p \in Splits |-> FALSE]
    /\ overruled = {}

\* apply, and with it __enter__: nothing happens to one that thinks it is active.
Apply(p) ==
    /\ IF active[p]
       THEN UNCHANGED <<held, active>>
       ELSE /\ held' = [held EXCEPT ![GroupsOf[p]] = @ + 1]
            /\ active' = [active EXCEPT ![p] = TRUE]
    /\ UNCHANGED overruled

\* Variant: the grouping is removed for everybody.
HealSplitAll(p) ==
    /\ active[p]
    /\ held' = [held EXCEPT ![GroupsOf[p]] = 0]
    /\ active' = [active EXCEPT ![p] = FALSE]
    /\ UNCHANGED overruled

\* Variant: the split forgets that it was active before it is withdrawn.
HealSplitKeeps(p) ==
    /\ active[p]
    /\ active' = [active EXCEPT ![p] = FALSE]
    /\ UNCHANGED <<held, overruled>>

\* Variant: an entry to remove is taken for granted.
HealSplitUnguarded(p) ==
    /\ active[p]
    /\ held' = [held EXCEPT ![GroupsOf[p]] = @ - 1]
    /\ active' = [active EXCEPT ![p] = FALSE]
    /\ UNCHANGED overruled

\* heal, and with it __exit__: one entry equal to its grouping goes, if there
\* is any.  Healing one that is not active changes nothing.
HealSplit(p) ==
    /\ active[p]
    /\ held' = [held EXCEPT ![GroupsOf[p]] = IF @ > 0 THEN @ - 1 ELSE 0]
    /\ active' = [active EXCEPT ![p] = FALSE]
    /\ UNCHANGED overruled

\* Network.heal empties the list; the objects are not told.
HealAll ==
    /\ held' = [g \in Groupings |-> 0]
    /\ overruled' = overruled \cup {p \in Splits : active[p]}
    /\ UNCHANGED active

SplitStep == \E p \in Splits : Apply(p) \/ HealSplit(p)

PartitionsSpec ==
    PartitionsInit /\ [][SplitStep \/ HealAll]_partitionVars

-----------------------------------------------------------------------------

Holders(g) == {p \in Splits : active[p] /\ GroupsOf[p] = g}

PartitionsTypeOK ==
    /\ held \in [Groupings -> Nat]
    /\ active \in [Splits -> BOOLEAN]
    /\ overruled \subseteq Splits

\* A grouping is on the list no more often than there are active splits with it:
\* when every split has left its context, the network is whole again, whatever
\* was applied and healed in between, by Network.heal too.
NoPhantomSplit == \A g \in Groupings : held[g] <= Cardinality(Holders(g))

\* As long as Network.heal has not overruled a split with this grouping, each
\* active one has its own entry on the list: no split ends another one early,
\* one with an equal grouping included.
EachHoldsItsOwn ==
    \A g \in Groupings :
        (\A p \in overruled : GroupsOf[p] # g) => held[g] = Cardinality(Holders(g))
=============================================================================
