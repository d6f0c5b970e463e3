-------------------------- MODULE Partitions_proofs --------------------------
(***************************************************************************)
(* Proofs about Partitions, for any nodes, any splits and any groupings.   *)
(* Both invariants count the active splits with a grouping; applying and   *)
(* healing one adds or removes one member of one such set.                 *)
(***************************************************************************)
EXTENDS Partitions, FiniteSetTheorems, TLAPS

\* The splits of a grouping are finitely many.
LEMMA HoldersFinite ==
    ASSUME NEW g
    PROVE  /\ IsFiniteSet(Holders(g))
           /\ Cardinality(Holders(g)) \in Nat
           /\ Cardinality(Holders(g)') \in Nat
           /\ Cardinality(Holders(g)) = 0 <=> Holders(g) = {}
  <1>1. IsFiniteSet(Holders(g)) /\ IsFiniteSet(Holders(g)')
    BY SplitsAssumption, FS_Subset DEF Holders
  <1> QED BY <1>1, FS_CardinalityType, FS_EmptySet

\* Applying a split that is not active adds it to the holders of its grouping.
LEMMA ApplyHolders ==
    ASSUME PartitionsTypeOK, NEW p \in Splits, Apply(p), ~active[p], NEW g
    PROVE  Cardinality(Holders(g)') =
              Cardinality(Holders(g)) + (IF g = GroupsOf[p] THEN 1 ELSE 0)
  <1>1. active' = [active EXCEPT ![p] = TRUE]
    BY DEF Apply
  <1>2. CASE g = GroupsOf[p]
    <2>1. Holders(g)' = Holders(g) \cup {p} /\ p \notin Holders(g)
      BY <1>1, <1>2 DEF Holders, PartitionsTypeOK
    <2> QED BY <1>2, <2>1, HoldersFinite, FS_AddElement
  <1>3. CASE g # GroupsOf[p]
    <2>1. Holders(g)' = Holders(g)
      BY <1>1, <1>3 DEF Holders, PartitionsTypeOK
    <2> QED BY <1>3, <2>1, HoldersFinite
  <1> QED BY <1>2, <1>3

\* Healing an active split takes it from the holders of its grouping.
LEMMA HealHolders ==
    ASSUME PartitionsTypeOK, NEW p \in Splits, HealSplit(p), NEW g
    PROVE  Cardinality(Holders(g)') =
              Cardinality(Holders(g)) - (IF g = GroupsOf[p] THEN 1 ELSE 0)
  <1>1. active[p] /\ active' = [active EXCEPT ![p] = FALSE]
    BY DEF HealSplit
  <1>2. CASE g = GroupsOf[p]
    <2>1. Holders(g)' = Holders(g) \ {p} /\ p \in Holders(g)
      BY <1>1, <1>2 DEF Holders, PartitionsTypeOK
    <2> QED BY <1>2, <2>1, HoldersFinite, FS_RemoveElement
  <1>3. CASE g # GroupsOf[p]
    <2>1. Holders(g)' = Holders(g)
      BY <1>1, <1>3 DEF Holders, PartitionsTypeOK
    <2> QED BY <1>3, <2>1, HoldersFinite
  <1> QED BY <1>2, <1>3

\* With no split active, nothing is held by anyone.
LEMMA InitHolders ==
    ASSUME PartitionsInit, NEW g
    PROVE  Cardinality(Holders(g)) = 0
  <1>1. Holders(g) = {}
    BY DEF PartitionsInit, Holders
  <1> QED BY <1>1, FS_EmptySet

\* A split has its grouping among the groupings.
LEMMA GroupingOf == \A p \in Splits : GroupsOf[p] \in Groupings
  BY DEF Groupings

-----------------------------------------------------------------------------

LEMMA InitType == PartitionsInit => PartitionsTypeOK
  BY DEF PartitionsInit, PartitionsTypeOK

LEMMA StepType ==
    PartitionsTypeOK /\ [SplitStep \/ HealAll]_partitionVars => PartitionsTypeOK'
  <1> SUFFICES ASSUME PartitionsTypeOK, [SplitStep \/ HealAll]_partitionVars
               PROVE  PartitionsTypeOK'
    OBVIOUS
  <1>1. ASSUME NEW p \in Splits, Apply(p)
        PROVE  PartitionsTypeOK'
    <2>1. overruled' \subseteq Splits
      BY <1>1 DEF Apply, PartitionsTypeOK
    <2>2. CASE active[p]
      BY <1>1, <2>1, <2>2 DEF Apply, PartitionsTypeOK
    <2>3. CASE ~active[p]
      <3>1. /\ held' = [held EXCEPT ![GroupsOf[p]] = @ + 1]
            /\ active' = [active EXCEPT ![p] = TRUE]
        BY <1>1, <2>3 DEF Apply
      <3> QED BY <2>1, <3>1, GroupingOf DEF PartitionsTypeOK
    <2> QED BY <2>2, <2>3
  <1>2. ASSUME NEW p \in Splits, HealSplit(p)
        PROVE  PartitionsTypeOK'
    BY <1>2, GroupingOf DEF HealSplit, PartitionsTypeOK
  <1>3. CASE HealAll
    BY <1>3 DEF HealAll, PartitionsTypeOK
  <1>4. CASE UNCHANGED partitionVars
    BY <1>4 DEF partitionVars, PartitionsTypeOK
  <1> QED BY <1>1, <1>2, <1>3, <1>4 DEF SplitStep

\* The bag and the flags keep their types: nothing is withdrawn that is not
\* there.
THEOREM PartitionsTypeCorrect == PartitionsSpec => []PartitionsTypeOK
  BY InitType, StepType, PTL DEF PartitionsSpec

LEMMA StepNoPhantom ==
    PartitionsTypeOK /\ NoPhantomSplit /\ [SplitStep \/ HealAll]_partitionVars
       => NoPhantomSplit'
  <1> SUFFICES ASSUME PartitionsTypeOK, NoPhantomSplit,
                      [SplitStep \/ HealAll]_partitionVars,
                      NEW g \in Groupings
               PROVE  held'[g] <= Cardinality(Holders(g)')
    BY DEF NoPhantomSplit
  <1>0. held[g] \in Nat /\ held[g] <= Cardinality(Holders(g))
        /\ Cardinality(Holders(g)) \in Nat
    BY HoldersFinite DEF NoPhantomSplit, PartitionsTypeOK
  <1>1. ASSUME NEW p \in Splits, Apply(p)
        PROVE  held'[g] <= Cardinality(Holders(g)')
    <2>1. CASE active[p]
      BY <1>0, <1>1, <2>1 DEF Apply, Holders
    <2>2. CASE ~active[p]
      BY <1>0, <1>1, <2>2, ApplyHolders DEF Apply, PartitionsTypeOK
    <2> QED BY <2>1, <2>2
  <1>2. ASSUME NEW p \in Splits, HealSplit(p)
        PROVE  held'[g] <= Cardinality(Holders(g)')
    <2>1. Cardinality(Holders(g)') \in Nat
      BY HoldersFinite
    <2>2. held'[g] = IF g = GroupsOf[p] THEN (IF held[g] > 0 THEN held[g] - 1 ELSE 0)
                                        ELSE held[g]
      BY <1>2 DEF HealSplit, PartitionsTypeOK
    <2>3. Cardinality(Holders(g)') =
             Cardinality(Holders(g)) - (IF g = GroupsOf[p] THEN 1 ELSE 0)
      BY <1>2, HealHolders
    <2> QED BY <1>0, <2>1, <2>2, <2>3
  <1>3. CASE HealAll
    BY <1>0, <1>3 DEF HealAll, Holders
  <1>4. CASE UNCHANGED partitionVars
    BY <1>0, <1>4 DEF partitionVars, Holders
  <1> QED BY <1>1, <1>2, <1>3, <1>4 DEF SplitStep

\* No grouping outlives the splits that brought it, Network.heal or not.
THEOREM NoPhantoms == PartitionsSpec => []NoPhantomSplit
  <1>1. PartitionsInit => NoPhantomSplit
    BY InitHolders DEF PartitionsInit, NoPhantomSplit
  <1> QED BY <1>1, InitType, StepType, StepNoPhantom, PTL DEF PartitionsSpec

\* When no split is active any more, everybody reaches everybody.
COROLLARY WholeAgain ==
    ASSUME PartitionsTypeOK, NoPhantomSplit, \A p \in Splits : ~active[p],
           NEW s \in Nodes, NEW t \in Nodes
    PROVE  Reachable(s, t)
  <1>1. \A g \in Groupings : held[g] = 0
    <2> TAKE g \in Groupings
    <2>1. Holders(g) = {}
      BY DEF Holders
    <2>2. held[g] \in Nat /\ held[g] <= 0
      BY <2>1, HoldersFinite DEF NoPhantomSplit, PartitionsTypeOK
    <2> QED BY <2>2
  <1> QED BY <1>1 DEF Reachable, Held

LEMMA StepOwn ==
    ASSUME PartitionsTypeOK, NoPhantomSplit, EachHoldsItsOwn,
           [SplitStep \/ HealAll]_partitionVars
    PROVE  EachHoldsItsOwn'
  <1> SUFFICES ASSUME NEW g \in Groupings, \A p \in overruled' : GroupsOf[p] # g
               PROVE  held'[g] = Cardinality(Holders(g)')
    BY DEF EachHoldsItsOwn
  <1>0. overruled \subseteq overruled'
    BY DEF SplitStep, Apply, HealSplit, HealAll, partitionVars
  <1>00. held[g] \in Nat /\ held[g] = Cardinality(Holders(g))
    BY <1>0 DEF EachHoldsItsOwn, PartitionsTypeOK
  <1>1. ASSUME NEW p \in Splits, Apply(p)
        PROVE  held'[g] = Cardinality(Holders(g)')
    <2>1. CASE active[p]
      BY <1>00, <1>1, <2>1 DEF Apply, Holders
    <2>2. CASE ~active[p]
      BY <1>00, <1>1, <2>2, ApplyHolders DEF Apply, PartitionsTypeOK
    <2> QED BY <2>1, <2>2
  <1>2. ASSUME NEW p \in Splits, HealSplit(p)
        PROVE  held'[g] = Cardinality(Holders(g)')
    <2>1. g = GroupsOf[p] => Cardinality(Holders(g)) > 0
      <3> HAVE g = GroupsOf[p]
      <3>1. p \in Holders(g)
        BY <1>2 DEF HealSplit, Holders
      <3>2. Cardinality(Holders(g)) # 0
        BY <3>1, HoldersFinite
      <3> QED BY <3>2, HoldersFinite
    <2>2. held'[g] = IF g = GroupsOf[p] THEN (IF held[g] > 0 THEN held[g] - 1 ELSE 0)
                                        ELSE held[g]
      BY <1>2 DEF HealSplit, PartitionsTypeOK
    <2>3. Cardinality(Holders(g)') =
             Cardinality(Holders(g)) - (IF g = GroupsOf[p] THEN 1 ELSE 0)
      BY <1>2, HealHolders
    <2> QED BY <1>00, <2>1, <2>2, <2>3
  <1>3. CASE HealAll
    <2>1. Holders(g)' = {}
      BY <1>3 DEF HealAll, Holders
    <2> QED BY <1>3, <2>1, FS_EmptySet DEF HealAll
  <1>4. CASE UNCHANGED partitionVars
    BY <1>00, <1>4 DEF partitionVars, Holders
  <1> QED BY <1>1, <1>2, <1>3, <1>4 DEF SplitStep

\* Where Network.heal was not called over the head of an active split, no split
\* ends another one, whatever groupings they share.
THEOREM SplitsAreIndependent == PartitionsSpec => []EachHoldsItsOwn
  <1>1. PartitionsInit => EachHoldsItsOwn
    BY InitHolders DEF PartitionsInit, EachHoldsItsOwn
  <1>2. PartitionsInit => NoPhantomSplit
    BY InitHolders DEF PartitionsInit, NoPhantomSplit
  <1> QED BY <1>1, <1>2, InitType, StepType, StepNoPhantom, StepOwn, PTL
          DEF PartitionsSpec
=============================================================================
