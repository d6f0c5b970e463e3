----------------------------- MODULE MCCluster -----------------------------
(* Small clusters.  p1 and p2 are splits of the scenario, c1 and c2 objects of *)
(* the chaos loop.                                                             *)
EXTENDS Cluster, TLC

CONSTANTS p1, p2, c1, c2

MCNodes2 == 0 .. 1
MCNodes3 == 0 .. 2

\* The scenario isolates node 1, twice: for a node on one side of it others lie behind
\* it, for a node on the other side before it.  The chaos loop draws either order of two
\* nodes.
MCGroupsOf == [p \in Splits |->
    CASE p \in {p1, p2} -> Isolate(1)
      [] p = c1 -> GroupMap(<<{0}, {1}>>)
      [] p = c2 -> GroupMap(<<{1}, {0}>>)]

BothWays == {<<0, 1>>, <<1, 0>>}

Reliable == [min |-> 1, max |-> 1, loss |-> {FALSE}, duplicate |-> {FALSE}]
Slow     == [min |-> 2, max |-> 2, loss |-> {FALSE}, duplicate |-> {FALSE}]
Bad      == [min |-> 0, max |-> 1, loss |-> BOOLEAN, duplicate |-> BOOLEAN]
SlowOnes == {Slow}
=============================================================================
