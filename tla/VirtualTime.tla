---------------------------- MODULE VirtualTime ----------------------------
(***************************************************************************)
(* What a loop with virtual time promises the code that runs on it, with   *)
(* the ticks, the heap and the ready queue left out.                       *)
(*                                                                         *)
(* A callback is registered for an instant that has not passed.  It may be *)
(* cancelled; otherwise it fires exactly at its instant and only once.     *)
(* Time never passes, it jumps, and it jumps only when nothing is due: to  *)
(* the instant of the earliest callback still pending.                     *)
(*                                                                         *)
(* The promise ends when the run is broken off (a step limit, or an        *)
(* interruption that escaped from a callback).  From then on only the      *)
(* clock is still trusted not to go back.                                  *)
(*                                                                         *)
(* SimLoop implements this specification.                                  *)
(***************************************************************************)
EXTENDS Integers

CONSTANTS
    Handles,    \* identities of callbacks
    Instants,   \* the instants a callback may be due at
    StartTime   \* the instant the clock starts at

VARIABLES
    now,        \* the virtual clock
    pending,    \* function: registered callback -> the instant it is due
    broken      \* the run was broken off

vars == <<now, pending, broken>>

Init ==
    /\ now = StartTime
    /\ pending = [h \in {} |-> StartTime]
    /\ broken = FALSE

\* A callback is registered for an instant that is not in the past.
Register(h) ==
    /\ h \notin DOMAIN pending
    /\ \E t \in Instants :
          /\ t >= now
          /\ pending' = [g \in DOMAIN pending \cup {h} |->
                            IF g = h THEN t ELSE pending[g]]
    /\ UNCHANGED <<now, broken>>

\* A callback leaves without having fired.
Cancel(h) ==
    /\ h \in DOMAIN pending
    /\ pending' = [g \in DOMAIN pending \ {h} |-> pending[g]]
    /\ UNCHANGED <<now, broken>>

\* A callback fires at its instant: not before it, and not after it.
Fire(h) ==
    /\ h \in DOMAIN pending
    /\ pending[h] = now
    /\ pending' = [g \in DOMAIN pending \ {h} |-> pending[g]]
    /\ UNCHANGED <<now, broken>>

\* With nothing due, the clock jumps to the earliest callback and no further.
Jump ==
    /\ \A h \in DOMAIN pending : pending[h] > now
    /\ \E h \in DOMAIN pending :
          /\ \A g \in DOMAIN pending : pending[h] <= pending[g]
          /\ now' = pending[h]
    /\ UNCHANGED <<pending, broken>>

\* The run is broken off; what was pending stays undone.
Break ==
    /\ broken' = TRUE
    /\ UNCHANGED <<now, pending>>

\* Nothing but the direction of the clock is promised after that.
Aftermath ==
    /\ broken /\ broken'
    /\ now' >= now

Next ==
    \/ \E h \in Handles : Register(h) \/ Cancel(h) \/ Fire(h)
    \/ Jump
    \/ Break
    \/ Aftermath

Spec == Init /\ [][Next]_vars
=============================================================================
