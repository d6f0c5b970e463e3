-------------------------------- MODULE Ledger --------------------------------
(***************************************************************************)
(* examples/ledger.py: transfers between accounts, each a task that checks *)
(* a balance, awaits an audit, and only then moves the money; with a lock  *)
(* around that, or without.                                                *)
(*                                                                         *)
(* The lock is an asyncio.Lock: those who wait stand in line, and one that *)
(* comes while somebody does stands behind them, also between the release  *)
(* and the step in which the first of them has the lock.                   *)
(***************************************************************************)
EXTENDS Integers, Sequences, FiniteSets

CONSTANTS
    Accounts,   \* NAMES
    Transfers,  \* the tasks of the group
    Guarded,    \* whether the ledger has a guard
    Opening,    \* OPENING
    Amounts     \* what one transfer may move

ASSUME LedgerAssumption ==
    /\ Guarded \in BOOLEAN
    /\ Opening \in Nat
    /\ Amounts \subseteq Nat

VARIABLES
    order,     \* source, target and amount of each transfer
    balances,  \* balances
    doing,     \* where each transfer is: "new", "queued" for the lock, "auditing",
               \* "done" or "refused"
    queue      \* the waiters of the lock, the first one at the front

ledgerVars == <<order, balances, doing, queue>>

Auditing == {t \in Transfers : doing[t] = "auditing"}
Source(t) == order[t].source

LedgerInit ==
    /\ order \in [Transfers ->
          {o \in [source : Accounts, target : Accounts, amount : Amounts] :
              o.source # o.target}]
    /\ balances = [a \in Accounts |-> Opening]
    /\ doing = [t \in Transfers |-> "new"]
    /\ queue = << >>

\* apply up to the audit: the balance is read.
Check(t) ==
    doing' = [doing EXCEPT ![t] = IF balances[Source(t)] < order[t].amount
                                  THEN "refused" ELSE "auditing"]

\* The lock is held through the audit only: everything else in apply is one step.
Free == Auditing = {} /\ queue = << >>

\* Variant: one that finds the lock taken waits, but not in line.
BeginAside(t) ==
    /\ doing[t] = "new"
    /\ IF Guarded => Free
       THEN Check(t)
       ELSE doing' = [doing EXCEPT ![t] = "queued"]
    /\ UNCHANGED <<order, balances, queue>>

\* transfer: without a guard, or with one that is free, apply begins at once.
Begin(t) ==
    /\ doing[t] = "new"
    /\ IF Guarded => Free
       THEN Check(t) /\ UNCHANGED queue
       ELSE /\ doing' = [doing EXCEPT ![t] = "queued"]
            /\ queue' = Append(queue, t)
    /\ UNCHANGED <<order, balances>>

\* Variant: a release wakes everybody.
AcquireAny(t) ==
    /\ doing[t] = "queued"
    /\ Check(t)
    /\ queue' = SelectSeq(queue, LAMBDA u : u # t)
    /\ UNCHANGED <<order, balances>>

\* The first in line has its step with the lock released.
Acquire(t) ==
    /\ queue # << >> /\ t = Head(queue)
    /\ Auditing = {}
    /\ queue' = Tail(queue)
    /\ Check(t)
    /\ UNCHANGED <<order, balances>>

\* apply after the audit.
Audited(t) ==
    /\ doing[t] = "auditing"
    /\ balances' = [balances EXCEPT ![Source(t)] = @ - order[t].amount,
                                    ![order[t].target] = @ + order[t].amount]
    /\ doing' = [doing EXCEPT ![t] = "done"]
    /\ UNCHANGED <<order, queue>>

LedgerStep(t) == Begin(t) \/ Acquire(t) \/ Audited(t)

LedgerNext == \E t \in Transfers : LedgerStep(t)

LedgerSpec == LedgerInit /\ [][LedgerNext]_ledgerVars

LedgerFairness == \A t \in Transfers : WF_ledgerVars(LedgerStep(t))

-----------------------------------------------------------------------------

LedgerTypeOK ==
    /\ order \in [Transfers -> [source : Accounts, target : Accounts, amount : Amounts]]
    /\ \A t \in Transfers : order[t].source # order[t].target
    /\ balances \in [Accounts -> Int]
    /\ doing \in [Transfers -> {"new", "queued", "auditing", "done", "refused"}]
    /\ queue \in Seq(Transfers)

\* With the guard, the transfers go through as if each had been made in one step,
\* in some order: no balance is read that another transfer then changes.
Settled == [t \in Transfers |->
               IF doing[t] \in {"done", "refused"} THEN doing[t] ELSE "open"]
B == INSTANCE Bank WITH settled <- Settled
ImplementsBank == B!BankSpec

\* No account goes negative.
NoOverdraft == \A a \in Accounts : balances[a] >= 0

\* Every transfer that has begun comes to an end: whoever waits for the lock will
\* have it, however many come and go meanwhile.
TransfersSettle ==
    \A t \in Transfers : doing[t] # "new" ~> doing[t] \in {"done", "refused"}
=============================================================================
