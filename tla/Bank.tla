--------------------------------- MODULE Bank ---------------------------------
(***************************************************************************)
(* What a ledger promises (examples/ledger.py): a transfer happens in one  *)
(* step, or is refused for want of money.                                  *)
(***************************************************************************)
EXTENDS Integers

CONSTANTS Accounts, Transfers, Opening

VARIABLES
    order,     \* source, target and amount of each transfer
    balances,  \* what is in each account
    settled    \* "open", "done" or "refused"

bankVars == <<order, balances, settled>>

BankInit ==
    /\ balances = [a \in Accounts |-> Opening]
    /\ settled = [t \in Transfers |-> "open"]

Transfer(t) ==
    LET o == order[t]
    IN  /\ settled[t] = "open" /\ balances[o.source] >= o.amount
        /\ balances' = [balances EXCEPT ![o.source] = @ - o.amount,
                                        ![o.target] = @ + o.amount]
        /\ settled' = [settled EXCEPT ![t] = "done"]
        /\ UNCHANGED order

Refuse(t) ==
    /\ settled[t] = "open" /\ balances[order[t].source] < order[t].amount
    /\ settled' = [settled EXCEPT ![t] = "refused"]
    /\ UNCHANGED <<order, balances>>

BankSpec ==
    BankInit /\ [][\E t \in Transfers : Transfer(t) \/ Refuse(t)]_bankVars
=============================================================================
