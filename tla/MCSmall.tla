------------------------------- MODULE MCSmall -------------------------------
(* Three small specifications in one run.  Which one a behaviour belongs to is *)
(* settled at its start; the others do not move.                               *)
EXTENDS Mailbox, Ledger, Election

CONSTANTS alice, bob

VARIABLE part

allVars == <<part, vars, ledgerVars, electionVars>>

MCInit ==
    /\ part \in {"mailbox", "ledger", "election"}
    /\ Init /\ LedgerInit /\ ElectionInit
    /\ part # "ledger" =>
          order = [t \in Transfers |-> [source |-> alice, target |-> bob, amount |-> 1]]

MCNext ==
    \/ part = "mailbox" /\ Next /\ UNCHANGED <<part, ledgerVars, electionVars>>
    \/ part = "ledger" /\ LedgerNext /\ UNCHANGED <<part, vars, electionVars>>
    \/ part = "election" /\ ElectionNext /\ UNCHANGED <<part, vars, ledgerVars>>

\* The fairness of Mailbox and Ledger, each for the behaviours that are its own.
MCSpec ==
    /\ MCInit /\ [][MCNext]_allVars
    /\ \A t \in Tasks :
          /\ WF_vars(part = "mailbox" /\ (Resume(t) \/ Throw(t)))
          /\ WF_vars(part = "mailbox" /\ Expire(t))
    /\ \A t \in Transfers : WF_ledgerVars(part = "ledger" /\ LedgerStep(t))
=============================================================================
