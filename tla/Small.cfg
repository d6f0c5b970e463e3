\* A node started three times, with three messages; four transfers between two
\* accounts; three replicas and two terms.
SPECIFICATION MCSpec
CONSTANTS
    alice = alice
    bob = bob
    Incarnations = 3
    MaxSent = 3
    Accounts = {alice, bob}
    Transfers = {1, 2, 3, 4}
    Guarded = TRUE
    Opening = 2
    Amounts = {1, 2}
    Replicas = {1, 2, 3}
    Quorum = TRUE
    MaxTerm = 2
INVARIANTS MailboxTypeOK EveryMessageHasATaker OneLeaderPerTerm LeadersAreElected
PROPERTIES CrashIsNotSwallowed TimedRecvReturns ImplementsBank TransfersSettle
CHECK_DEADLOCK FALSE
