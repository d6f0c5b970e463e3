--------------------------- MODULE Examples_proofs ---------------------------
(***************************************************************************)
(* The guarded ledger implements Bank, for any accounts, transfers and     *)
(* amounts, no account goes negative, and nobody in line for the lock is   *)
(* overtaken.                                                              *)
(*                                                                         *)
(* A term has at most one leader, for any number of replicas and terms,    *)
(* although messages may come at any time, twice, or never.                *)
(***************************************************************************)
EXTENDS Ledger, Election, FiniteSetTheorems, TLAPS

-----------------------------------------------------------------------------
(* The ledger.                                                             *)

\* The strengthening.  At most one transfer is between its check and its end, and
\* what it has checked still holds; whoever stands in line has checked nothing.
OneAudits ==
    \A t, u \in Transfers : doing[t] = "auditing" /\ doing[u] = "auditing" => t = u

CheckHolds ==
    \A t \in Transfers : doing[t] = "auditing" => balances[Source(t)] >= order[t].amount

InLine ==
    /\ \A i \in DOMAIN queue : doing[queue[i]] = "queued"
    /\ \A i, j \in DOMAIN queue : queue[i] = queue[j] => i = j

LedgerInv == LedgerTypeOK /\ OneAudits /\ CheckHolds /\ InLine /\ NoOverdraft

\* The ledger as it opens.
LEMMA LedgerInvInit == LedgerInit => LedgerInv
  BY LedgerAssumption
  DEF LedgerInit, LedgerInv, LedgerTypeOK, OneAudits, CheckHolds, InLine, NoOverdraft

\* A check by a transfer that is next to hold the lock.
LEMMA CheckInv ==
  ASSUME LedgerInv, NEW t \in Transfers, Auditing = {}, Check(t),
         UNCHANGED <<order, balances>>
  PROVE  /\ doing' \in [Transfers -> {"new", "queued", "auditing", "done", "refused"}]
         /\ OneAudits' /\ CheckHolds' /\ NoOverdraft'
  <1>1. /\ doing' \in [Transfers -> {"new", "queued", "auditing", "done", "refused"}]
        /\ \A u \in Transfers : u # t => doing'[u] = doing[u]
        /\ doing'[t] = "auditing" => ~(balances[Source(t)] < order[t].amount)
    BY DEF LedgerInv, LedgerTypeOK, Check
  <1>2. \A u \in Transfers : doing[u] # "auditing"
    BY DEF Auditing
  <1>3. OneAudits'
    BY <1>1, <1>2 DEF OneAudits
  <1>4. balances[Source(t)] \in Int /\ order[t].amount \in Int
    <2>1. order[t] \in [source : Accounts, target : Accounts, amount : Amounts]
      BY DEF LedgerInv, LedgerTypeOK
    <2>2. order[t].source \in Accounts /\ order[t].amount \in Amounts
      BY <2>1
    <2>3. Amounts \subseteq Nat
      BY LedgerAssumption
    <2>4. order[t].amount \in Nat
      BY <2>2, <2>3
    <2>5. order[t].amount \in Int
      BY <2>4
    <2> QED BY <2>2, <2>5 DEF LedgerInv, LedgerTypeOK, Source
  <1>5. CheckHolds'
    BY <1>1, <1>2, <1>4 DEF CheckHolds, Source
  <1>6. NoOverdraft'
    BY DEF LedgerInv, NoOverdraft
  <1> QED BY <1>1, <1>3, <1>5, <1>6

\* A transfer that begins; the lock is free, or it goes to the end of the line.
LEMMA BeginInv ==
  ASSUME LedgerInv, Guarded, NEW t \in Transfers, Begin(t)
  PROVE  LedgerInv'
  <1>1. CASE Free
    <2>1. Auditing = {} /\ Check(t) /\ UNCHANGED <<order, balances, queue>> /\ queue = << >>
      BY <1>1 DEF Begin, Free
    <2>2. LedgerTypeOK' /\ InLine'
      BY <2>1, CheckInv DEF LedgerInv, LedgerTypeOK, InLine
    <2> QED BY <2>1, <2>2, CheckInv DEF LedgerInv
  <1>2. CASE ~Free
    <2>1. /\ doing[t] = "new" /\ doing' = [doing EXCEPT ![t] = "queued"]
          /\ queue' = Append(queue, t) /\ UNCHANGED <<order, balances>>
      BY <1>2 DEF Begin
    <2>2. LedgerTypeOK' /\ OneAudits' /\ CheckHolds' /\ NoOverdraft'
      BY <2>1 DEF LedgerInv, LedgerTypeOK, OneAudits, CheckHolds, NoOverdraft, Source
    <2>3. InLine'
      BY <2>1 DEF LedgerInv, LedgerTypeOK, InLine
    <2> QED BY <2>2, <2>3 DEF LedgerInv
  <1> QED BY <1>1, <1>2

\* The first in line has the lock.
LEMMA AcquireInv ==
  ASSUME LedgerInv, NEW t \in Transfers, Acquire(t)
  PROVE  LedgerInv'
  <1>1. /\ queue # << >> /\ t = Head(queue) /\ queue' = Tail(queue)
        /\ Auditing = {} /\ Check(t) /\ UNCHANGED <<order, balances>>
    BY DEF Acquire
  <1>2. InLine'
    <2>1. \A u \in Transfers : u # t => doing'[u] = doing[u]
      BY <1>1 DEF LedgerInv, LedgerTypeOK, Check
    <2>2. /\ Len(queue') = Len(queue) - 1
          /\ \A i \in DOMAIN queue' : i + 1 \in DOMAIN queue /\ queue'[i] = queue[i + 1]
                                          /\ queue[i + 1] \in Transfers
          /\ 1 \in DOMAIN queue /\ queue[1] = t
      BY <1>1 DEF LedgerInv, LedgerTypeOK
    <2>3. \A i \in DOMAIN queue' : queue[i + 1] # t
      <3>1. \A i \in DOMAIN queue' : i + 1 # 1
        BY <1>1 DEF LedgerInv, LedgerTypeOK
      <3> QED BY <2>2, <3>1 DEF LedgerInv, InLine
    <2>4. \A i \in DOMAIN queue' : doing'[queue'[i]] = "queued"
      BY <2>1, <2>2, <2>3 DEF LedgerInv, InLine
    <2>5. \A i, j \in DOMAIN queue' : queue'[i] = queue'[j] => i = j
      BY <2>2, <1>1 DEF LedgerInv, InLine, LedgerTypeOK
    <2> QED BY <2>4, <2>5 DEF InLine
  <1>3. LedgerTypeOK'
    BY <1>1, CheckInv DEF LedgerInv, LedgerTypeOK
  <1> QED BY <1>1, <1>2, <1>3, CheckInv DEF LedgerInv

\* The money is moved.
LEMMA AuditedInv ==
  ASSUME LedgerInv, NEW t \in Transfers, Audited(t)
  PROVE  LedgerInv'
  <1>1. /\ doing[t] = "auditing" /\ doing' = [doing EXCEPT ![t] = "done"]
        /\ UNCHANGED <<order, queue>>
        /\ balances' = [balances EXCEPT ![Source(t)] = @ - order[t].amount,
                                        ![order[t].target] = @ + order[t].amount]
    BY DEF Audited
  <1>2. /\ Source(t) \in Accounts /\ order[t].target \in Accounts
        /\ Source(t) # order[t].target /\ order[t].amount \in Nat
    BY LedgerAssumption DEF LedgerInv, LedgerTypeOK, Source
  <1>3. LedgerTypeOK'
    BY <1>1, <1>2 DEF LedgerInv, LedgerTypeOK
  <1>4. OneAudits' /\ InLine'
    BY <1>1 DEF LedgerInv, LedgerTypeOK, OneAudits, InLine
  <1>5. CheckHolds'
    <2>1. \A u \in Transfers : doing'[u] # "auditing"
      BY <1>1 DEF LedgerInv, LedgerTypeOK, OneAudits
    <2> QED BY <2>1 DEF CheckHolds
  <1>6. NoOverdraft'
    <2>1. balances[Source(t)] >= order[t].amount
      BY <1>1 DEF LedgerInv, CheckHolds
    <2>2. ASSUME NEW a \in Accounts
          PROVE  balances'[a] >= 0
      <3>1. balances[a] \in Int /\ balances[a] >= 0
        BY DEF LedgerInv, LedgerTypeOK, NoOverdraft
      <3>2. CASE a = Source(t)
        BY <1>1, <1>2, <2>1, <3>1, <3>2 DEF LedgerInv, LedgerTypeOK
      <3>3. CASE a = order[t].target
        BY <1>1, <1>2, <3>1, <3>3 DEF LedgerInv, LedgerTypeOK
      <3>4. CASE a # Source(t) /\ a # order[t].target
        BY <1>1, <1>2, <3>1, <3>4 DEF LedgerInv, LedgerTypeOK
      <3> QED BY <3>2, <3>3, <3>4
    <2> QED BY <2>2 DEF NoOverdraft
  <1> QED BY <1>3, <1>4, <1>5, <1>6 DEF LedgerInv

\* Every step of the guarded ledger keeps the invariant.
LEMMA LedgerInvStep ==
  ASSUME LedgerInv, Guarded, [LedgerNext]_ledgerVars
  PROVE  LedgerInv'
  <1>1. CASE UNCHANGED ledgerVars
    BY <1>1 DEF LedgerInv, LedgerTypeOK, OneAudits, CheckHolds, InLine, NoOverdraft,
                ledgerVars, Source
  <1>2. CASE LedgerNext
    BY <1>2, BeginInv, AcquireInv, AuditedInv DEF LedgerNext, LedgerStep
  <1> QED BY <1>1, <1>2

\* The type invariant of the ledger with a guard, and the rest of what is always so.
THEOREM LedgerInvariant ==
  ASSUME Guarded
  PROVE  LedgerSpec => []LedgerInv
  <1>1. LedgerInit => LedgerInv
    BY LedgerInvInit
  <1>2. LedgerInv /\ [LedgerNext]_ledgerVars => LedgerInv'
    BY LedgerInvStep
  <1> QED BY <1>1, <1>2, PTL DEF LedgerSpec

\* No account goes negative, whatever is transferred: the assertion both tests make.
THEOREM NoAccountIsOverdrawn ==
  ASSUME Guarded
  PROVE  LedgerSpec => []NoOverdraft
  <1>1. LedgerInv => NoOverdraft
    BY DEF LedgerInv
  <1> QED BY <1>1, LedgerInvariant, PTL

-----------------------------------------------------------------------------

\* A step of the ledger is one of the bank or none: a check that fails is Refuse,
\* the step after the audit is Transfer.
LEMMA LedgerStepMaps ==
  ASSUME LedgerInv, [LedgerNext]_ledgerVars
  PROVE  [\E t \in Transfers : B!Transfer(t) \/ B!Refuse(t)]_B!bankVars
  <1>1. CASE UNCHANGED ledgerVars
    BY <1>1 DEF ledgerVars, B!bankVars, Settled
  <1>2. ASSUME NEW t \in Transfers, Audited(t)
        PROVE  B!Transfer(t)
    <2>1. Settled[t] = "open" /\ Settled' = [Settled EXCEPT ![t] = "done"]
      BY <1>2 DEF Audited, Settled, LedgerInv, LedgerTypeOK
    <2> QED BY <2>1, <1>2 DEF Audited, B!Transfer, LedgerInv, CheckHolds, Source
  <1>3. ASSUME NEW t \in Transfers, doing[t] \in {"new", "queued"}, Check(t),
               UNCHANGED <<order, balances>>
        PROVE  B!Refuse(t) \/ UNCHANGED B!bankVars
    <2>1. CASE balances[Source(t)] < order[t].amount
      <3>1. doing' = [doing EXCEPT ![t] = "refused"]
        BY <1>3, <2>1 DEF Check
      <3>2. Settled[t] = "open" /\ Settled' = [Settled EXCEPT ![t] = "refused"]
        BY <1>3, <3>1 DEF Settled, LedgerInv, LedgerTypeOK
      <3> QED BY <1>3, <2>1, <3>2 DEF B!Refuse, Source
    <2>2. CASE ~(balances[Source(t)] < order[t].amount)
      <3>1. doing' = [doing EXCEPT ![t] = "auditing"]
        BY <1>3, <2>2 DEF Check
      <3>2. Settled' = Settled
        BY <1>3, <3>1 DEF Settled, LedgerInv, LedgerTypeOK
      <3> QED BY <1>3, <3>2 DEF B!bankVars
    <2> QED BY <2>1, <2>2
  <1>4. ASSUME NEW t \in Transfers, Acquire(t)
        PROVE  B!Refuse(t) \/ UNCHANGED B!bankVars
    <2>1. doing[t] = "queued"
      BY <1>4 DEF Acquire, LedgerInv, LedgerTypeOK, InLine
    <2> QED BY <1>3, <1>4, <2>1 DEF Acquire
  <1>5. ASSUME NEW t \in Transfers, Begin(t)
        PROVE  B!Refuse(t) \/ UNCHANGED B!bankVars
    <2>1. CASE Guarded => Free
      BY <1>3, <1>5, <2>1 DEF Begin
    <2>2. CASE ~(Guarded => Free)
      <3>1. doing[t] = "new" /\ doing' = [doing EXCEPT ![t] = "queued"]
        BY <1>5, <2>2 DEF Begin
      <3>2. Settled' = Settled
        BY <3>1 DEF Settled, LedgerInv, LedgerTypeOK
      <3> QED BY <1>5, <3>2 DEF Begin, B!bankVars
    <2> QED BY <2>1, <2>2
  <1> QED BY <1>1, <1>2, <1>4, <1>5 DEF LedgerNext, LedgerStep

\* With the guard, the ledger is a bank: transfers that check, wait and only then
\* move the money look as if each had been made at once.
THEOREM LedgerImplementsBank ==
  ASSUME Guarded
  PROVE  LedgerSpec => ImplementsBank
  <1>1. LedgerInit => B!BankInit
    BY DEF LedgerInit, B!BankInit, Settled
  <1>2. LedgerInv /\ [LedgerNext]_ledgerVars
          => [\E t \in Transfers : B!Transfer(t) \/ B!Refuse(t)]_B!bankVars
    BY LedgerStepMaps
  <1> QED BY <1>1, <1>2, LedgerInvariant, PTL DEF LedgerSpec, ImplementsBank, B!BankSpec

-----------------------------------------------------------------------------
(* What TransfersSettle rests on.  Whoever waits for the lock stands in    *)
(* line, somebody can always go on, and each who does brings all that      *)
(* wait nearer to the lock.                                                *)

PlaceIn(line, t) == CHOOSE i \in DOMAIN line : line[i] = t

\* Each place in line is two steps, its check and its end; one is that of the audit
\* under way.
Ahead(t) == 2 * PlaceIn(queue, t) + (IF Auditing = {} THEN 0 ELSE 1)

QueuedStand == \A t \in Transfers : doing[t] = "queued" => \E i \in DOMAIN queue : queue[i] = t

\* As long as somebody waits, an audit is under way, or the first in line has the lock
\* for the taking.
LockMovesOn ==
    (\E t \in Transfers : doing[t] = "queued") =>
        \E u \in Transfers : \/ doing[u] = "auditing"
                             \/ queue # << >> /\ u = Head(queue) /\ Auditing = {}

\* Nobody is overtaken, however many come meanwhile.
NobodyOvertakes ==
    [][\A t \in Transfers : doing[t] = "queued" /\ doing'[t] = "queued" =>
          /\ Ahead(t) \in Nat /\ Ahead(t)' \in Nat /\ Ahead(t)' <= Ahead(t)
          /\ (\E u \in Transfers : Acquire(u) \/ Audited(u)) => Ahead(t)' < Ahead(t)]_ledgerVars

LEMMA PlaceInIs ==
  ASSUME NEW line, \A i, j \in DOMAIN line : line[i] = line[j] => i = j,
         NEW k \in DOMAIN line
  PROVE  PlaceIn(line, line[k]) = k
  BY DEF PlaceIn

LEMMA QueuedStandStep ==
  ASSUME LedgerInv, QueuedStand, Guarded, [LedgerNext]_ledgerVars
  PROVE  QueuedStand'
  <1> USE DEF LedgerInv, LedgerTypeOK
  <1>1. CASE UNCHANGED ledgerVars
    BY <1>1 DEF ledgerVars, QueuedStand
  <1>2. ASSUME NEW t \in Transfers, Begin(t)
        PROVE  QueuedStand'
    <2>1. CASE Free
      BY <1>2, <2>1 DEF Begin, Check, QueuedStand
    <2>2. CASE ~Free
      <3>1. doing' = [doing EXCEPT ![t] = "queued"] /\ queue' = Append(queue, t)
        BY <1>2, <2>2 DEF Begin
      <3>2. /\ \A i \in DOMAIN queue : i \in DOMAIN queue' /\ queue'[i] = queue[i]
            /\ Len(queue) + 1 \in DOMAIN queue' /\ queue'[Len(queue) + 1] = t
        BY <3>1
      <3> QED BY <3>1, <3>2 DEF QueuedStand
    <2> QED BY <2>1, <2>2
  <1>3. ASSUME NEW t \in Transfers, Acquire(t)
        PROVE  QueuedStand'
    <2>1. queue' = Tail(queue) /\ queue # << >> /\ t = queue[1]
      BY <1>3 DEF Acquire
    <2>2. \A i \in DOMAIN queue : i # 1 => i - 1 \in DOMAIN queue' /\ queue'[i - 1] = queue[i]
      BY <2>1
    <2>3. \A u \in Transfers : doing'[u] = "queued" => u # t /\ doing[u] = "queued"
      BY <1>3 DEF Acquire, Check
    <2>4. ASSUME NEW u \in Transfers, doing'[u] = "queued"
          PROVE  \E i \in DOMAIN queue' : queue'[i] = u
      <3>1. PICK i \in DOMAIN queue : queue[i] = u
        BY <2>3, <2>4 DEF QueuedStand
      <3>2. i # 1
        BY <2>1, <2>3, <2>4, <3>1
      <3> QED BY <2>2, <3>1, <3>2
    <2> QED BY <2>4 DEF QueuedStand
  <1>4. ASSUME NEW t \in Transfers, Audited(t)
        PROVE  QueuedStand'
    BY <1>4 DEF Audited, QueuedStand
  <1> QED BY <1>1, <1>2, <1>3, <1>4 DEF LedgerNext, LedgerStep

LEMMA QueuedStandInit == LedgerInit => QueuedStand
  BY DEF LedgerInit, QueuedStand

\* The lock is never left lying with transfers in line for it.
THEOREM LockAlwaysMovesOn ==
  ASSUME Guarded
  PROVE  LedgerSpec => []LockMovesOn
  <1>1. QueuedStand /\ LedgerInv /\ [LedgerNext]_ledgerVars => QueuedStand'
    BY QueuedStandStep
  <1>2. QueuedStand /\ LedgerInv => LockMovesOn
    <2> SUFFICES ASSUME QueuedStand, LedgerInv, NEW t \in Transfers, doing[t] = "queued"
                 PROVE  LockMovesOn
      BY DEF LockMovesOn
    <2>1. queue \in Seq(Transfers) /\ queue # << >>
      BY DEF QueuedStand, LedgerInv, LedgerTypeOK
    <2>2. Head(queue) \in Transfers
      BY <2>1
    <2> QED BY <2>1, <2>2 DEF LockMovesOn, Auditing
  <1> QED BY <1>1, <1>2, QueuedStandInit, LedgerInvariant, PTL DEF LedgerSpec

LEMMA NobodyOvertakesStep ==
  ASSUME LedgerInv, LedgerInv', QueuedStand, Guarded, [LedgerNext]_ledgerVars,
         NEW t \in Transfers, doing[t] = "queued", doing'[t] = "queued"
  PROVE  /\ Ahead(t) \in Nat /\ Ahead(t)' \in Nat /\ Ahead(t)' <= Ahead(t)
         /\ (\E u \in Transfers : Acquire(u) \/ Audited(u)) => Ahead(t)' < Ahead(t)
  <1>1. PICK k \in DOMAIN queue : queue[k] = t
    BY DEF QueuedStand
  <1>2. k \in Nat /\ k >= 1 /\ k \in 1 .. Len(queue) /\ queue \in Seq(Transfers)
    <2>1. queue \in Seq(Transfers)
      BY DEF LedgerInv, LedgerTypeOK
    <2> QED BY <2>1
  <1>3. Ahead(t) = 2 * k + (IF Auditing = {} THEN 0 ELSE 1)
    BY <1>1, PlaceInIs DEF LedgerInv, InLine, Ahead
  <1>4. ASSUME NEW n \in DOMAIN queue', queue'[n] = t
        PROVE  Ahead(t)' = 2 * n + (IF Auditing' = {} THEN 0 ELSE 1)
    <2>1. PlaceIn(queue', t) = n
      BY <1>4, PlaceInIs DEF LedgerInv, InLine
    <2> QED BY <2>1 DEF Ahead
  <1>5. ASSUME NEW u \in Transfers, Begin(u)
        PROVE  Ahead(t)' = Ahead(t) /\ \A v \in Transfers : ~Acquire(v) /\ ~Audited(v)
    <2>1. u # t /\ queue # << >>
      BY <1>2, <1>5 DEF Begin
    <2>2. queue' = Append(queue, u) /\ doing' = [doing EXCEPT ![u] = "queued"]
          /\ doing[u] = "new"
      BY <1>5, <2>1 DEF Begin, Free
    <2>3. k \in DOMAIN queue' /\ queue'[k] = t
      BY <1>1, <1>2, <2>2
    <2>4. Auditing' = Auditing
      BY <2>2 DEF Auditing, LedgerInv, LedgerTypeOK
    <2>5. \A v \in Transfers : ~Acquire(v) /\ ~Audited(v)
      <3>1. Len(queue') = Len(queue) + 1
        BY <1>2, <2>2
      <3>2. queue' # queue /\ queue' # Tail(queue)
        BY <1>2, <2>1, <3>1
      <3> QED BY <3>2 DEF Acquire, Audited
    <2> QED BY <1>3, <1>4, <2>3, <2>4, <2>5
  <1>6. ASSUME NEW u \in Transfers, Acquire(u)
        PROVE  Ahead(t)' < Ahead(t) /\ Ahead(t)' \in Nat
    <2>1. queue' = Tail(queue) /\ queue # << >> /\ u = queue[1] /\ Auditing = {}
      BY <1>2, <1>6 DEF Acquire
    <2>2. u # t
      BY <1>6 DEF Acquire, Check, LedgerInv, LedgerTypeOK
    <2>3. k # 1 /\ k - 1 \in DOMAIN queue' /\ queue'[k - 1] = t
      BY <1>1, <1>2, <2>1, <2>2
    <2> QED BY <1>2, <1>3, <1>4, <2>1, <2>3
  <1>7. ASSUME NEW u \in Transfers, Audited(u)
        PROVE  Ahead(t)' < Ahead(t) /\ Ahead(t)' \in Nat
    <2>1. queue' = queue /\ u \in Auditing /\ doing' = [doing EXCEPT ![u] = "done"]
      BY <1>7 DEF Audited, Auditing
    <2>2. Auditing' = {}
      BY <2>1 DEF Auditing, LedgerInv, LedgerTypeOK, OneAudits
    <2> QED BY <1>1, <1>2, <1>3, <1>4, <2>1, <2>2
  <1>8. CASE UNCHANGED ledgerVars
    <2>1. Ahead(t)' = Ahead(t)
      BY <1>8 DEF ledgerVars, Ahead, Auditing
    <2>2. \A u \in Transfers : ~Acquire(u) /\ ~Audited(u)
      BY <1>6, <1>7, <2>1, <1>2, <1>3
    <2> QED BY <1>2, <1>3, <2>1, <2>2
  <1> QED BY <1>2, <1>3, <1>5, <1>6, <1>7, <1>8 DEF LedgerNext, LedgerStep

\* Who waits for the lock has fewer before him with every transfer that takes it or
\* lets go of it: the argument for TransfersSettle, for any number of transfers.
THEOREM NobodyIsOvertaken ==
  ASSUME Guarded
  PROVE  LedgerSpec => NobodyOvertakes
  <1>1. QueuedStand /\ LedgerInv /\ [LedgerNext]_ledgerVars => QueuedStand'
    BY QueuedStandStep
  <1>2. LedgerInv /\ LedgerInv' /\ QueuedStand /\ [LedgerNext]_ledgerVars =>
           [\A t \in Transfers : doing[t] = "queued" /\ doing'[t] = "queued" =>
              /\ Ahead(t) \in Nat /\ Ahead(t)' \in Nat /\ Ahead(t)' <= Ahead(t)
              /\ (\E u \in Transfers : Acquire(u) \/ Audited(u))
                    => Ahead(t)' < Ahead(t)]_ledgerVars
    BY NobodyOvertakesStep
  <1> QED BY <1>1, <1>2, QueuedStandInit, LedgerInvariant, PTL DEF LedgerSpec, NobodyOvertakes

-----------------------------------------------------------------------------
(* The election.                                                           *)

Terms == 0 .. MaxTerm

\* What was sent, as relations between replicas and terms.
Stood(r, t)      == Message("standing", t, r, Others(r)) \in sent
Granted(v, t, r) == Message("granted", t, v, {r}) \in sent
Claimed(r, t)    == Message("leader", t, r, Others(r)) \in sent

\* Every message has one of these three forms.
Shapes ==
    \A m \in sent :
        \/ \E r \in Replicas, t \in Terms : m = Message("standing", t, r, Others(r))
        \/ \E v, r \in Replicas, t \in Terms : m = Message("granted", t, v, {r})
        \/ \E r \in Replicas, t \in Terms : m = Message("leader", t, r, Others(r))

\* Nobody is in an earlier term than it has spoken of.
Past ==
    \A r \in Replicas, t \in Terms :
        /\ Stood(r, t) => t <= term[r]
        /\ \A s \in Replicas : Granted(r, t, s) => t <= term[r]

\* A replica has one vote in a term, for itself or for one that stood in it.
OneVote ==
    \A r, a \in Replicas, t \in Terms :
        Granted(r, t, a) =>
            /\ Stood(a, t) /\ ~Stood(r, t)
            /\ \A b \in Replicas : Granted(r, t, b) => a = b

\* The votes of a candidate, as long as it is one, are of the term it is in.
VotesAreOfTheTerm ==
    \A r, v \in Replicas :
        Stood(r, term[r]) /\ v \in votes[r] => v = r \/ Granted(v, term[r], r)

\* Who claims a term has stood in it and has a majority.
Majority(Q) == Cardinality(Q) * 2 > Cardinality(Replicas)

ClaimsAreJust ==
    Quorum => \A r \in Replicas, t \in Terms :
        Claimed(r, t) => Stood(r, t) /\ Majority(Granters(r, t) \cup {r})

ElectionInv ==
    /\ ElectionTypeOK
    /\ Shapes /\ Past /\ OneVote /\ VotesAreOfTheTerm /\ ClaimsAreJust

-----------------------------------------------------------------------------

\* Messages are equal when their fields are.
LEMMA MessageFields ==
  ASSUME NEW k1, NEW t1, NEW f1, NEW d1, NEW k2, NEW t2, NEW f2, NEW d2
  PROVE  /\ Message(k1, t1, f1, d1).kind = k1 /\ Message(k1, t1, f1, d1).term = t1
         /\ Message(k1, t1, f1, d1).from = f1 /\ Message(k1, t1, f1, d1).to = d1
         /\ Message(k1, t1, f1, d1) = Message(k2, t2, f2, d2)
               <=> k1 = k2 /\ t1 = t2 /\ f1 = f2 /\ d1 = d2
  BY DEF Message

\* Two majorities have a replica in common.
LEMMA MajoritiesMeet ==
  ASSUME NEW P \in SUBSET Replicas, NEW Q \in SUBSET Replicas,
         Majority(P), Majority(Q)
  PROVE  \E v \in Replicas : v \in P /\ v \in Q
  <1>1. /\ IsFiniteSet(Replicas) /\ IsFiniteSet(P) /\ IsFiniteSet(Q)
        /\ IsFiniteSet(P \cup Q) /\ P \cup Q \in SUBSET Replicas
    BY ElectionAssumption, FS_Subset
  <1>2. SUFFICES ASSUME P \cap Q = {}
                 PROVE  FALSE
    OBVIOUS
  <1>3. Cardinality(P \cap Q) = 0
    BY <1>2, FS_EmptySet
  <1>4. Cardinality(P \cup Q) = Cardinality(P) + Cardinality(Q) - Cardinality(P \cap Q)
    BY <1>1, FS_Union
  <1>5. Cardinality(P \cup Q) <= Cardinality(Replicas)
    BY <1>1, FS_Subset
  <1>6. /\ Cardinality(P) \in Nat /\ Cardinality(Q) \in Nat
        /\ Cardinality(Replicas) \in Nat
    BY <1>1, FS_CardinalityType
  <1> QED BY <1>3, <1>4, <1>5, <1>6 DEF Majority

\* More of a majority is one.
LEMMA MoreIsMajority ==
  ASSUME NEW P \in SUBSET Replicas, NEW Q \in SUBSET Replicas, P \subseteq Q, Majority(P)
  PROVE  Majority(Q)
  <1>1. IsFiniteSet(P) /\ IsFiniteSet(Q) /\ IsFiniteSet(Replicas)
    BY ElectionAssumption, FS_Subset
  <1>2. Cardinality(P) <= Cardinality(Q)
    BY <1>1, FS_Subset
  <1>3. Cardinality(P) \in Nat /\ Cardinality(Q) \in Nat /\ Cardinality(Replicas) \in Nat
    BY <1>1, FS_CardinalityType
  <1> QED BY <1>2, <1>3 DEF Majority

\* What a message says, once its form is known.
LEMMA Readings ==
  ASSUME ElectionInv, NEW m \in sent
  PROVE  /\ m.from \in Replicas /\ m.term \in Terms
         /\ m.kind = "standing" => m.to = Others(m.from) /\ Stood(m.from, m.term)
         /\ m.kind = "leader" => Claimed(m.from, m.term)
         /\ m.kind = "granted" =>
               \E r \in Replicas : m.to = {r} /\ Granted(m.from, m.term, r)
  <1>1. CASE \E r \in Replicas, t \in Terms : m = Message("standing", t, r, Others(r))
    BY <1>1, MessageFields DEF Stood
  <1>2. CASE \E v, r \in Replicas, t \in Terms : m = Message("granted", t, v, {r})
    <2>1. PICK v \in Replicas, r \in Replicas, t \in Terms : m = Message("granted", t, v, {r})
      BY <1>2
    <2>2. m.kind = "granted" /\ m.term = t /\ m.from = v /\ m.to = {r}
      BY <2>1, MessageFields
    <2>3. Granted(m.from, m.term, r)
      BY <2>1, <2>2 DEF Granted
    <2> QED BY <2>2, <2>3
  <1>3. CASE \E r \in Replicas, t \in Terms : m = Message("leader", t, r, Others(r))
    BY <1>3, MessageFields DEF Claimed
  <1> QED BY <1>1, <1>2, <1>3 DEF ElectionInv, Shapes

-----------------------------------------------------------------------------

\* One leader in a term follows from the invariant.
LEMMA ClaimsAreOne == ElectionInv => OneLeaderPerTerm /\ LeadersAreElected
  <1> SUFFICES ASSUME ElectionInv, Quorum
               PROVE  OneLeaderPerTerm /\ LeadersAreElected
    BY DEF OneLeaderPerTerm, LeadersAreElected
  <1>1. LeadersAreElected
    BY Readings DEF ElectionInv, ClaimsAreJust, LeadersAreElected, Majority
  <1>2. ASSUME NEW m \in sent, NEW k \in sent, m.kind = "leader", k.kind = "leader",
               m.term = k.term
        PROVE  m.from = k.from
    <2> DEFINE a == m.from
               b == k.from
               t == m.term
    <2>1. a \in Replicas /\ b \in Replicas /\ t \in Terms /\ Claimed(a, t) /\ Claimed(b, t)
      BY <1>2, Readings
    <2>2. /\ Stood(a, t) /\ Majority(Granters(a, t) \cup {a})
          /\ Stood(b, t) /\ Majority(Granters(b, t) \cup {b})
      BY <2>1 DEF ElectionInv, ClaimsAreJust
    <2> HIDE DEF a, b, t
    <2>3. PICK v \in Replicas : /\ v = a \/ Granted(v, t, a)
                                /\ v = b \/ Granted(v, t, b)
      <3>1. /\ Granters(a, t) \cup {a} \in SUBSET Replicas
            /\ Granters(b, t) \cup {b} \in SUBSET Replicas
        BY <2>1 DEF Granters
      <3>2. PICK v \in Replicas : v \in Granters(a, t) \cup {a} /\ v \in Granters(b, t) \cup {b}
        BY <2>2, <3>1, MajoritiesMeet
      <3> QED BY <3>2 DEF Granters, Granted
    <2>4. a = b
      BY <2>1, <2>2, <2>3 DEF ElectionInv, OneVote
    <2> QED BY <2>4 DEF a, b
  <1>3. OneLeaderPerTerm
    BY <1>2 DEF OneLeaderPerTerm
  <1> QED BY <1>1, <1>3

\* Nothing is sent at first.
LEMMA ElectionInvInit == ElectionInit => ElectionInv
  BY ElectionAssumption
  DEF ElectionInit, ElectionInv, ElectionTypeOK, Shapes, Past, OneVote,
      VotesAreOfTheTerm, ClaimsAreJust, Stood, Granted, Claimed

\* What was just stays just while more is sent.
LEMMA ClaimsStayJust ==
  ASSUME ElectionInv, Quorum, sent \subseteq sent', NEW r \in Replicas, NEW t \in Terms,
         Claimed(r, t)
  PROVE  Stood(r, t)' /\ Majority(Granters(r, t) \cup {r})'
  <1>1. Stood(r, t) /\ Majority(Granters(r, t) \cup {r})
    BY DEF ElectionInv, ClaimsAreJust
  <1>2. Granters(r, t) \subseteq Granters(r, t)' /\ Stood(r, t)'
    BY <1>1 DEF Granters, Stood
  <1>3. /\ Granters(r, t) \cup {r} \in SUBSET Replicas
        /\ Granters(r, t)' \cup {r} \in SUBSET Replicas
    BY DEF Granters
  <1>4. Majority(Granters(r, t)' \cup {r})
    BY <1>1, <1>2, <1>3, MoreIsMajority
  <1> QED BY <1>2, <1>4 DEF Majority

\* What one more message adds to the relations.
LEMMA Sending ==
  ASSUME NEW k, NEW t, NEW f, NEW d, sent' = sent \cup {Message(k, t, f, d)}
  PROVE  /\ \A q, u : Stood(q, u)'
               <=> Stood(q, u) \/ (k = "standing" /\ u = t /\ q = f /\ Others(q) = d)
         /\ \A v, u, q : Granted(v, u, q)'
               <=> Granted(v, u, q) \/ (k = "granted" /\ u = t /\ v = f /\ {q} = d)
         /\ \A q, u : Claimed(q, u)'
               <=> Claimed(q, u) \/ (k = "leader" /\ u = t /\ q = f /\ Others(q) = d)
  <1>1. \A q, u : Message("standing", u, q, Others(q)) = Message(k, t, f, d)
               <=> k = "standing" /\ u = t /\ q = f /\ Others(q) = d
    BY MessageFields
  <1>2. \A v, u, q : Message("granted", u, v, {q}) = Message(k, t, f, d)
               <=> k = "granted" /\ u = t /\ v = f /\ {q} = d
    BY MessageFields
  <1>3. \A q, u : Message("leader", u, q, Others(q)) = Message(k, t, f, d)
               <=> k = "leader" /\ u = t /\ q = f /\ Others(q) = d
    BY MessageFields
  <1> QED BY <1>1, <1>2, <1>3 DEF Stood, Granted, Claimed

\* Two parts of the invariant that each new message keeps for a like reason.
LEMMA SendingKeepsForm ==
  ASSUME ElectionInv, NEW f \in Replicas, NEW t \in Terms, NEW k, NEW d,
         \/ k \in {"standing", "leader"} /\ d = Others(f)
         \/ k = "granted" /\ \E r \in Replicas : d = {r},
         sent' = sent \cup {Message(k, t, f, d)}
  PROVE  Shapes' /\ sent' \subseteq Payload
  <1>1. Message(k, t, f, d) \in Payload
    BY DEF Message, Payload, Others, Terms
  <1>2. \/ \E r \in Replicas, u \in Terms : Message(k, t, f, d) = Message("standing", u, r, Others(r))
        \/ \E v, r \in Replicas, u \in Terms : Message(k, t, f, d) = Message("granted", u, v, {r})
        \/ \E r \in Replicas, u \in Terms : Message(k, t, f, d) = Message("leader", u, r, Others(r))
    OBVIOUS
  <1>3. Shapes'
    <2> DEFINE Shaped(m) ==
                  \/ \E r \in Replicas, u \in Terms : m = Message("standing", u, r, Others(r))
                  \/ \E v, r \in Replicas, u \in Terms : m = Message("granted", u, v, {r})
                  \/ \E r \in Replicas, u \in Terms : m = Message("leader", u, r, Others(r))
    <2>1. \A m \in sent' : m \in sent \/ m = Message(k, t, f, d)
      OBVIOUS
    <2>2. \A m \in sent : Shaped(m)
      BY DEF ElectionInv, Shapes
    <2>3. Shaped(Message(k, t, f, d))
      BY <1>2
    <2>4. Shapes' <=> \A m \in sent' : Shaped(m)
      BY DEF Shapes
    <2> HIDE DEF Shaped
    <2> QED BY <2>1, <2>2, <2>3, <2>4, Zenon
  <1>4. sent' \subseteq Payload
    BY <1>1 DEF ElectionInv, ElectionTypeOK
  <1> QED BY <1>3, <1>4

-----------------------------------------------------------------------------

\* Standing, or claiming where no quorum is asked for.
LEMMA TimeoutInv ==
  ASSUME ElectionInv, NEW r \in Replicas, Timeout(r)
  PROVE  ElectionInv'
  <1> DEFINE t == term[r] + 1
             k == IF Quorum THEN "standing" ELSE "leader"
  <1>1. /\ term[r] \in Nat /\ t \in Terms /\ term[r] < t
        /\ term' = [term EXCEPT ![r] = t] /\ votes' = [votes EXCEPT ![r] = {r}]
        /\ sent' = sent \cup {Message(k, t, r, Others(r))}
        /\ leader' \in [Replicas -> Replicas \cup {Nobody}]
    BY ElectionAssumption DEF Timeout, ElectionInv, ElectionTypeOK, Terms
  <1>2. k \in {"standing", "leader"} /\ (Quorum => k # "leader")
    OBVIOUS
  <1> HIDE DEF t, k
  <1>3. /\ \A q, u : Stood(q, u)' => Stood(q, u) \/ (u = t /\ q = r)
        /\ \A q, u : Stood(q, u) => Stood(q, u)'
        /\ \A v, u, q : Granted(v, u, q)' <=> Granted(v, u, q)
        /\ Quorum => \A q, u : Claimed(q, u)' => Claimed(q, u)
    BY <1>1, <1>2, Sending
  <1>4. /\ \A q \in Replicas : q # r => term'[q] = term[q] /\ votes'[q] = votes[q]
        /\ term'[r] = t /\ votes'[r] = {r}
    BY <1>1 DEF ElectionInv, ElectionTypeOK
  <1>5. Shapes' /\ sent' \subseteq Payload
    BY <1>1, <1>2, SendingKeepsForm
  <1>6. ElectionTypeOK'
    BY <1>1, <1>5 DEF ElectionInv, ElectionTypeOK, Terms
  <1>7. \A q \in Replicas, u \in Terms :
           Stood(q, u) \/ (\E s \in Replicas : Granted(q, u, s)) => u <= term[q]
    BY DEF ElectionInv, Past
  <1>8. ~Stood(r, t) /\ \A s \in Replicas : ~Granted(r, t, s)
    BY <1>1, <1>7 DEF Terms
  <1>9. Past'
    BY <1>1, <1>3, <1>4, <1>7 DEF Past, Terms
  <1>10. OneVote'
    BY <1>3, <1>8 DEF ElectionInv, OneVote
  <1>11. VotesAreOfTheTerm'
    BY <1>3, <1>4 DEF ElectionInv, VotesAreOfTheTerm
  <1>12. ClaimsAreJust'
    BY <1>1, <1>3, ClaimsStayJust DEF ClaimsAreJust
  <1> QED BY <1>5, <1>6, <1>9, <1>10, <1>11, <1>12 DEF ElectionInv

\* Voting for a candidate of a later term.
LEMMA GrantInv ==
  ASSUME ElectionInv, NEW r \in Replicas, NEW m \in sent, r \in m.to, Grant(r, m)
  PROVE  ElectionInv'
  <1> DEFINE t == m.term
             c == m.from
  <1>1. /\ t \in Terms /\ c \in Replicas /\ c # r /\ Stood(c, t) /\ t > term[r]
        /\ term' = [term EXCEPT ![r] = t] /\ UNCHANGED <<leader, votes>>
        /\ sent' = sent \cup {Message("granted", t, r, {c})}
    BY Readings DEF Grant, Others
  <1> HIDE DEF t, c
  <1>2. /\ \A q, u : Stood(q, u)' <=> Stood(q, u)
        /\ \A v, u, q : Granted(v, u, q)' <=> Granted(v, u, q) \/ (u = t /\ v = r /\ q = c)
        /\ \A q, u : Claimed(q, u)' <=> Claimed(q, u)
    BY <1>1, Sending
  <1>3. /\ \A q \in Replicas : q # r => term'[q] = term[q]
        /\ term'[r] = t /\ votes' = votes /\ term[r] \in Nat
    BY <1>1 DEF ElectionInv, ElectionTypeOK
  <1>4. Shapes' /\ sent' \subseteq Payload
    BY <1>1, SendingKeepsForm
  <1>5. ElectionTypeOK'
    BY <1>1, <1>4 DEF ElectionInv, ElectionTypeOK, Terms
  <1>6. \A q \in Replicas, u \in Terms :
           Stood(q, u) \/ (\E s \in Replicas : Granted(q, u, s)) => u <= term[q]
    BY DEF ElectionInv, Past
  <1>7. ~Stood(r, t) /\ \A s \in Replicas : ~Granted(r, t, s)
    BY <1>1, <1>3, <1>6 DEF Terms
  <1>8. Past'
    BY <1>1, <1>2, <1>3, <1>6 DEF Past, Terms
  <1>9. OneVote'
    BY <1>1, <1>2, <1>7 DEF ElectionInv, OneVote
  <1>10. VotesAreOfTheTerm'
    BY <1>1, <1>2, <1>3, <1>7 DEF ElectionInv, VotesAreOfTheTerm
  <1>11. ClaimsAreJust'
    BY <1>1, <1>2, ClaimsStayJust DEF ClaimsAreJust
  <1> QED BY <1>4, <1>5, <1>8, <1>9, <1>10, <1>11 DEF ElectionInv

\* Counting a vote of the term, and claiming the term once there are enough.
LEMMA CountInv ==
  ASSUME ElectionInv, NEW r \in Replicas, NEW m \in sent, r \in m.to, Count(r, m)
  PROVE  ElectionInv'
  <1> DEFINE v == m.from
  <1>0. PICK t \in Terms : t = term[r]
    BY DEF ElectionInv, ElectionTypeOK, Terms
  <1>1. /\ v \in Replicas /\ Granted(v, t, r)
        /\ votes' = [votes EXCEPT ![r] = @ \cup {v}] /\ term' = term
    <2>1. m.kind = "granted" /\ m.term = t
      BY <1>0 DEF Count
    <2>2. PICK s \in Replicas : m.to = {s} /\ Granted(m.from, m.term, s)
      BY <2>1, Readings
    <2>3. s = r
      BY <2>2
    <2> QED BY <2>1, <2>2, <2>3, Readings DEF Count
  <1>2. Stood(r, t)
    BY <1>1 DEF ElectionInv, OneVote
  <1>3. /\ \A q \in Replicas : q # r => votes'[q] = votes[q]
        /\ votes'[r] = votes[r] \cup {v} /\ votes' \in [Replicas -> SUBSET Replicas]
    BY <1>1 DEF ElectionInv, ElectionTypeOK
  <1>4. votes'[r] \subseteq Granters(r, t) \cup {r}
    BY <1>0, <1>1, <1>2, <1>3
    DEF ElectionInv, ElectionTypeOK, VotesAreOfTheTerm, Granters, Granted
  <1>5. CASE Majority(votes'[r])
    <2>1. /\ sent' = sent \cup {Message("leader", t, r, Others(r))}
          /\ leader' = [leader EXCEPT ![r] = r]
      BY <1>0, <1>5 DEF Count, Majority
    <2>2. Majority(Granters(r, t) \cup {r})
      <3>1. votes'[r] \in SUBSET Replicas /\ Granters(r, t) \cup {r} \in SUBSET Replicas
        BY <1>3 DEF Granters
      <3> QED BY <1>4, <1>5, <3>1, MoreIsMajority
    <2> HIDE DEF v
    <2>3. /\ \A q, u : Stood(q, u)' <=> Stood(q, u)
          /\ \A w, u, q : Granted(w, u, q)' <=> Granted(w, u, q)
          /\ \A q, u : Claimed(q, u)' => Claimed(q, u) \/ (u = t /\ q = r)
      BY <2>1, Sending
    <2>4. Shapes' /\ sent' \subseteq Payload
      BY <1>1, <2>1, SendingKeepsForm
    <2>5. ElectionTypeOK'
      BY <1>1, <1>3, <2>1, <2>4 DEF ElectionInv, ElectionTypeOK
    <2>6. Past' /\ OneVote'
      BY <1>1, <2>3 DEF ElectionInv, Past, OneVote
    <2>7. VotesAreOfTheTerm'
      BY <1>0, <1>1, <1>3, <2>3 DEF ElectionInv, VotesAreOfTheTerm
    <2>8. ClaimsAreJust'
      <3>1. Quorum => Stood(r, t)' /\ Majority(Granters(r, t) \cup {r})'
        <4>1. Granters(r, t)' = Granters(r, t)
          BY <2>3 DEF Granters, Granted
        <4> QED BY <1>2, <2>2, <2>3, <4>1 DEF Majority
      <3> QED BY <2>1, <2>3, <3>1, ClaimsStayJust DEF ClaimsAreJust
    <2> QED BY <2>4, <2>5, <2>6, <2>7, <2>8 DEF ElectionInv
  <1>6. CASE ~Majority(votes'[r])
    <2>1. UNCHANGED <<leader, sent>>
      BY <1>6 DEF Count, Majority
    <2>2. /\ \A q, u : Stood(q, u)' <=> Stood(q, u)
          /\ \A w, u, q : Granted(w, u, q)' <=> Granted(w, u, q)
          /\ \A q, u : Claimed(q, u)' <=> Claimed(q, u)
      BY <2>1 DEF Stood, Granted, Claimed
    <2>3. ElectionTypeOK' /\ Shapes'
      BY <1>1, <1>3, <2>1 DEF ElectionInv, ElectionTypeOK, Shapes
    <2>4. Past' /\ OneVote'
      BY <1>1, <2>2 DEF ElectionInv, Past, OneVote
    <2>5. VotesAreOfTheTerm'
      BY <1>0, <1>1, <1>3, <2>2 DEF ElectionInv, VotesAreOfTheTerm
    <2>6. ClaimsAreJust'
      BY <2>1, <2>2, ClaimsStayJust DEF ClaimsAreJust
    <2> QED BY <2>3, <2>4, <2>5, <2>6 DEF ElectionInv
  <1> QED BY <1>5, <1>6

\* Believing a leader of the same term or a later one.
LEMMA FollowInv ==
  ASSUME ElectionInv, NEW r \in Replicas, NEW m \in sent, Follow(r, m)
  PROVE  ElectionInv'
  <1> DEFINE t == m.term
  <1>1. /\ t \in Terms /\ t >= term[r] /\ m.from \in Replicas
        /\ term' = [term EXCEPT ![r] = t] /\ leader' = [leader EXCEPT ![r] = m.from]
        /\ votes' = votes /\ sent' = sent
    BY Readings DEF Follow
  <1> HIDE DEF t
  <1>2. /\ \A q, u : Stood(q, u)' <=> Stood(q, u)
        /\ \A w, u, q : Granted(w, u, q)' <=> Granted(w, u, q)
        /\ \A q, u : Claimed(q, u)' <=> Claimed(q, u)
    BY <1>1 DEF Stood, Granted, Claimed
  <1>3. /\ \A q \in Replicas : q # r => term'[q] = term[q]
        /\ term'[r] = t /\ \A q \in Replicas : term[q] \in Nat
    BY <1>1 DEF ElectionInv, ElectionTypeOK
  <1>4. ElectionTypeOK' /\ Shapes'
    BY <1>1 DEF ElectionInv, ElectionTypeOK, Shapes, Terms
  <1>5. Past'
    BY <1>1, <1>2, <1>3 DEF ElectionInv, Past, Terms
  <1>6. OneVote'
    BY <1>2 DEF ElectionInv, OneVote
  <1>7. VotesAreOfTheTerm'
    <2>1. Stood(r, t) => t = term[r]
      BY <1>1, <1>3 DEF ElectionInv, Past, Terms
    <2> QED BY <1>1, <1>2, <1>3, <2>1 DEF ElectionInv, VotesAreOfTheTerm
  <1>8. ClaimsAreJust'
    BY <1>1, <1>2, ClaimsStayJust DEF ClaimsAreJust
  <1> QED BY <1>4, <1>5, <1>6, <1>7, <1>8 DEF ElectionInv

\* Every step keeps the invariant.
LEMMA ElectionInvStep ==
  ASSUME ElectionInv, [ElectionNext]_electionVars
  PROVE  ElectionInv'
  <1>1. CASE UNCHANGED electionVars
    <2>1. /\ term' = term /\ leader' = leader /\ votes' = votes /\ sent' = sent
          /\ \A q, u : Stood(q, u)' <=> Stood(q, u)
          /\ \A w, u, q : Granted(w, u, q)' <=> Granted(w, u, q)
          /\ \A q, u : Claimed(q, u)' <=> Claimed(q, u)
      BY <1>1 DEF electionVars, Stood, Granted, Claimed
    <2>2. ElectionTypeOK' /\ Shapes'
      BY <2>1 DEF ElectionInv, ElectionTypeOK, Shapes
    <2>3. Past' /\ OneVote' /\ VotesAreOfTheTerm'
      BY <2>1 DEF ElectionInv, Past, OneVote, VotesAreOfTheTerm
    <2>4. ClaimsAreJust'
      BY <2>1, ClaimsStayJust DEF ClaimsAreJust
    <2> QED BY <2>2, <2>3, <2>4 DEF ElectionInv
  <1>2. CASE ElectionNext
    BY <1>2, TimeoutInv, GrantInv, CountInv, FollowInv DEF ElectionNext, Receive
  <1> QED BY <1>1, <1>2

\* The type invariant of the election, and the rest of what is always so.
THEOREM ElectionInvariant == ElectionSpec => []ElectionInv
  <1> QED BY ElectionInvInit, ElectionInvStep, PTL DEF ElectionSpec

\* A term has at most one leader.
THEOREM OneLeader == ElectionSpec => []OneLeaderPerTerm
  <1>1. ElectionInv => OneLeaderPerTerm
    BY ClaimsAreOne
  <1> QED BY <1>1, ElectionInvariant, PTL

\* Every claim has its majority behind it.
THEOREM LeadersHaveMajorities == ElectionSpec => []LeadersAreElected
  <1>1. ElectionInv => LeadersAreElected
    BY ClaimsAreOne
  <1> QED BY <1>1, ElectionInvariant, PTL
=============================================================================
