------------------------------- MODULE Ledger -------------------------------
(***************************************************************************)
(* The payments ledger: transfers, bill payments, operator deposits and    *)
(* account freezes, as concurrent request handlers over one PostgreSQL     *)
(* database.                                                               *)
(*                                                                         *)
(* A handler is one run of a POST handler.  It is cut at every await, so   *)
(* the handlers interleave between any two statements.  prisma.$transaction*)
(* runs at READ COMMITTED: a plain read returns the last committed row, an *)
(* UPDATE locks the row until the end of the transaction and applies its   *)
(* increment to the last committed value, an INSERT of a unique key waits  *)
(* for another transaction that inserted the same key and has not ended.   *)
(* A handler may be interrupted at any point; what it did inside an open   *)
(* transaction is then rolled back.                                        *)
(***************************************************************************)
EXTENDS Integers, FiniteSetsExt

CONSTANTS
  Accounts,        \* account ids
  Users,           \* customers
  Owner,           \* Owner[a]: the userId of account a
  Handlers,        \* runs of a handler; also the ids of the rows they insert
  RequestIds,      \* values of the x-request-id header
  Inputs,          \* the requests that may arrive
  InitialBalance,  \* InitialBalance[a]: the seeded balance
  SingleLimit,     \* account.singleLimit (one value for every account)
  DailyLimit,      \* account.dailyLimit
  StepUpThreshold, \* STEP_UP_MFA_THRESHOLD
  External,        \* toAccountId = null: an external payee or a biller
  NoSuchAccount,   \* a toAccountId that is no account
  None             \* no holder of a lock

Status == {"ACTIVE", "FROZEN"}   \* CLOSED is treated as FROZEN everywhere here

\* The sagaStatus of a row; NONE: no row yet.
SagaStatus == {"NONE", "INITIATED", "DEBITED", "CREDITED", "COMPLETED",
               "COMPENSATED"}

\* A request: byNumber says that the source was given by account number, to
\* is the destination after the payee has been resolved to an account, mfa is
\* the step-up flag the route reads.  A deposit is recorded from = to, and its
\* rid is the random REQ-DEP number the route draws.
Request ==
  [kind : {"TRANSFER", "BILL_PAY", "DEPOSIT"}, user : Users,
   rid : RequestIds, from : Accounts, byNumber : BOOLEAN,
   to : Accounts \cup {External, NoSuchAccount}, amt : Nat \ {0},
   mfa : BOOLEAN]

ASSUME InputsAssumption ==
  /\ Inputs \subseteq Request
  /\ \A i \in Inputs : /\ i.kind = "BILL_PAY" => i.to = External
                       /\ i.kind = "DEPOSIT"  => i.to = i.from

ASSUME SeedAssumption == /\ InitialBalance \in [Accounts -> Int]
                         /\ None \notin Handlers
                         /\ {External, NoSuchAccount} \cap Accounts = {}
                         /\ External # NoSuchAccount

VARIABLES
  \* the committed database
  balance,   \* accounts.balance
  status,    \* accounts.status
  ledger,    \* the rows of transactions
  outbox,    \* the rows of outbox_events, which are never deleted
  \* what open transactions hold
  rowLock,   \* rowLock[a]: who has updated a's row and not ended
  claim,     \* claim[rid]: who has inserted rid and not ended
  pending,   \* pending[h][a]: h's uncommitted change of a's balance
  draft,     \* draft[h]: h's uncommitted row and event
  \* the handlers
  req,       \* req[h]: the request h serves
  pc,        \* the next await of h
  seen,      \* seen[h]: the account row h has read last
  answer     \* what h answers

dbVars   == <<balance, status, ledger, outbox>>
txVars   == <<rowLock, claim, pending, draft>>
procVars == <<req, pc, seen, answer>>
vars     == <<dbVars, txVars, procVars>>

AL == INSTANCE AtomicLedger
        WITH RowIds <- Handlers, Destinations <- Accounts \cup {External},
             Amounts <- {i.amt : i \in Inputs}

NoDraft == [saga |-> "NONE", event |-> FALSE]
NoRead  == [balance |-> 0, status |-> "ACTIVE"]

\* The points at which h is inside prisma.$transaction.
Inside == {"begin", "create", "debit", "readDest", "credit", "compensate",
           "complete", "commit", "throw", "depositCredit", "depositCreate"}

Idle(h) == pc[h] = "arrive"
Done(h) == pc[h] = "done"

Goto(h, l)  == pc' = [pc EXCEPT ![h] = l]
SetSaga(h, s) == draft' = [draft EXCEPT ![h].saga = s]

\* h answers without having changed anything.
Reply(h, code) == /\ Goto(h, "done")
                  /\ answer' = [answer EXCEPT ![h] = code]
                  /\ UNCHANGED <<dbVars, txVars, req, seen>>

\* h goes on to its next await.
Proceed(h, l) == /\ Goto(h, l)
                 /\ UNCHANGED <<dbVars, txVars, req, seen, answer>>

\* h throws inside the transaction, which will be rolled back.
Throw(h, code) == /\ Goto(h, "throw")
                  /\ answer' = [answer EXCEPT ![h] = code]
                  /\ UNCHANGED <<dbVars, req, seen>>

-----------------------------------------------------------------------------
(* The initial state and the statements handlers are made of.              *)

Init ==
  /\ balance = InitialBalance
  /\ status  = [a \in Accounts |-> "ACTIVE"]
  /\ ledger  = {}
  /\ outbox  = {}
  /\ rowLock = [a \in Accounts |-> None]
  /\ claim   = [r \in RequestIds |-> None]
  /\ pending = [h \in Handlers |-> [a \in Accounts |-> 0]]
  /\ draft   = [h \in Handlers |-> NoDraft]
  /\ req    \in [Handlers -> Inputs]
  /\ pc      = [h \in Handlers |-> "arrive"]
  /\ seen    = [h \in Handlers |-> NoRead]
  /\ answer  = [h \in Handlers |-> "NONE"]

CommittedIds == {r.rid : r \in ledger}

\* SELECT ... FROM accounts: the committed row, which may be stale when used.
ReadAccount(h, a) ==
  seen' = [seen EXCEPT ![h] = [balance |-> balance[a], status |-> status[a]]]

\* Mutant of AddToBalance: the update writes the balance computed from a read.
AddToBalanceAbsolute(h, a, d) ==
  /\ rowLock[a] \in {None, h}
  /\ rowLock' = [rowLock EXCEPT ![a] = h]
  /\ pending' = [pending EXCEPT ![h][a] = @ + seen[h].balance + d - balance[a]]

\* UPDATE accounts SET balance = balance + d: waits for the row, keeps it.
AddToBalance(h, a, d) ==
  /\ rowLock[a] \in {None, h}
  /\ rowLock' = [rowLock EXCEPT ![a] = h]
  /\ pending' = [pending EXCEPT ![h][a] = @ + d]

\* Mutant of InsertAllowed: request_id is not unique.
InsertAllowedTwice(h) == claim[req[h].rid] = None

\* INSERT INTO transactions: waits for an open insert of the same requestId.
InsertAllowed(h) == /\ claim[req[h].rid] = None
                    /\ req[h].rid \notin CommittedIds

InsertRow(h, s) ==
  /\ InsertAllowed(h)
  /\ claim' = [claim EXCEPT ![req[h].rid] = h]
  /\ SetSaga(h, s)

\* The unique index refuses the insert (P2002).
InsertRefused(h) == /\ claim[req[h].rid] = None
                    /\ req[h].rid \in CommittedIds

\* The end of h's transaction, by commit or rollback: its locks are free.
Release(h) ==
  /\ rowLock' = [a \in Accounts |-> IF rowLock[a] = h THEN None ELSE rowLock[a]]
  /\ claim'   = [r \in RequestIds |-> IF claim[r] = h THEN None ELSE claim[r]]
  /\ pending' = [pending EXCEPT ![h] = [a \in Accounts |-> 0]]
  /\ draft'   = [draft EXCEPT ![h] = NoDraft]

-----------------------------------------------------------------------------
(* Before the transaction: idempotency and the risk check.                 *)

Arrive(h) ==
  /\ Idle(h)
  /\ Proceed(h, IF req[h].kind = "DEPOSIT" THEN "depositCredit" ELSE "idempotency")

CheckIdempotency(h) ==
  /\ pc[h] = "idempotency"
  /\ \/ /\ req[h].rid \in CommittedIds
        /\ Reply(h, "IDEMPOTENT")
     \/ /\ req[h].rid \notin CommittedIds
        /\ Proceed(h, "account")

\* checkTransferRisk, first read: ownership, status and single limit.
AccountRefused(h) == \/ Owner[req[h].from] # req[h].user
                     \/ status[req[h].from] # "ACTIVE"
                     \/ req[h].amt > SingleLimit

CheckAccount(h) ==
  /\ pc[h] = "account"
  /\ \/ /\ AccountRefused(h)
        /\ Reply(h, "RISK_CHECK_FAILED")
     \/ /\ ~AccountRefused(h)
        /\ ReadAccount(h, req[h].from)
        /\ Goto(h, "limits")
        /\ UNCHANGED <<dbVars, txVars, req, answer>>

\* The aggregate over today's rows.  It compares fromAccountId with the value
\* the client sent: with an account number it matches no row.  A deposit is a
\* row of its account too.
DailySpent(h) ==
  IF req[h].byNumber THEN 0
  ELSE MapThenSumSet(LAMBDA r : r.amt, {r \in ledger : r.from = req[h].from})

\* Second read: daily limit, then the balance read before, then step-up MFA.
LimitsRefused(h) == \/ DailySpent(h) + req[h].amt > DailyLimit
                    \/ seen[h].balance < req[h].amt

StepUpRequired(h) == req[h].amt > StepUpThreshold /\ ~req[h].mfa

CheckLimits(h) ==
  /\ pc[h] = "limits"
  /\ \/ LimitsRefused(h) /\ Reply(h, "RISK_CHECK_FAILED")
     \/ ~LimitsRefused(h) /\ StepUpRequired(h) /\ Reply(h, "STEP_UP")
     \/ /\ ~LimitsRefused(h) /\ ~StepUpRequired(h)
        /\ Proceed(h, "begin")

-----------------------------------------------------------------------------
(* executeTransfer and executeBillPayment inside prisma.$transaction.      *)

\* BEGIN and the read of the source account.
BeginPayment(h) ==
  /\ pc[h] = "begin"
  /\ \/ /\ status[req[h].from] # "ACTIVE"
        /\ Throw(h, "ACCOUNT_INACTIVE")
     \/ /\ status[req[h].from] = "ACTIVE"
        /\ ReadAccount(h, req[h].from)
        /\ Goto(h, "create")
        /\ UNCHANGED <<dbVars, req, answer>>
  /\ UNCHANGED txVars

\* transaction.create; toAccountId is a foreign key (P2003).
CreateRecord(h) ==
  /\ pc[h] = "create"
  /\ \/ /\ InsertRefused(h)
        /\ Throw(h, "DUPLICATE_ENTRY")
        /\ UNCHANGED txVars
     \/ /\ req[h].to = NoSuchAccount
        /\ InsertAllowed(h)
        /\ Throw(h, "INTERNAL_ERROR")
        /\ UNCHANGED txVars
     \/ /\ req[h].to # NoSuchAccount
        /\ InsertRow(h, "INITIATED")
        /\ Goto(h, "debit")
        /\ UNCHANGED <<dbVars, rowLock, pending, req, seen, answer>>

\* Mutant of DebitSource: the balance is only judged before the transaction.
DebitSourceUnchecked(h) ==
  /\ pc[h] = "debit"
  /\ AddToBalance(h, req[h].from, -req[h].amt)
  /\ SetSaga(h, "DEBITED")
  /\ Goto(h, IF req[h].to = External THEN "complete" ELSE "readDest")
  /\ UNCHANGED <<dbVars, claim, req, seen, answer>>

\* Insufficient funds are judged on the balance read at BEGIN.
DebitSource(h) ==
  /\ pc[h] = "debit"
  /\ \/ /\ seen[h].balance < req[h].amt
        /\ SetSaga(h, "COMPENSATED")
        /\ Throw(h, "INSUFFICIENT_FUNDS")
        /\ UNCHANGED <<rowLock, claim, pending>>
     \/ /\ seen[h].balance >= req[h].amt
        /\ AddToBalance(h, req[h].from, -req[h].amt)
        /\ SetSaga(h, IF req[h].kind = "TRANSFER" THEN "DEBITED" ELSE "INITIATED")
        /\ Goto(h, IF req[h].to = External THEN "complete" ELSE "readDest")
        /\ UNCHANGED <<dbVars, claim, req, seen, answer>>

\* Mutant of ReadDestination: an inactive destination is waited for.
ReadDestinationWaits(h) ==
  /\ pc[h] = "readDest"
  /\ status[req[h].to] = "ACTIVE"
  /\ Proceed(h, "credit")

ReadDestination(h) ==
  /\ pc[h] = "readDest"
  /\ Proceed(h, IF status[req[h].to] = "ACTIVE" THEN "credit" ELSE "compensate")

\* Mutant of Compensate: the compensated transfer is not aborted.
CompensateGoesOn(h) ==
  /\ pc[h] = "compensate"
  /\ AddToBalance(h, req[h].from, req[h].amt)
  /\ SetSaga(h, "COMPENSATED")
  /\ Goto(h, "complete")
  /\ UNCHANGED <<dbVars, claim, req, seen, answer>>

\* The compensation addresses the source as the client did: by number, the
\* update finds no row (P2025).
Compensate(h) ==
  /\ pc[h] = "compensate"
  /\ \/ /\ req[h].byNumber
        /\ Throw(h, "INTERNAL_ERROR")
        /\ UNCHANGED txVars
     \/ /\ ~req[h].byNumber
        /\ AddToBalance(h, req[h].from, req[h].amt)
        /\ SetSaga(h, "COMPENSATED")
        /\ Throw(h, "DEST_ACCOUNT_INACTIVE")
        /\ UNCHANGED claim

CreditDestination(h) ==
  /\ pc[h] = "credit"
  /\ AddToBalance(h, req[h].to, req[h].amt)
  /\ SetSaga(h, "CREDITED")
  /\ Goto(h, "complete")
  /\ UNCHANGED <<dbVars, claim, req, seen, answer>>

\* Mutant of Complete: the event is forgotten.
CompleteSilently(h) ==
  /\ pc[h] = "complete"
  /\ SetSaga(h, "COMPLETED")
  /\ Goto(h, "commit")
  /\ UNCHANGED <<dbVars, rowLock, claim, pending, req, seen, answer>>

\* The row becomes COMPLETED and the outbox event is written.
Complete(h) ==
  /\ pc[h] = "complete"
  /\ draft' = [draft EXCEPT ![h] = [saga |-> "COMPLETED", event |-> TRUE]]
  /\ Goto(h, "commit")
  /\ UNCHANGED <<dbVars, rowLock, claim, pending, req, seen, answer>>

-----------------------------------------------------------------------------
(* The operator's deposit: credit, then the row, then the event.           *)

DepositCredit(h) ==
  /\ pc[h] = "depositCredit"
  /\ AddToBalance(h, req[h].to, req[h].amt)
  /\ Goto(h, "depositCreate")
  /\ UNCHANGED <<dbVars, claim, draft, req, seen, answer>>

DepositCreate(h) ==
  /\ pc[h] = "depositCreate"
  /\ \/ /\ InsertRefused(h)
        /\ Throw(h, "DUPLICATE_ENTRY")
        /\ UNCHANGED txVars
     \/ /\ InsertRow(h, "COMPLETED")
        /\ Goto(h, "complete")
        /\ UNCHANGED <<dbVars, rowLock, pending, req, seen, answer>>

-----------------------------------------------------------------------------
(* The end of a transaction and of a handler.                              *)

RowOf(h) == [id |-> h, rid |-> req[h].rid, kind |-> req[h].kind,
             from |-> req[h].from, to |-> req[h].to, amt |-> req[h].amt]

EventsOf(h) == IF draft[h].event THEN {AL!EventOf(RowOf(h))} ELSE {}

Commit(h) ==
  /\ pc[h] = "commit"
  /\ balance' = [a \in Accounts |-> balance[a] + pending[h][a]]
  /\ ledger' = ledger \cup {RowOf(h)}
  /\ outbox' = outbox \cup EventsOf(h)
  /\ Release(h)
  /\ Goto(h, "respond")
  /\ UNCHANGED <<status, req, seen, answer>>

Respond(h) ==
  /\ pc[h] = "respond"
  /\ Reply(h, "CREATED")

\* Mutant of Rollback: the exception is caught inside the transaction, so that
\* the COMPENSATED row stays.
RollbackKeepsRow(h) ==
  /\ pc[h] = "throw"
  /\ ledger' = IF draft[h].saga = "COMPENSATED" THEN ledger \cup {RowOf(h)} ELSE ledger
  /\ Release(h)
  /\ Goto(h, "done")
  /\ UNCHANGED <<balance, status, outbox, req, seen, answer>>

\* An exception leaves $transaction: ROLLBACK, then the error handler.
Rollback(h) ==
  /\ pc[h] = "throw"
  /\ Release(h)
  /\ Goto(h, "done")
  /\ UNCHANGED <<dbVars, req, seen, answer>>

\* The process dies, the connection is lost or Prisma's transaction timeout
\* fires: an open transaction is rolled back, a committed one stays.
Interrupt(h, code) ==
  /\ ~Idle(h) /\ ~Done(h)
  /\ Release(h)
  /\ Goto(h, "done")
  /\ answer' = [answer EXCEPT ![h] = code]
  /\ UNCHANGED <<dbVars, req, seen>>

\* The handlers h waits for.
WaitsFor(h) ==
  CASE pc[h] = "debit" /\ seen[h].balance >= req[h].amt
                                -> {rowLock[req[h].from]} \ {None, h}
    [] pc[h] \in {"credit", "depositCredit"}
                                -> {rowLock[req[h].to]} \ {None, h}
    [] pc[h] \in {"create", "depositCreate"}
                                -> {claim[req[h].rid]} \ {None, h}
    [] OTHER                    -> {}

Deadlocked(h) ==
  \E S \in SUBSET Handlers :
    /\ h \in S
    /\ \A g \in S : WaitsFor(g) \cap S # {}

\* PostgreSQL's deadlock detector aborts a transaction of the cycle.
DeadlockVictim(h) == Deadlocked(h) /\ Interrupt(h, "INTERNAL_ERROR")

-----------------------------------------------------------------------------
(* The operator's freeze and unfreeze: one UPDATE, which waits for the row.*)

SetStatus(a, s) ==
  /\ rowLock[a] = None
  /\ status[a] # s
  /\ status' = [status EXCEPT ![a] = s]
  /\ UNCHANGED <<balance, ledger, outbox, txVars, procVars>>

-----------------------------------------------------------------------------

Step(h) ==
  \/ Arrive(h) \/ CheckIdempotency(h) \/ CheckAccount(h) \/ CheckLimits(h)
  \/ BeginPayment(h) \/ CreateRecord(h) \/ DebitSource(h)
  \/ ReadDestination(h) \/ Compensate(h) \/ CreditDestination(h)
  \/ DepositCredit(h) \/ DepositCreate(h)
  \/ Complete(h) \/ Commit(h) \/ Respond(h) \/ Rollback(h)

Next ==
  \/ \E h \in Handlers : Step(h) \/ DeadlockVictim(h)
  \/ \E h \in Handlers, code \in {"INTERNAL_ERROR", "LOST"} : Interrupt(h, code)
  \/ \E a \in Accounts, s \in Status : SetStatus(a, s)

Spec == Init /\ [][Next]_vars

\* A handler that has arrived runs, and the database breaks deadlocks; no
\* client is obliged to send, no timeout to fire, no operator to act.
Fairness ==
  /\ \A h \in Handlers : WF_vars(~Idle(h) /\ Step(h))
  /\ \A h \in Handlers : WF_vars(DeadlockVictim(h))

FairSpec == Spec /\ Fairness

-----------------------------------------------------------------------------
(* Properties.                                                             *)

Codes == {"NONE", "CREATED", "IDEMPOTENT", "STEP_UP", "RISK_CHECK_FAILED",
          "ACCOUNT_INACTIVE", "INSUFFICIENT_FUNDS", "DEST_ACCOUNT_INACTIVE",
          "DUPLICATE_ENTRY", "INTERNAL_ERROR", "LOST"}

\* The shape of the state.
TypeOK ==
  /\ balance \in [Accounts -> Int]
  /\ status  \in [Accounts -> Status]
  /\ ledger  \subseteq AL!Row
  /\ outbox  \subseteq {AL!EventOf(r) : r \in ledger}
  /\ rowLock \in [Accounts -> Handlers \cup {None}]
  /\ claim   \in [RequestIds -> Handlers \cup {None}]
  /\ pending \in [Handlers -> [Accounts -> Int]]
  /\ draft   \in [Handlers -> [saga : SagaStatus, event : BOOLEAN]]
  /\ req     \in [Handlers -> Inputs]
  /\ pc      \in [Handlers -> Inside \cup {"arrive", "idempotency", "account",
                                           "limits", "respond", "done"}]
  /\ seen    \in [Handlers -> [balance : Int, status : Status]]
  /\ answer  \in [Handlers -> Codes]

\* The inductive invariant, in named parts.
Debited(h)  == \/ pc[h] \in {"readDest", "credit", "compensate"}
               \/ pc[h] \in {"complete", "commit"} /\ req[h].kind # "DEPOSIT"
Credited(h) == pc[h] \in {"complete", "commit", "depositCreate"}
Claimed(h)  == pc[h] \in {"debit", "readDest", "credit", "compensate",
                          "complete", "commit"}

\* Only an open transaction holds a row, and only who holds a row may have
\* changed it.
LocksHeld ==
  \A h \in Handlers, a \in Accounts :
    /\ rowLock[a] = h => pc[h] \in Inside
    /\ pending[h][a] # 0 => rowLock[a] = h

\* Only an open transaction has an uncommitted row, only one has it for a
\* request id, and none while that id is committed.
ClaimsHeld ==
  /\ \A h \in Handlers, r \in RequestIds :
       claim[r] = h => pc[h] \in Inside /\ req[h].rid = r /\ r \notin CommittedIds
  /\ \A h \in Handlers : Claimed(h) => claim[req[h].rid] = h

\* Where a handler is agrees with the request it serves.
PathsAgree ==
  \A h \in Handlers :
    /\ pc[h] \in {"idempotency", "account", "limits", "begin", "create", "debit",
                  "readDest", "credit", "compensate"} => req[h].kind # "DEPOSIT"
    /\ pc[h] \in {"readDest", "credit", "compensate"} => req[h].to \in Accounts
    /\ pc[h] \in {"depositCredit", "depositCreate"} => req[h].kind = "DEPOSIT"
    /\ Claimed(h) => req[h].to # NoSuchAccount

\* On its way to commit a transaction has changed the balances by what its
\* row accounts for so far, and it commits a row with its event.
DraftsAccounted ==
  \A h \in Handlers :
    /\ pc[h] \in Inside \ {"throw"} =>
         \A a \in Accounts :
           pending[h][a] = (IF Credited(h) /\ req[h].to = a THEN req[h].amt ELSE 0)
                         - (IF Debited(h) /\ req[h].from = a THEN req[h].amt ELSE 0)
    /\ pc[h] = "commit" => draft[h].event

\* The committed rows are those of handlers that have left their transaction.
RowsCommitted ==
  \A r \in ledger : /\ r = RowOf(r.id)
                    /\ pc[r.id] \in {"respond", "done"}

IInv == LocksHeld /\ ClaimsHeld /\ PathsAgree /\ DraftsAccounted /\ RowsCommitted

\* The concurrent handlers implement the atomic ledger: every step either
\* posts one payment in full or changes no money, no row and no event.
ImplementsAtomicLedger == AL!Spec

\* FR-13: no request id is charged twice, whatever is retried or raced.
UniqueRequestIds == AL!UniqueRequestIds

\* FR-14a: rows and events are committed together or not at all.
OutboxMatchesLedger == AL!OutboxMatchesLedger

\* No money is lost or made: compensations, rollbacks and interrupts leave
\* no trace in the balances.
BalancesMatchLedger == AL!BalancesMatchLedger

\* A handler that answers 4xx has charged nothing, one that answers 201 has
\* committed its row, and "already processed" is only said of a committed
\* request.  (A 500 or no answer says nothing: the commit may have happened.)
AnswersAreTrue ==
  \A h \in Handlers : Done(h) =>
    /\ answer[h] = "CREATED" => RowOf(h) \in ledger
    /\ answer[h] = "IDEMPOTENT" => req[h].rid \in CommittedIds
    /\ answer[h] \notin {"CREATED", "INTERNAL_ERROR", "LOST"} =>
         \A r \in ledger : r.id # h

\* A balance is driven below zero only by a payment whose handler judged the
\* funds on a balance that had changed by the time it committed.
OverdraftOnlyFromStaleRead ==
  [][\A a \in Accounts : balance'[a] < balance[a] /\ balance'[a] < 0 =>
       \E h \in Handlers : /\ pc[h] = "commit" /\ pc'[h] = "respond"
                          /\ req[h].from = a
                          /\ seen[h].balance # balance[a]]_vars

\* Every request that has arrived is answered, without help from a timeout:
\* locks are released on every path and deadlocks are broken.
EveryRequestAnswered ==
  \A h \in Handlers : ~Idle(h) ~> Done(h)

-----------------------------------------------------------------------------
(* What the documents say and the code does not do.                        *)

\* risk-check.ts:31 and the check inside the transaction: a payment is covered
\* by the balance, so no balance becomes negative.
NoOverdraft == \A a \in Accounts : balance[a] >= 0
=============================================================================
