---------------------------- MODULE LedgerProofs ----------------------------
(***************************************************************************)
(* Theorems about Ledger for any accounts, handlers, request ids, requests *)
(* and limits.  The inductive invariant is Inv == TypeOK /\ IInv.  Actions *)
(* that end alike (a reply, a throw, a rollback) share a lemma; every      *)
(* other action has its own, with one step per part of the invariant.      *)
(***************************************************************************)
EXTENDS Ledger, Sums, TLAPS

Inv == TypeOK /\ IInv

-----------------------------------------------------------------------------
(* The statements handlers are made of.                                    *)

\* Setting the saga status keeps the draft well typed and its event flag.
LEMMA SetSagaType ==
  ASSUME TypeOK, NEW h \in Handlers, NEW s \in SagaStatus, SetSaga(h, s)
  PROVE  /\ draft' \in [Handlers -> [saga : SagaStatus, event : BOOLEAN]]
         /\ \A g \in Handlers : draft'[g].event = draft[g].event
  BY DEF TypeOK, SetSaga

\* Reading the source account yields a balance and a status.
LEMMA ReadAccountType ==
  ASSUME TypeOK, NEW h \in Handlers, ReadAccount(h, req[h].from)
  PROVE  seen' \in [Handlers -> [balance : Int, status : Status]]
<1>1. req[h].from \in Accounts
  BY InputsAssumption DEF TypeOK, Request
<1> QED
  BY <1>1 DEF TypeOK, ReadAccount

\* Updating a balance keeps the lock table and the pending changes well typed.
LEMMA AddToBalanceType ==
  ASSUME TypeOK, NEW h \in Handlers, NEW a \in Accounts, NEW d \in Int,
         AddToBalance(h, a, d)
  PROVE  /\ rowLock' \in [Accounts -> Handlers \cup {None}]
         /\ pending' \in [Handlers -> [Accounts -> Int]]
<1>1. pending[h] \in [Accounts -> Int]
  BY DEF TypeOK
<1>2. [pending[h] EXCEPT ![a] = @ + d] \in [Accounts -> Int]
  BY <1>1
<1> QED
  BY <1>2 DEF TypeOK, AddToBalance

\* What a request is made of.
LEMMA RequestType ==
  ASSUME TypeOK, NEW h \in Handlers
  PROVE  /\ req[h].from \in Accounts
         /\ req[h].rid \in RequestIds
         /\ req[h].amt \in Nat \ {0}
         /\ req[h].to \in Accounts \cup {External, NoSuchAccount}
         /\ req[h].kind \in {"TRANSFER", "BILL_PAY", "DEPOSIT"}
         /\ req[h].kind = "DEPOSIT" => req[h].to = req[h].from
  BY InputsAssumption DEF TypeOK, Request

-----------------------------------------------------------------------------
(* Inv holds initially and is preserved by every action.                   *)

\* The seeded database, with every handler about to arrive, satisfies Inv.
LEMMA InitInv == Init => Inv
  BY InputsAssumption, SeedAssumption
  DEF Init, Inv, TypeOK, IInv, LocksHeld, ClaimsHeld, PathsAgree,
      DraftsAccounted, RowsCommitted, Claimed, Inside, Status, SagaStatus,
      Codes, NoDraft, NoRead, CommittedIds

\* A reply outside a transaction.
LEMMA ReplyInv ==
  ASSUME Inv,
         NEW h \in Handlers,
         NEW code \in Codes,
         pc[h] \notin Inside \cup {"done"},
         Reply(h, code)
  PROVE  Inv'
<1> USE SeedAssumption, RequestType DEF Inv, IInv, Reply, Goto, dbVars, txVars
<1>1. TypeOK'
  BY DEF TypeOK
<1>2. LocksHeld'
  BY DEF LocksHeld, TypeOK, Inside
<1>3. ClaimsHeld'
  BY DEF ClaimsHeld, TypeOK, Inside, Claimed, CommittedIds
<1>4. PathsAgree'
  BY DEF PathsAgree, TypeOK, Claimed
<1>5. DraftsAccounted'
  BY DEF DraftsAccounted, PathsAgree, LocksHeld, TypeOK, Inside, Credited,
         Debited
<1>6. RowsCommitted'
  BY DEF RowsCommitted, TypeOK, Inside, RowOf, AL!Row
<1> QED
  BY <1>1, <1>2, <1>3, <1>4, <1>5, <1>6

\* A throw, after which the transaction only waits for its rollback.
LEMMA ThrowInv ==
  ASSUME Inv,
         NEW h \in Handlers,
         NEW code \in Codes,
         pc[h] \in Inside,
         Throw(h, code),
         UNCHANGED <<rowLock, claim, pending>>,
         SetSaga(h, "COMPENSATED") \/ UNCHANGED draft
  PROVE  Inv'
<1> USE SeedAssumption, RequestType DEF Inv, IInv, Throw, Goto, dbVars
<1>0. /\ draft' \in [Handlers -> [saga : SagaStatus, event : BOOLEAN]]
      /\ \A g \in Handlers : draft'[g].event = draft[g].event
  BY SetSagaType DEF TypeOK, SagaStatus
<1>1. TypeOK'
  BY <1>0 DEF TypeOK, Inside
<1>2. LocksHeld'
  BY DEF LocksHeld, TypeOK, Inside
<1>3. ClaimsHeld'
  BY DEF ClaimsHeld, TypeOK, Inside, Claimed, CommittedIds
<1>4. PathsAgree'
  BY DEF PathsAgree, TypeOK, Claimed
<1>5. DraftsAccounted'
  BY <1>0 DEF DraftsAccounted, PathsAgree, LocksHeld, TypeOK, Inside, Credited,
         Debited
<1>6. RowsCommitted'
  BY DEF RowsCommitted, TypeOK, Inside, RowOf, AL!Row
<1> QED
  BY <1>1, <1>2, <1>3, <1>4, <1>5, <1>6

\* A rollback, by a throw or from outside, which frees what h holds.
LEMMA AbortInv ==
  ASSUME Inv,
         NEW h \in Handlers,
         pc[h] # "arrive",
         Release(h),
         Goto(h, "done"),
         \E code \in Codes : answer' = [answer EXCEPT ![h] = code],
         UNCHANGED <<dbVars, req, seen>>
  PROVE  Inv'
<1> USE SeedAssumption, RequestType DEF Inv, IInv, Release, Goto, dbVars, NoDraft
<1>1. TypeOK'
  BY DEF TypeOK, SagaStatus, Inside
<1>2. LocksHeld'
  BY DEF LocksHeld, TypeOK, Inside
<1>3. ClaimsHeld'
  <2>1. ASSUME NEW g \in Handlers, NEW r \in RequestIds, claim'[r] = g
        PROVE  (pc[g] \in Inside /\ req[g].rid = r /\ r \notin CommittedIds)'
    BY <2>1 DEF ClaimsHeld, TypeOK, Inside, CommittedIds
  <2>2. ASSUME NEW g \in Handlers, Claimed(g)'
        PROVE  (claim[req[g].rid] = g)'
    BY <2>2 DEF ClaimsHeld, TypeOK, Claimed
  <2> QED
    BY <2>1, <2>2 DEF ClaimsHeld
<1>4. PathsAgree'
  BY DEF PathsAgree, TypeOK, Claimed
<1>5. DraftsAccounted'
  BY DEF DraftsAccounted, PathsAgree, LocksHeld, TypeOK, Inside, Credited,
         Debited
<1>6. RowsCommitted'
  BY DEF RowsCommitted, TypeOK, Inside, RowOf, AL!Row
<1> QED
  BY <1>1, <1>2, <1>3, <1>4, <1>5, <1>6

\* The arrival of a request.
LEMMA ArriveInv ==
  ASSUME Inv,
         NEW h \in Handlers,
         Arrive(h)
  PROVE  Inv'
<1> USE SeedAssumption, RequestType DEF Inv, IInv, Arrive, Idle, Proceed, Goto, dbVars, txVars
<1>1. TypeOK'
  BY DEF TypeOK, Inside
<1>2. LocksHeld'
  BY DEF LocksHeld, TypeOK, Inside
<1>3. ClaimsHeld'
  BY DEF ClaimsHeld, TypeOK, Inside, Claimed, CommittedIds
<1>4. PathsAgree'
  BY DEF PathsAgree, TypeOK, Claimed
<1>5. DraftsAccounted'
  BY DEF DraftsAccounted, PathsAgree, LocksHeld, TypeOK, Inside, Credited,
         Debited
<1>6. RowsCommitted'
  BY DEF RowsCommitted, TypeOK, Inside, RowOf, AL!Row
<1> QED
  BY <1>1, <1>2, <1>3, <1>4, <1>5, <1>6

\* A check before the transaction that lets the request pass.
LEMMA PassInv ==
  ASSUME Inv,
         NEW h \in Handlers,
         NEW l \in {"account", "limits", "begin"},
         pc[h] \in {"idempotency", "account", "limits"},
         Goto(h, l),
         seen' \in [Handlers -> [balance : Int, status : Status]],
         UNCHANGED <<dbVars, txVars, req, answer>>
  PROVE  Inv'
<1> USE SeedAssumption, RequestType DEF Inv, IInv, Goto, dbVars, txVars
<1>1. TypeOK'
  BY DEF TypeOK, Inside
<1>2. LocksHeld'
  BY DEF LocksHeld, TypeOK, Inside
<1>3. ClaimsHeld'
  BY DEF ClaimsHeld, TypeOK, Inside, Claimed, CommittedIds
<1>4. PathsAgree'
  BY DEF PathsAgree, TypeOK, Claimed
<1>5. DraftsAccounted'
  BY DEF DraftsAccounted, PathsAgree, LocksHeld, TypeOK, Inside, Credited,
         Debited
<1>6. RowsCommitted'
  BY DEF RowsCommitted, TypeOK, Inside, RowOf, AL!Row
<1> QED
  BY <1>1, <1>2, <1>3, <1>4, <1>5, <1>6

\* The transaction begins on an active account.
LEMMA BeginInv ==
  ASSUME Inv,
         NEW h \in Handlers,
         pc[h] = "begin",
         req[h].kind # "DEPOSIT",
         ReadAccount(h, req[h].from),
         Goto(h, "create"),
         UNCHANGED <<dbVars, txVars, req, answer>>
  PROVE  Inv'
<1> USE SeedAssumption, RequestType DEF Inv, IInv, Goto, dbVars, txVars
<1>1. TypeOK'
  BY ReadAccountType DEF TypeOK, Inside
<1>2. LocksHeld'
  BY DEF LocksHeld, TypeOK, Inside
<1>3. ClaimsHeld'
  BY DEF ClaimsHeld, TypeOK, Inside, Claimed, CommittedIds
<1>4. PathsAgree'
  BY DEF PathsAgree, TypeOK, Claimed
<1>5. DraftsAccounted'
  BY DEF DraftsAccounted, PathsAgree, LocksHeld, TypeOK, Inside, Credited,
         Debited
<1>6. RowsCommitted'
  BY DEF RowsCommitted, TypeOK, Inside, RowOf, AL!Row
<1> QED
  BY <1>1, <1>2, <1>3, <1>4, <1>5, <1>6

\* A payment inserts its row.
LEMMA CreateInv ==
  ASSUME Inv,
         NEW h \in Handlers,
         pc[h] = "create",
         req[h].to # NoSuchAccount,
         InsertRow(h, "INITIATED"),
         Goto(h, "debit"),
         UNCHANGED <<dbVars, rowLock, pending, req, seen, answer>>
  PROVE  Inv'
<1> USE SeedAssumption, RequestType DEF Inv, IInv, Goto, dbVars, InsertRow, InsertAllowed
<1>0. /\ draft' \in [Handlers -> [saga : SagaStatus, event : BOOLEAN]]
      /\ \A g \in Handlers : draft'[g].event = draft[g].event
  BY SetSagaType DEF TypeOK, SagaStatus
<1>1. TypeOK'
  BY <1>0 DEF TypeOK, Inside
<1>2. LocksHeld'
  BY DEF LocksHeld, TypeOK, Inside
<1>3. ClaimsHeld'
  BY DEF ClaimsHeld, TypeOK, Inside, Claimed, CommittedIds
<1>4. PathsAgree'
  BY DEF PathsAgree, TypeOK, Claimed
<1>5. DraftsAccounted'
  BY <1>0 DEF DraftsAccounted, PathsAgree, LocksHeld, TypeOK, Inside, Credited,
         Debited
<1>6. RowsCommitted'
  BY DEF RowsCommitted, TypeOK, Inside, RowOf, AL!Row
<1> QED
  BY <1>1, <1>2, <1>3, <1>4, <1>5, <1>6

\* A payment debits its source.
LEMMA DebitInv ==
  ASSUME Inv,
         NEW h \in Handlers,
         pc[h] = "debit",
         AddToBalance(h, req[h].from, -req[h].amt),
         NEW s \in SagaStatus,
         SetSaga(h, s),
         Goto(h, IF req[h].to = External THEN "complete" ELSE "readDest"),
         UNCHANGED <<dbVars, claim, req, seen, answer>>
  PROVE  Inv'
<1> USE SeedAssumption, RequestType DEF Inv, IInv, Goto, dbVars
<1>0. /\ draft' \in [Handlers -> [saga : SagaStatus, event : BOOLEAN]]
      /\ \A g \in Handlers : draft'[g].event = draft[g].event
  BY SetSagaType DEF TypeOK, SagaStatus
<1>a. /\ rowLock' \in [Accounts -> Handlers \cup {None}]
      /\ pending' \in [Handlers -> [Accounts -> Int]]
  <2>1. req[h].from \in Accounts /\ -req[h].amt \in Int
    BY DEF PathsAgree
  <2> QED
    BY <2>1, AddToBalanceType
<1>1. TypeOK'
  BY <1>0, <1>a DEF TypeOK, Inside
<1>2. LocksHeld'
  BY DEF LocksHeld, TypeOK, Inside, AddToBalance
<1>3. ClaimsHeld'
  BY DEF ClaimsHeld, TypeOK, Inside, Claimed, CommittedIds
<1>4. PathsAgree'
  BY DEF PathsAgree, TypeOK, Claimed
<1>5. DraftsAccounted'
  BY <1>0 DEF DraftsAccounted, PathsAgree, LocksHeld, TypeOK, Inside, Credited,
         Debited, AddToBalance
<1>6. RowsCommitted'
  BY DEF RowsCommitted, TypeOK, Inside, RowOf, AL!Row
<1> QED
  BY <1>1, <1>2, <1>3, <1>4, <1>5, <1>6

\* A transfer reads its destination.
LEMMA ReadDestinationInv ==
  ASSUME Inv,
         NEW h \in Handlers,
         ReadDestination(h)
  PROVE  Inv'
<1> USE SeedAssumption, RequestType DEF Inv, IInv, ReadDestination, Proceed, Goto, dbVars, txVars
<1>1. TypeOK'
  BY DEF TypeOK, Inside
<1>2. LocksHeld'
  BY DEF LocksHeld, TypeOK, Inside
<1>3. ClaimsHeld'
  BY DEF ClaimsHeld, TypeOK, Inside, Claimed, CommittedIds
<1>4. PathsAgree'
  BY DEF PathsAgree, TypeOK, Claimed
<1>5. DraftsAccounted'
  BY DEF DraftsAccounted, PathsAgree, LocksHeld, TypeOK, Inside, Credited,
         Debited
<1>6. RowsCommitted'
  BY DEF RowsCommitted, TypeOK, Inside, RowOf, AL!Row
<1> QED
  BY <1>1, <1>2, <1>3, <1>4, <1>5, <1>6

\* A transfer takes its debit back and throws.
LEMMA CompensateInv ==
  ASSUME Inv,
         NEW h \in Handlers,
         pc[h] = "compensate",
         AddToBalance(h, req[h].from, req[h].amt),
         SetSaga(h, "COMPENSATED"),
         Throw(h, "DEST_ACCOUNT_INACTIVE"),
         UNCHANGED claim
  PROVE  Inv'
<1> USE SeedAssumption, RequestType DEF Inv, IInv, Throw, Goto, dbVars
<1>0. /\ draft' \in [Handlers -> [saga : SagaStatus, event : BOOLEAN]]
      /\ \A g \in Handlers : draft'[g].event = draft[g].event
  BY SetSagaType DEF TypeOK, SagaStatus
<1>a. /\ rowLock' \in [Accounts -> Handlers \cup {None}]
      /\ pending' \in [Handlers -> [Accounts -> Int]]
  <2>1. req[h].from \in Accounts /\ req[h].amt \in Int
    BY DEF PathsAgree
  <2> QED
    BY <2>1, AddToBalanceType
<1>1. TypeOK'
  BY <1>0, <1>a DEF TypeOK, Inside, Codes
<1>2. LocksHeld'
  BY DEF LocksHeld, TypeOK, Inside, AddToBalance
<1>3. ClaimsHeld'
  BY DEF ClaimsHeld, TypeOK, Inside, Claimed, CommittedIds
<1>4. PathsAgree'
  BY DEF PathsAgree, TypeOK, Claimed
<1>5. DraftsAccounted'
  BY <1>0 DEF DraftsAccounted, PathsAgree, LocksHeld, TypeOK, Inside, Credited,
         Debited, AddToBalance
<1>6. RowsCommitted'
  BY DEF RowsCommitted, TypeOK, Inside, RowOf, AL!Row
<1> QED
  BY <1>1, <1>2, <1>3, <1>4, <1>5, <1>6

\* A transfer credits its destination.
LEMMA CreditInv ==
  ASSUME Inv,
         NEW h \in Handlers,
         CreditDestination(h)
  PROVE  Inv'
<1> USE SeedAssumption, RequestType DEF Inv, IInv, CreditDestination, Goto, dbVars
<1>0. /\ draft' \in [Handlers -> [saga : SagaStatus, event : BOOLEAN]]
      /\ \A g \in Handlers : draft'[g].event = draft[g].event
  BY SetSagaType DEF TypeOK, SagaStatus
<1>a. /\ rowLock' \in [Accounts -> Handlers \cup {None}]
      /\ pending' \in [Handlers -> [Accounts -> Int]]
  <2>1. req[h].to \in Accounts /\ req[h].amt \in Int
    BY DEF PathsAgree
  <2> QED
    BY <2>1, AddToBalanceType
<1>1. TypeOK'
  BY <1>0, <1>a DEF TypeOK, Inside
<1>2. LocksHeld'
  BY DEF LocksHeld, TypeOK, Inside, AddToBalance
<1>3. ClaimsHeld'
  BY DEF ClaimsHeld, TypeOK, Inside, Claimed, CommittedIds
<1>4. PathsAgree'
  BY DEF PathsAgree, TypeOK, Claimed
<1>5. DraftsAccounted'
  BY <1>0 DEF DraftsAccounted, PathsAgree, LocksHeld, TypeOK, Inside, Credited,
         Debited, AddToBalance
<1>6. RowsCommitted'
  BY DEF RowsCommitted, TypeOK, Inside, RowOf, AL!Row
<1> QED
  BY <1>1, <1>2, <1>3, <1>4, <1>5, <1>6

\* The row is completed and the event written.
LEMMA CompleteInv ==
  ASSUME Inv,
         NEW h \in Handlers,
         Complete(h)
  PROVE  Inv'
<1> USE SeedAssumption, RequestType DEF Inv, IInv, Complete, Goto, dbVars
<1>1. TypeOK'
  BY DEF TypeOK, Inside, SagaStatus
<1>2. LocksHeld'
  BY DEF LocksHeld, TypeOK, Inside
<1>3. ClaimsHeld'
  BY DEF ClaimsHeld, TypeOK, Inside, Claimed, CommittedIds
<1>4. PathsAgree'
  BY DEF PathsAgree, TypeOK, Claimed
<1>5. DraftsAccounted'
  BY DEF DraftsAccounted, PathsAgree, LocksHeld, TypeOK, Inside, Credited,
         Debited
<1>6. RowsCommitted'
  BY DEF RowsCommitted, TypeOK, Inside, RowOf, AL!Row
<1> QED
  BY <1>1, <1>2, <1>3, <1>4, <1>5, <1>6

\* A deposit credits its account.
LEMMA DepositCreditInv ==
  ASSUME Inv,
         NEW h \in Handlers,
         DepositCredit(h)
  PROVE  Inv'
<1> USE SeedAssumption, RequestType DEF Inv, IInv, DepositCredit, Goto, dbVars
<1>a. /\ rowLock' \in [Accounts -> Handlers \cup {None}]
      /\ pending' \in [Handlers -> [Accounts -> Int]]
  <2>1. req[h].to \in Accounts /\ req[h].amt \in Int
    BY DEF PathsAgree
  <2> QED
    BY <2>1, AddToBalanceType
<1>1. TypeOK'
  BY <1>a DEF TypeOK, Inside
<1>2. LocksHeld'
  BY DEF LocksHeld, TypeOK, Inside, AddToBalance
<1>3. ClaimsHeld'
  BY DEF ClaimsHeld, TypeOK, Inside, Claimed, CommittedIds
<1>4. PathsAgree'
  BY DEF PathsAgree, TypeOK, Claimed
<1>5. DraftsAccounted'
  BY DEF DraftsAccounted, PathsAgree, LocksHeld, TypeOK, Inside, Credited,
         Debited, AddToBalance
<1>6. RowsCommitted'
  BY DEF RowsCommitted, TypeOK, Inside, RowOf, AL!Row
<1> QED
  BY <1>1, <1>2, <1>3, <1>4, <1>5, <1>6

\* A deposit inserts its row.
LEMMA DepositCreateInv ==
  ASSUME Inv,
         NEW h \in Handlers,
         pc[h] = "depositCreate",
         InsertRow(h, "COMPLETED"),
         Goto(h, "complete"),
         UNCHANGED <<dbVars, rowLock, pending, req, seen, answer>>
  PROVE  Inv'
<1> USE SeedAssumption, RequestType DEF Inv, IInv, Goto, dbVars, InsertRow, InsertAllowed
<1>0. /\ draft' \in [Handlers -> [saga : SagaStatus, event : BOOLEAN]]
      /\ \A g \in Handlers : draft'[g].event = draft[g].event
  BY SetSagaType DEF TypeOK, SagaStatus
<1>1. TypeOK'
  BY <1>0 DEF PathsAgree, TypeOK, Inside
<1>2. LocksHeld'
  BY DEF LocksHeld, TypeOK, Inside
<1>3. ClaimsHeld'
  BY DEF ClaimsHeld, TypeOK, Inside, Claimed, CommittedIds
<1>4. PathsAgree'
  BY DEF PathsAgree, TypeOK, Claimed
<1>5. DraftsAccounted'
  BY <1>0 DEF DraftsAccounted, PathsAgree, LocksHeld, TypeOK, Inside, Credited,
         Debited
<1>6. RowsCommitted'
  BY DEF RowsCommitted, TypeOK, Inside, RowOf, AL!Row
<1> QED
  BY <1>1, <1>2, <1>3, <1>4, <1>5, <1>6

\* A commit makes the row, the event and the balances visible.
LEMMA CommitInv ==
  ASSUME Inv,
         NEW h \in Handlers,
         Commit(h)
  PROVE  Inv'
<1> USE SeedAssumption, RequestType DEF Inv, IInv, Commit, Goto, Release, NoDraft
<1>1. TypeOK'
  BY DEF PathsAgree, Claimed, TypeOK, Inside, SagaStatus, RowOf, EventsOf,
         AL!Row, AL!Kinds
<1>2. LocksHeld'
  BY DEF LocksHeld, TypeOK, Inside
<1>3. ClaimsHeld'
  <2>0. claim[req[h].rid] = h
    BY DEF ClaimsHeld, Claimed
  <2>1. ASSUME NEW g \in Handlers, NEW r \in RequestIds, claim'[r] = g
        PROVE  (pc[g] \in Inside /\ req[g].rid = r /\ r \notin CommittedIds)'
    <3>1. g # h /\ claim[r] = g
      BY <2>1 DEF TypeOK
    <3>2. r # req[h].rid
      BY <2>0, <3>1
    <3> QED
      BY <3>1, <3>2 DEF ClaimsHeld, TypeOK, CommittedIds, RowOf
  <2>2. ASSUME NEW g \in Handlers, Claimed(g)'
        PROVE  (claim[req[g].rid] = g)'
    BY <2>2 DEF ClaimsHeld, TypeOK, Claimed
  <2> QED
    BY <2>1, <2>2 DEF ClaimsHeld
<1>4. PathsAgree'
  BY DEF PathsAgree, TypeOK, Claimed
<1>5. DraftsAccounted'
  BY DEF DraftsAccounted, PathsAgree, LocksHeld, TypeOK, Inside, Credited,
         Debited
<1>6. RowsCommitted'
  BY DEF RowsCommitted, TypeOK, Inside, RowOf, AL!Row
<1> QED
  BY <1>1, <1>2, <1>3, <1>4, <1>5, <1>6

\* An operator changes the status of an account.
LEMMA SetStatusInv ==
  ASSUME Inv, NEW a \in Accounts, NEW s \in Status, SetStatus(a, s)
  PROVE  Inv'
  BY DEF Inv, IInv, SetStatus, txVars, procVars, TypeOK, LocksHeld, ClaimsHeld,
         PathsAgree, DraftsAccounted, RowsCommitted, RowOf, CommittedIds,
         Claimed, Credited, Debited

-----------------------------------------------------------------------------
(* Every step of the specification preserves Inv.                          *)

\* The checks before the transaction.
LEMMA ChecksInv ==
  ASSUME Inv, NEW h \in Handlers,
         CheckIdempotency(h) \/ CheckAccount(h) \/ CheckLimits(h)
  PROVE  Inv'
<1>1. pc[h] \in {"idempotency", "account", "limits"}
  BY DEF CheckIdempotency, CheckAccount, CheckLimits
<1>2. CASE \E code \in Codes : Reply(h, code)
  BY <1>1, <1>2, ReplyInv DEF Inside
<1>3. CASE Proceed(h, "account") \/ Proceed(h, "begin")
  BY <1>1, <1>3, PassInv DEF Proceed, Inv, TypeOK
<1>4. CASE /\ ReadAccount(h, req[h].from)
           /\ Goto(h, "limits")
           /\ UNCHANGED <<dbVars, txVars, req, answer>>
  BY <1>1, <1>4, PassInv, ReadAccountType DEF Inv
<1> QED
  BY <1>2, <1>3, <1>4 DEF CheckIdempotency, CheckAccount, CheckLimits, Codes

\* The statements of a payment up to its debit.
LEMMA PaymentInv ==
  ASSUME Inv, NEW h \in Handlers,
         BeginPayment(h) \/ CreateRecord(h) \/ DebitSource(h)
  PROVE  Inv'
<1>1. pc[h] \in Inside
  BY DEF BeginPayment, CreateRecord, DebitSource, Inside
<1>2. CASE BeginPayment(h)
  <2>1. CASE Throw(h, "ACCOUNT_INACTIVE")
    BY <1>1, <1>2, <2>1, ThrowInv DEF BeginPayment, txVars, Codes
  <2>2. CASE /\ ReadAccount(h, req[h].from)
             /\ Goto(h, "create")
             /\ UNCHANGED <<dbVars, req, answer>>
    <3>1. pc[h] = "begin" /\ UNCHANGED txVars
      BY <1>2 DEF BeginPayment
    <3>2. req[h].kind # "DEPOSIT"
      BY <3>1 DEF Inv, IInv, PathsAgree
    <3> QED
      BY <2>2, <3>1, <3>2, BeginInv
  <2> QED
    BY <1>2, <2>1, <2>2 DEF BeginPayment
<1>3. CASE CreateRecord(h)
  <2>1. CASE /\ Throw(h, "DUPLICATE_ENTRY") \/ Throw(h, "INTERNAL_ERROR")
             /\ UNCHANGED txVars
    BY <1>1, <2>1, ThrowInv DEF txVars, Codes
  <2>2. CASE /\ req[h].to # NoSuchAccount
             /\ InsertRow(h, "INITIATED")
             /\ Goto(h, "debit")
             /\ UNCHANGED <<dbVars, rowLock, pending, req, seen, answer>>
    BY <1>3, <2>2, CreateInv DEF CreateRecord
  <2> QED
    BY <1>3, <2>1, <2>2 DEF CreateRecord
<1>4. CASE DebitSource(h)
  <2>1. CASE /\ SetSaga(h, "COMPENSATED")
             /\ Throw(h, "INSUFFICIENT_FUNDS")
             /\ UNCHANGED <<rowLock, claim, pending>>
    BY <1>1, <2>1, ThrowInv DEF Codes
  <2>2. CASE /\ AddToBalance(h, req[h].from, -req[h].amt)
             /\ SetSaga(h, IF req[h].kind = "TRANSFER" THEN "DEBITED" ELSE "INITIATED")
             /\ Goto(h, IF req[h].to = External THEN "complete" ELSE "readDest")
             /\ UNCHANGED <<dbVars, claim, req, seen, answer>>
    BY <1>4, <2>2, DebitInv DEF DebitSource, SagaStatus
  <2> QED
    BY <1>4, <2>1, <2>2 DEF DebitSource
<1> QED
  BY <1>2, <1>3, <1>4

\* The compensation and the row of a deposit, each with its refusal.
LEMMA BranchesInv ==
  ASSUME Inv, NEW h \in Handlers, Compensate(h) \/ DepositCreate(h)
  PROVE  Inv'
<1>1. pc[h] \in Inside
  BY DEF Compensate, DepositCreate, Inside
<1>2. CASE /\ Throw(h, "INTERNAL_ERROR") \/ Throw(h, "DUPLICATE_ENTRY")
           /\ UNCHANGED txVars
  BY <1>1, <1>2, ThrowInv DEF txVars, Codes
<1>3. CASE Compensate(h) /\ ~(Throw(h, "INTERNAL_ERROR") /\ UNCHANGED txVars)
  BY <1>3, CompensateInv DEF Compensate
<1>4. CASE DepositCreate(h) /\ ~(Throw(h, "DUPLICATE_ENTRY") /\ UNCHANGED txVars)
  BY <1>4, DepositCreateInv DEF DepositCreate
<1> QED
  BY <1>2, <1>3, <1>4 DEF Compensate, DepositCreate

\* A rollback, whether the handler threw or was interrupted.
LEMMA EndInv ==
  ASSUME Inv, NEW h \in Handlers,
         Rollback(h) \/ \E code \in {"INTERNAL_ERROR", "LOST"} : Interrupt(h, code)
  PROVE  Inv'
<1>1. CASE Rollback(h)
  <2>1. answer[h] \in Codes /\ answer' = [answer EXCEPT ![h] = answer[h]]
    BY <1>1 DEF Rollback, Inv, TypeOK
  <2> QED
    BY <1>1, <2>1, AbortInv DEF Rollback
<1>2. ASSUME NEW code \in {"INTERNAL_ERROR", "LOST"}, Interrupt(h, code)
      PROVE  Inv'
  BY <1>2, AbortInv DEF Interrupt, Codes, Idle
<1> QED
  BY <1>1, <1>2

\* Every step of a handler preserves Inv.
LEMMA StepInv ==
  ASSUME Inv, NEW h \in Handlers, Step(h)
  PROVE  Inv'
<1>1. CASE Respond(h)
  BY <1>1, ReplyInv DEF Respond, Codes, Inside
<1> QED
  BY <1>1, ArriveInv, ChecksInv, PaymentInv, BranchesInv, ReadDestinationInv,
     CreditInv, DepositCreditInv, CompleteInv, CommitInv, EndInv DEF Step

\* Every step of the system preserves Inv.
LEMMA NextInv == Inv /\ [Next]_vars => Inv'
<1> SUFFICES ASSUME Inv, [Next]_vars PROVE Inv'
  OBVIOUS
<1>1. CASE UNCHANGED vars
  BY <1>1 DEF vars, dbVars, txVars, procVars, Inv, TypeOK, IInv, LocksHeld,
     ClaimsHeld, PathsAgree, DraftsAccounted, RowsCommitted, RowOf,
     CommittedIds, Claimed, Credited, Debited
<1>2. ASSUME NEW h \in Handlers, Step(h) \/ DeadlockVictim(h)
      PROVE  Inv'
  BY <1>2, StepInv, EndInv DEF DeadlockVictim
<1>3. ASSUME NEW h \in Handlers, NEW code \in {"INTERNAL_ERROR", "LOST"},
             Interrupt(h, code)
      PROVE  Inv'
  BY <1>3, EndInv
<1>4. ASSUME NEW a \in Accounts, NEW s \in Status, SetStatus(a, s)
      PROVE  Inv'
  BY <1>4, SetStatusInv
<1> QED
  BY <1>1, <1>2, <1>3, <1>4 DEF Next

\* Inv holds in every reachable state.
LEMMA InvHolds == Spec => []Inv
  BY InitInv, NextInv, PTL DEF Spec

\* The state always has its shape; in particular every committed row names
\* existing accounts and every event in the outbox announces a committed row.
THEOREM TypeCorrect == Spec => []TypeOK
<1>1. Inv => TypeOK
  BY DEF Inv
<1> QED
  BY <1>1, InvHolds, PTL

\* Row locks, request-id claims, uncommitted balance changes and committed
\* rows agree with where the handlers are, in every reachable state.
THEOREM InductiveInvariant == Spec => []IInv
<1>1. Inv => IInv
  BY DEF Inv
<1> QED
  BY <1>1, InvHolds, PTL

-----------------------------------------------------------------------------
(* Ledger implements AtomicLedger.                                         *)

\* A commit is the abstract posting of the handler's row.
LEMMA CommitPosts ==
  ASSUME Inv, NEW h \in Handlers, Commit(h)
  PROVE  RowOf(h) \in AL!Row /\ AL!Post(RowOf(h))
<1>1. RowOf(h) \in AL!Row
  BY RequestType DEF Inv, IInv, PathsAgree, Commit, Claimed, TypeOK, RowOf, AL!Row, AL!Kinds
<1>2. \A q \in ledger : q.rid # RowOf(h).rid /\ q.id # RowOf(h).id
  <2>1. claim[req[h].rid] = h /\ req[h].rid \notin CommittedIds
    BY RequestType DEF Inv, IInv, ClaimsHeld, Claimed, Commit
  <2> QED
    BY <2>1 DEF Commit, Inv, IInv, RowsCommitted, CommittedIds, RowOf
<1>3. outbox' = outbox \cup {AL!EventOf(RowOf(h))}
  BY DEF Commit, EventsOf, Inv, IInv, DraftsAccounted
<1>4. balance' = [a \in Accounts |-> balance[a] + AL!Effect(RowOf(h), a)]
  <2>1. ASSUME NEW a \in Accounts
        PROVE  pending[h][a] = AL!Effect(RowOf(h), a)
    <3>1. pc[h] = "commit"
      BY DEF Commit
    <3>2. Credited(h) /\ (Debited(h) <=> req[h].kind # "DEPOSIT")
      BY <3>1 DEF Credited, Debited
    <3>3. pending[h][a] = (IF req[h].to = a THEN req[h].amt ELSE 0)
                 - (IF req[h].kind # "DEPOSIT" /\ req[h].from = a THEN req[h].amt ELSE 0)
      BY <3>1, <3>2 DEF Inv, IInv, DraftsAccounted, Inside
    <3> QED
      BY <3>3 DEF RowOf, AL!Effect, AL!Credits, AL!Debits
  <2> QED
    BY <2>1 DEF Commit
<1> QED
  BY <1>1, <1>2, <1>3, <1>4 DEF AL!Post, Commit

\* Every other step leaves the balances, the rows and the events alone.
LEMMA StepRefines == Inv /\ [Next]_vars => [AL!Next]_AL!avars
<1> SUFFICES ASSUME Inv, [Next]_vars PROVE [AL!Next]_AL!avars
  OBVIOUS
<1> USE DEF AL!avars, dbVars
<1>1. ASSUME NEW h \in Handlers, Commit(h)
      PROVE  AL!Next
  BY <1>1, CommitPosts DEF AL!Next
<1>2. ASSUME NEW h \in Handlers, Step(h), ~Commit(h)
      PROVE  UNCHANGED <<balance, ledger, outbox>>
  BY <1>2 DEF Step, Arrive, CheckIdempotency, CheckAccount, CheckLimits,
     BeginPayment, CreateRecord, DebitSource, ReadDestination, Compensate,
     CreditDestination, DepositCredit, DepositCreate, Complete, Respond,
     Rollback, Reply, Proceed, Throw
<1>3. ASSUME NEW h \in Handlers, NEW code, Interrupt(h, code)
      PROVE  UNCHANGED <<balance, ledger, outbox>>
  BY <1>3 DEF Interrupt
<1>4. ASSUME NEW a \in Accounts, NEW s \in Status, SetStatus(a, s)
      PROVE  UNCHANGED <<balance, ledger, outbox>>
  BY <1>4 DEF SetStatus
<1>5. CASE UNCHANGED vars
  BY <1>5 DEF vars
<1> QED
  BY <1>1, <1>2, <1>3, <1>4, <1>5 DEF Next, DeadlockVictim

\* Whatever handlers interleave, are interrupted, deadlock or are retried,
\* the database only ever changes by whole payments, each posted once with
\* its row, its event and exactly its money.
THEOREM Refinement == Spec => ImplementsAtomicLedger
<1>1. Init => AL!Init
  BY DEF Init, AL!Init
<1> QED
  BY <1>1, InvHolds, StepRefines, PTL DEF Spec, ImplementsAtomicLedger, AL!Spec

\* No request id is charged twice (FR-13).
THEOREM AtMostOneRowPerRequest == Spec => []UniqueRequestIds
<1> USE DEF UniqueRequestIds, AL!UniqueRequestIds
<1>1. AL!Init => UniqueRequestIds
  BY DEF AL!Init
<1>2. UniqueRequestIds /\ [AL!Next]_AL!avars => UniqueRequestIds'
  BY DEF AL!Next, AL!Post, AL!avars
<1> QED
  BY <1>1, <1>2, Refinement, PTL DEF ImplementsAtomicLedger, AL!Spec

\* Rows and outbox events are committed together or not at all (FR-14a).
THEOREM RowsHaveEvents == Spec => []OutboxMatchesLedger
<1> USE DEF OutboxMatchesLedger, AL!OutboxMatchesLedger
<1>1. AL!Init => OutboxMatchesLedger
  BY DEF AL!Init
<1>2. OutboxMatchesLedger /\ [AL!Next]_AL!avars => OutboxMatchesLedger'
  BY DEF AL!Next, AL!Post, AL!avars
<1> QED
  BY <1>1, <1>2, Refinement, PTL DEF ImplementsAtomicLedger, AL!Spec

\* The sum of the abstract module is the one that module Sums is about.
LEMMA AbstractSum == \A f : AL!SumFunction(f) = SumFunction(f)
  BY DEF AL!SumFunction, AL!SumFunctionOnSet, AL!FoldFunctionOnSet, AL!MapThenFoldSet,
         SumFunction, SumFunctionOnSet, FoldFunctionOnSet, MapThenFoldSet

\* A posting adds the effects of its row to what the rows account for.
LEMMA PostKeepsBalances ==
  ASSUME AL!TypeOK, IsFiniteSet(ledger), BalancesMatchLedger,
         NEW r \in AL!Row, AL!Post(r)
  PROVE  IsFiniteSet(ledger') /\ BalancesMatchLedger'
<1>1. /\ r \notin ledger /\ ledger' = ledger \cup {r}
      /\ balance' = [a \in Accounts |-> balance[a] + AL!Effect(r, a)]
  BY DEF AL!Post
<1>2. IsFiniteSet(ledger')
  BY <1>1, FS_AddElement
<1>3. ASSUME NEW a \in Accounts
      PROVE  balance'[a] = InitialBalance[a]
                           + SumFunction([q \in ledger' |-> AL!Effect(q, a)])
  <2> DEFINE f == [q \in ledger |-> AL!Effect(q, a)]
             g == [q \in ledger \cup {r} |-> AL!Effect(q, a)]
  <2>1. \A q \in AL!Row : AL!Effect(q, a) \in Int
    BY InputsAssumption DEF AL!Row, AL!Effect, Request
  <2>2. f \in [ledger -> Int] /\ g \in [ledger \cup {r} -> Int]
    BY <2>1 DEF AL!TypeOK
  <2>3. g[r] = AL!Effect(r, a) /\ \A q \in ledger : g[q] = f[q]
    OBVIOUS
  <2>4. balance[a] = InitialBalance[a] + SumFunction(f)
    BY AbstractSum DEF BalancesMatchLedger, AL!BalancesMatchLedger
  <2>5. [q \in ledger' |-> AL!Effect(q, a)] = g
    BY <1>1
  <2>6. /\ AL!Effect(r, a) \in Int /\ balance[a] \in Int /\ InitialBalance[a] \in Int
        /\ balance'[a] = balance[a] + AL!Effect(r, a)
    BY <1>1, <2>1, SeedAssumption DEF AL!TypeOK
  <2> HIDE DEF f, g
  <2>7. SumFunction(f) \in Int
    BY <2>2, SumInSet
  <2>8. SumFunction(g) = SumFunction(f) + g[r]
    <3>1. r \notin ledger
      BY <1>1
    <3> QED BY <2>2, <2>3, <3>1, SumGrows
  <2> QED BY <2>3, <2>4, <2>5, <2>6, <2>7, <2>8
<1> QED BY <1>2, <1>3, AbstractSum DEF BalancesMatchLedger, AL!BalancesMatchLedger

\* No money is lost or made: however payments interleave, fail, are compensated
\* or are interrupted, each balance is the seeded one plus what the committed
\* rows account for.
THEOREM MoneyConserved == Spec => []BalancesMatchLedger
<1>1. Inv => AL!TypeOK
  BY DEF Inv, TypeOK, AL!TypeOK
<1>2. AL!Init => IsFiniteSet(ledger) /\ BalancesMatchLedger
  <2> SUFFICES ASSUME AL!Init PROVE IsFiniteSet(ledger) /\ BalancesMatchLedger
    OBVIOUS
  <2>1. ledger = {} /\ balance = InitialBalance /\ IsFiniteSet({})
    BY FS_EmptySet DEF AL!Init
  <2>2. ASSUME NEW a \in Accounts
        PROVE  balance[a] = InitialBalance[a]
                            + SumFunction([q \in ledger |-> AL!Effect(q, a)])
    <3> DEFINE f == [q \in ledger |-> AL!Effect(q, a)]
    <3>1. DOMAIN f = {}
      BY <2>1
    <3>2. InitialBalance[a] \in Int
      BY SeedAssumption
    <3> HIDE DEF f
    <3>3. SumFunction(f) = 0
      BY <3>1, SumOfNone
    <3> QED BY <2>1, <3>2, <3>3 DEF f
  <2> QED BY <2>1, <2>2, AbstractSum DEF BalancesMatchLedger, AL!BalancesMatchLedger
<1>3. /\ AL!TypeOK /\ IsFiniteSet(ledger) /\ BalancesMatchLedger /\ [AL!Next]_AL!avars
      => (IsFiniteSet(ledger) /\ BalancesMatchLedger)'
  <2>1. CASE UNCHANGED AL!avars
    BY <2>1 DEF AL!avars, BalancesMatchLedger, AL!BalancesMatchLedger
  <2> QED BY <2>1, PostKeepsBalances DEF AL!Next
<1> QED BY <1>1, <1>2, <1>3, InvHolds, Refinement, PTL DEF ImplementsAtomicLedger, AL!Spec

-----------------------------------------------------------------------------
(* What clients are told, and what a debit was judged on.                  *)

\* What h's answer says, once given, and what it is about to say.
Told(h) ==
  /\ pc[h] = "respond" => RowOf(h) \in ledger
  /\ pc[h] = "throw" => answer[h] \notin {"CREATED", "IDEMPOTENT"}
  /\ Done(h) => /\ answer[h] = "CREATED" => RowOf(h) \in ledger
                /\ answer[h] = "IDEMPOTENT" => req[h].rid \in CommittedIds
                /\ answer[h] \notin {"CREATED", "INTERNAL_ERROR", "LOST"} =>
                     \A r \in ledger : r.id # h

\* The balance read at BEGIN covered the amount.
Covered(h) == Debited(h) => seen[h].balance >= req[h].amt

Judged == \A h \in Handlers : Told(h) /\ Covered(h)

Ends(h) == Rollback(h) \/ \E code \in {"INTERNAL_ERROR", "LOST"} : Interrupt(h, code)

\* A step of h leaves the other handlers alone, and only adds h's own row.
LEMMA StepFrame ==
  ASSUME TypeOK, NEW h \in Handlers, Step(h) \/ Ends(h)
  PROVE  /\ \A g \in Handlers \ {h} : /\ pc'[g] = pc[g]
                                      /\ answer'[g] = answer[g]
                                      /\ seen'[g] = seen[g]
         /\ req' = req
         /\ ledger \subseteq ledger'
         /\ \A r \in ledger' \ ledger : r.id = h
<1> USE DEF TypeOK, Goto, dbVars, procVars
<1>1. CASE \/ Arrive(h) \/ CheckIdempotency(h) \/ CheckAccount(h) \/ CheckLimits(h)
  BY <1>1 DEF Arrive, CheckIdempotency, CheckAccount, CheckLimits, Reply, Proceed,
              ReadAccount
<1>2. CASE \/ BeginPayment(h) \/ CreateRecord(h) \/ DebitSource(h)
           \/ ReadDestination(h) \/ Compensate(h) \/ CreditDestination(h)
  BY <1>2 DEF BeginPayment, CreateRecord, DebitSource, ReadDestination, Compensate,
              CreditDestination, Throw, Proceed, ReadAccount
<1>3. CASE \/ DepositCredit(h) \/ DepositCreate(h) \/ Complete(h)
           \/ Respond(h) \/ Rollback(h)
  BY <1>3 DEF DepositCredit, DepositCreate, Complete, Respond, Rollback, Reply, Throw
<1>4. CASE Commit(h)
  BY <1>4 DEF Commit, RowOf
<1>5. CASE \E code \in {"INTERNAL_ERROR", "LOST"} : Interrupt(h, code)
  BY <1>5 DEF Interrupt
<1> QED BY <1>1, <1>2, <1>3, <1>4, <1>5 DEF Step, Ends

\* What was said of another request stays true.
LEMMA OthersJudged ==
  ASSUME Inv, Judged, NEW h \in Handlers, Step(h) \/ Ends(h),
         NEW g \in Handlers, g # h
  PROVE  (Told(g) /\ Covered(g))'
<1>1. /\ pc'[g] = pc[g] /\ answer'[g] = answer[g] /\ seen'[g] = seen[g]
      /\ req' = req /\ ledger \subseteq ledger'
      /\ \A r \in ledger' \ ledger : r.id # g
  BY StepFrame DEF Inv
<1>2. Told(g) /\ Covered(g)
  BY DEF Judged
<1>3. Covered(g)'
  BY <1>1, <1>2 DEF Covered, Debited
<1>4. Told(g)'
  BY <1>1, <1>2 DEF Told, Done, RowOf, CommittedIds
<1> QED BY <1>3, <1>4

\* A row is in the ledger only when its handler has answered or is about to.
LEMMA NoRowYet ==
  ASSUME Inv, NEW h \in Handlers, pc[h] \notin {"respond", "done"}
  PROVE  \A r \in ledger : r.id # h
  BY DEF Inv, IInv, RowsCommitted

\* What h comes to say is true.
LEMMA OwnTold ==
  ASSUME Inv, Judged, NEW h \in Handlers, Step(h) \/ Ends(h)
  PROVE  Told(h)'
<1> USE DEF Goto, dbVars
<1>0. /\ pc \in [Handlers -> Inside \cup {"arrive", "idempotency", "account",
                                          "limits", "respond", "done"}]
      /\ answer \in [Handlers -> Codes]
      /\ Told(h)
  BY DEF Inv, TypeOK, Judged
<1>1. ASSUME NEW p \in (Inside \ {"throw"}) \cup {"idempotency", "account", "limits"},
             Goto(h, p)
      PROVE  Told(h)'
  BY <1>0, <1>1 DEF Told, Done, Inside
<1>2. ASSUME NEW code \in Codes \ {"CREATED", "IDEMPOTENT"}, Throw(h, code)
      PROVE  Told(h)'
  BY <1>0, <1>2 DEF Throw, Told, Done
<1>3. ASSUME NEW code \in {"RISK_CHECK_FAILED", "STEP_UP"}, Reply(h, code),
             pc[h] \notin {"respond", "done"}
      PROVE  Told(h)'
  BY <1>0, <1>3, NoRowYet DEF Reply, Told, Done
<1>4. CASE Arrive(h)
  BY <1>1, <1>4 DEF Arrive, Proceed, Inside
<1>5. CASE CheckIdempotency(h)
  <2>1. CASE req[h].rid \in CommittedIds /\ Reply(h, "IDEMPOTENT")
    <3>1. \A r \in ledger : r.id # h
      BY <1>5, NoRowYet DEF CheckIdempotency
    <3> QED BY <1>0, <2>1, <3>1 DEF Reply, Told, Done, CommittedIds
  <2>2. CASE Proceed(h, "account")
    BY <1>1, <2>2 DEF Proceed
  <2> QED BY <1>5, <2>1, <2>2 DEF CheckIdempotency
<1>6. CASE CheckAccount(h)
  BY <1>1, <1>3, <1>6 DEF CheckAccount
<1>7. CASE CheckLimits(h)
  BY <1>1, <1>3, <1>7 DEF CheckLimits, Proceed, Inside
<1>8. CASE BeginPayment(h)
  BY <1>1, <1>2, <1>8 DEF BeginPayment, Inside, Codes
<1>9. CASE CreateRecord(h)
  BY <1>1, <1>2, <1>9 DEF CreateRecord, Inside, Codes
<1>10. CASE DebitSource(h)
  <2>1. CASE Throw(h, "INSUFFICIENT_FUNDS")
    BY <1>2, <2>1 DEF Codes
  <2>2. CASE Goto(h, IF req[h].to = External THEN "complete" ELSE "readDest")
    BY <1>1, <2>2 DEF Inside
  <2> QED BY <1>10, <2>1, <2>2 DEF DebitSource
<1>11. CASE ReadDestination(h)
  BY <1>1, <1>11 DEF ReadDestination, Proceed, Inside
<1>12. CASE Compensate(h)
  BY <1>2, <1>12 DEF Compensate, Codes
<1>13. CASE CreditDestination(h) \/ DepositCredit(h) \/ Complete(h)
  BY <1>1, <1>13 DEF CreditDestination, DepositCredit, Complete, Inside
<1>14. CASE DepositCreate(h)
  BY <1>1, <1>2, <1>14 DEF DepositCreate, Inside, Codes
<1>15. CASE Commit(h)
  BY <1>0, <1>15 DEF Commit, Told, Done, RowOf
<1>16. CASE Respond(h)
  BY <1>0, <1>16 DEF Respond, Reply, Told, Done, RowOf
<1>17. CASE Rollback(h)
  <2>1. \A r \in ledger : r.id # h
    BY <1>17, NoRowYet DEF Rollback
  <2> QED BY <1>0, <1>17, <2>1 DEF Rollback, Told, Done
<1>18. CASE \E code \in {"INTERNAL_ERROR", "LOST"} : Interrupt(h, code)
  BY <1>0, <1>18 DEF Interrupt, Told, Done
<1> QED
  BY <1>4, <1>5, <1>6, <1>7, <1>8, <1>9, <1>10, <1>11, <1>12, <1>13, <1>14,
     <1>15, <1>16, <1>17, <1>18 DEF Step, Ends

\* From the debit on, nothing changes what h has read.
LEMMA OwnCovered ==
  ASSUME Inv, Judged, NEW h \in Handlers, Step(h) \/ Ends(h)
  PROVE  Covered(h)'
<1> USE DEF Goto, dbVars, Covered, Debited
<1>0. /\ pc \in [Handlers -> Inside \cup {"arrive", "idempotency", "account",
                                          "limits", "respond", "done"}]
      /\ Covered(h)
      /\ req' = req
  BY StepFrame DEF Inv, TypeOK, Judged
<1>1. ASSUME NEW p \in (Inside \ {"readDest", "credit", "compensate", "complete", "commit"})
                       \cup {"idempotency", "account", "limits", "respond", "done"},
             Goto(h, p)
      PROVE  Covered(h)'
  BY <1>0, <1>1 DEF Inside
<1>2. CASE \/ Arrive(h) \/ CheckIdempotency(h) \/ CheckAccount(h) \/ CheckLimits(h)
  BY <1>1, <1>2 DEF Arrive, CheckIdempotency, CheckAccount, CheckLimits, Reply,
                    Proceed, Inside
<1>3. CASE BeginPayment(h) \/ CreateRecord(h) \/ Compensate(h) \/ DepositCredit(h)
  BY <1>1, <1>3 DEF BeginPayment, CreateRecord, Compensate, DepositCredit, Throw,
                    Inside
<1>4. CASE DebitSource(h)
  <2>1. CASE Throw(h, "INSUFFICIENT_FUNDS")
    BY <1>1, <2>1 DEF Throw, Inside
  <2>2. CASE seen[h].balance >= req[h].amt /\ UNCHANGED seen
    BY <1>0, <2>2
  <2> QED BY <1>4, <2>1, <2>2 DEF DebitSource
<1>5. CASE ReadDestination(h) \/ CreditDestination(h) \/ Complete(h)
  BY <1>0, <1>5 DEF ReadDestination, Proceed, CreditDestination, Complete
<1>6. CASE DepositCreate(h)
  <2>1. req[h].kind = "DEPOSIT"
    BY <1>6 DEF DepositCreate, Inv, IInv, PathsAgree
  <2>2. CASE Throw(h, "DUPLICATE_ENTRY")
    BY <1>1, <2>2 DEF Throw, Inside
  <2>3. CASE Goto(h, "complete")
    BY <1>0, <2>1, <2>3
  <2> QED BY <1>6, <2>2, <2>3 DEF DepositCreate
<1>7. CASE Commit(h) \/ Respond(h) \/ Ends(h)
  BY <1>1, <1>7 DEF Commit, Respond, Reply, Ends, Rollback, Interrupt
<1> QED BY <1>2, <1>3, <1>4, <1>5, <1>6, <1>7 DEF Step, Ends

LEMMA JudgedHolds == Spec => []Judged
<1>1. Init => Judged
  BY DEF Init, Judged, Told, Done, Covered, Debited
<1>2. Inv /\ Judged /\ [Next]_vars => Judged'
  <2> SUFFICES ASSUME Inv, Judged, [Next]_vars PROVE Judged'
    OBVIOUS
  <2>1. ASSUME NEW h \in Handlers, Step(h) \/ Ends(h) PROVE Judged'
    BY <2>1, OthersJudged, OwnTold, OwnCovered DEF Judged
  <2>2. ASSUME UNCHANGED <<ledger, procVars>> PROVE Judged'
    BY <2>2 DEF Judged, Told, Done, RowOf, CommittedIds, Covered, Debited, procVars
  <2>3. CASE UNCHANGED vars
    BY <2>2, <2>3 DEF vars, dbVars
  <2>4. ASSUME NEW a \in Accounts, NEW s \in Status, SetStatus(a, s) PROVE Judged'
    BY <2>2, <2>4 DEF SetStatus
  <2> QED BY <2>1, <2>3, <2>4 DEF Next, DeadlockVictim, Ends
<1> QED BY <1>1, <1>2, InvHolds, PTL DEF Spec

\* Whatever is interrupted or retried, a client is never told that a payment was
\* made that was not, nor the contrary; only a 500 or a lost answer leaves it open.
THEOREM AnsweredTruly == Spec => []AnswersAreTrue
<1>1. Judged => AnswersAreTrue
  BY DEF Judged, Told, AnswersAreTrue
<1> QED BY <1>1, JudgedHolds, PTL

\* The money goes below zero only by the commit of a payment of that account
\* whose funds were judged on a balance that is not the committed one any more.
THEOREM OverdraftNeedsStaleRead == Spec => OverdraftOnlyFromStaleRead
<1>1. ASSUME Inv, Judged, [Next]_vars, NEW a \in Accounts,
             balance'[a] < balance[a], balance'[a] < 0
      PROVE  \E h \in Handlers : /\ pc[h] = "commit" /\ pc'[h] = "respond"
                                /\ req[h].from = a
                                /\ seen[h].balance # balance[a]
  <2>1. PICK h \in Handlers : Commit(h)
    <3>1. ASSUME UNCHANGED balance PROVE FALSE
      BY <1>1, <3>1 DEF Inv, TypeOK
    <3>2. ASSUME NEW h \in Handlers, Step(h), ~Commit(h) PROVE UNCHANGED balance
      BY <3>2 DEF Step, Arrive, CheckIdempotency, CheckAccount, CheckLimits,
         BeginPayment, CreateRecord, DebitSource, ReadDestination, Compensate,
         CreditDestination, DepositCredit, DepositCreate, Complete, Respond,
         Rollback, Reply, Proceed, Throw, dbVars
    <3>3. ASSUME NEW h \in Handlers, NEW code, Interrupt(h, code)
          PROVE  UNCHANGED balance
      BY <3>3 DEF Interrupt, dbVars
    <3>4. ASSUME NEW b \in Accounts, NEW s \in Status, SetStatus(b, s)
          PROVE  UNCHANGED balance
      BY <3>4 DEF SetStatus
    <3>5. CASE UNCHANGED vars
      BY <3>1, <3>5 DEF vars, dbVars
    <3> QED BY <1>1, <3>1, <3>2, <3>3, <3>4, <3>5 DEF Next, DeadlockVictim
  <2>2. pc[h] = "commit" /\ pc'[h] = "respond"
    BY <1>1, <2>1 DEF Commit, Goto, Inv, TypeOK
  <2>3. pending[h][a] = (IF req[h].to = a THEN req[h].amt ELSE 0)
               - (IF req[h].kind # "DEPOSIT" /\ req[h].from = a THEN req[h].amt ELSE 0)
    BY <1>1, <2>2 DEF Inv, IInv, DraftsAccounted, Inside, Credited, Debited
  <2>4. balance'[a] = balance[a] + pending[h][a]
    BY <2>1 DEF Commit
  <2>5. /\ req[h].amt \in Nat /\ balance[a] \in Int /\ seen[h].balance \in Int
    BY <1>1, RequestType DEF Inv, TypeOK
  <2>6. req[h].kind # "DEPOSIT" /\ req[h].from = a /\ balance[a] < req[h].amt
    BY <1>1, <2>3, <2>4, <2>5
  <2>7. seen[h].balance >= req[h].amt
    BY <1>1, <2>2, <2>6 DEF Judged, Covered, Debited
  <2>8. seen[h].balance # balance[a]
    BY <2>5, <2>6, <2>7
  <2> QED BY <2>2, <2>6, <2>8
<1>2. Inv /\ Judged /\ [Next]_vars
        => [\A a \in Accounts : balance'[a] < balance[a] /\ balance'[a] < 0 =>
              \E h \in Handlers : /\ pc[h] = "commit" /\ pc'[h] = "respond"
                                 /\ req[h].from = a
                                 /\ seen[h].balance # balance[a]]_vars
  BY <1>1
<1> QED BY <1>2, InvHolds, JudgedHolds, PTL DEF Spec, OverdraftOnlyFromStaleRead
=============================================================================
