# Formal models of VaultGuard

VaultGuard is a banking application: a Next.js server (`src/app/api`, `src/lib`), two
NestJS services (`services/auth-service`, `services/accounts-service`), for each of them a
PostgreSQL database that it reaches through Prisma, and the pages of a browser client. This
directory holds TLA+ models of its core logic, the configurations that model-check them
with TLC, and proofs that TLAPS checks. Source paths below are relative to the root of the
repository; line numbers are in `PROJECT.json`, under `map`.

    tlc -config MCLedgerRaces.cfg MCLedger      # model-check one run
    tlapm LedgerProofs.tla                      # check one module's proofs

## 1. The system

### Components, state, operations

| Component | State | Operations | What makes it correct | Module |
|---|---|---|---|---|
| Payments (`src/lib/services/payments`, `api/payments`) | `accounts`, `transactions`, `outbox_events` | transfer, bill payment; behind both the idempotency check and the risk check | a request id is posted once; a payment is all or nothing; balances equal what the ledger accounts for; answers are true | `Ledger` |
| Operator on accounts (`api/admin/deposit`, `.../freeze`) | the same | deposit, freeze, unfreeze | as above | `Ledger` |
| Loans (`services/loans`, `api/admin/loans/issue`) | `loans`, `repayment_schedules`, and the tables of payments | disburse, repay | debt is the principal less what was repaid; a schedule entry is marked by one repayment; nobody is charged more than is recorded | `Loans` |
| Outbox (`outbox-worker.ts`, `pubsub-adapter.ts`, `api/admin/dlq`) | `outbox_events`, `dead_letter_entries` | poll, publish, mark, retry, bury, replay | at least once; no event is stranded; an event is buried only after its retries | `Outbox` |
| Event bus (`event-bus.ts`) | listeners | subscribe, publish | the core consumers are subscribed before the first event | `BusWiring` |
| Audit (`audit.service.ts`) | `audit_events` | append | an entry stands for something that happened | in `Credentials`, `Desk` |
| Tokens and factors of auth-service | refresh tokens, MFA factors, trusted devices | login, refresh, logout, set up and verify MFA, trust and revoke devices | tokens and backup codes are used once | `Sessions` |
| Authentication routes (`api/auth`, `api/admin/recover`, `api/user/profile`) | users, factors, reset and recovery tokens, audit | set up and verify MFA, forgot, reset, recover, change of password | a link works once; MFA has a factor; the audit tells the truth | `Credentials` |
| Registration (`enroll/page.tsx`, `api/auth/register`, auth-service, accounts-service) | users, accounts, calls between services | register, default accounts, enrol | a user has his accounts; a conflict is answered as one | `Registration` |
| Cookies and middleware (`middleware.ts`, `with-auth.ts`, login, MFA, logout, profile routes) | two cookies, what each tab shows | load, follow a link, sign in, verify, sign out, restore | a tab shows the customer that is signed in; a sign-out lasts | `Browser` |
| Payment pages (`transfer`, `bill-pay`, `loans`, `StepUpMfaModal`, `VaultGuardContext`) | request id, step-up, balance and rows as shown | submit, retry, step up, reload | what is wanted once is posted once; what is shown agrees with the ledger | `PaymentPages` |
| Operator's console (`operator/page.tsx`, `api/admin`) | the customer shown, results, dead letters | search, deposit, loan, freeze, recovery link, replay | what is shown was read after what it includes | `Desk` |
| Lists of transactions (`getStatements`, `history/page.tsx`) | a page number; filters and a timer | read the next page; filter | no row is skipped; the list is of the filter shown | `Statements`, `HistoryPage` |

### How they interact

A payment or a repayment is one database transaction that writes the ledger row, the
money and an outbox row. The outbox worker, started by `src/instrumentation.ts` in
every server process, reads outbox rows and emits them on the in-process bus and, when
`USE_PUBSUB` is set, to Pub/Sub. Audit and notifications are meant to listen on the bus;
the routes of the operator and of recovery call the audit service directly. The operator
replays dead letters on the bus and changes the accounts that payments read.
`auth-service` calls `accounts-service` over HTTP and does not wait for success. The
pages call the routes; the only link between two of a customer's tabs are the cookies.
Requests share no memory: they meet in the database, so the models of the server are
cut at every `await`, where another handler may run, and those of the pages at every
`fetch`.

### What is hard here

* **Stale reads.** Balances, outstanding debt, retry counts, backup codes and tokens are
  read in one statement and used in a later one, at READ COMMITTED and without locks.
* **Retries.** Clients retry with the same `x-request-id`, or with a new one; the check and
  the insert are separate statements.
* **Rollback in the middle.** A transfer compensates, throws, deadlocks or is
  interrupted between any two of up to nine statements.
* **Overlapping runs.** `setInterval` does not wait for the previous run of the worker,
  and several processes run one each.
* **Lost answers.** Pub/Sub, the database, the other service and the network can do the work
  and lose the answer; the pages then go on as if they knew.
* **Answers that overtake each other.** A handler of a page keeps the state it was
  rendered with and sets it after a `fetch`; several may be under way.
* **Cookies that change under a page.** Another tab signs in, out, or lets a session expire.
* **Rounding.** Amounts are floats, columns are `DECIMAL(15,2)`.
* **Initialisation order.** The bus, audit and notifications import each other.

`PROJECT.json` lists each hazard at its line under `hazards`, with the properties that
cover it.

## 2. The modules

| Module | What it is |
|---|---|
| `AtomicLedger` | abstract: a payment is posted in one step, once per request id |
| `Ledger`, `MCLedger`, `LedgerProofs` | transfers, bill payments, deposits, freezes as interleaved handlers |
| `Loans`, `MCLoans`, `LoansProofs` | disbursement and concurrent repayments |
| `Outbox`, `MCOutbox`, `OutboxProofs` | the worker, Pub/Sub, dead letters, replay |
| `BusWiring` | evaluation of the import cycle around the bus |
| `Sessions`, `MCSessions`, `SessionsProofs` | `auth-service`: login, MFA, trusted devices, refresh tokens, and the browsers' cookies |
| `Credentials`, `MCCredentials`, `CredentialsProofs` | the Next.js routes that change a customer's password, factors and tokens |
| `Registration`, `MCRegistration` | the two registrations and the call between the services |
| `Browser`, `MCBrowser` | tabs, cookies, middleware, and whom each tab shows |
| `SignInProofs` | the theorems about `Registration` and `Browser` |
| `PaymentPages`, `MCPaymentPages` | the pages that pay, the step-up window, the context, lost answers |
| `Desk`, `MCDesk` | the operator's console against its routes |
| `Statements`, `HistoryPage`, `MCListings` | reading page by page, filtering with a timer |
| `PagesProofs` | the theorems about `PaymentPages`, `Desk`, `Statements` and `HistoryPage` |
| `Sums` | what adding up over a finite set does, for the proofs about money |

`MC...` are the instances for TLC, `...Proofs` the theorems; the one about `BusWiring` is in
`OutboxProofs`. Modules whose theorems are in one module have no names in common, which
is why `Registration`, `Desk` and the lists have `EnrolInit`, `DeskInit` or
`StatementsInit` for what is `Init` elsewhere.

### Ledger

*State.* `balance`, `status`, `ledger`, `outbox` are the committed database. Uncommitted
work is kept per handler: `pending[h][a]` is h's change of a balance, `draft[h]` its row
and event, `rowLock` and `claim` the locks on rows and on inserted request ids. `pc`,
`seen`, `answer` are the handler: its next await, the row it has read, what it answers.

*Actions.* One per awaited statement, named after it: `CheckIdempotency`,
`CheckAccount` and `CheckLimits` (`checkTransferRisk`), `BeginPayment`, `CreateRecord`,
`DebitSource`, `ReadDestination`, `Compensate`, `CreditDestination`, `Complete`,
`Commit`, `Respond`, `Rollback`; the deposit is `DepositCredit`, `DepositCreate`,
`Complete`, `Commit`. A consecutive update of the row's own `sagaStatus` is part of the
statement before it: nobody else can see the row before it commits. `SetStatus` is the
operator's freeze.

*The database.* Modelled as PostgreSQL at its default READ COMMITTED, external to the
repository: a read returns the last committed row; `balance: {increment}` locks the row and
applies to its last committed value; an insert of a unique key waits for an open insert
of the same key; a deadlock aborts a transaction of the cycle; anything uncommitted
disappears when its transaction is interrupted. A handler may be interrupted anywhere.

*Data.* Amounts are small integers; one single limit and one daily limit serve every
account; a payee has been resolved to an account, to an external payee or to an id that
is no account; a source is given by id or by account number (`byNumber`), since the code
treats these differently in the daily aggregate and in the compensation. Handlers serve
one request each; several requests with one `rid` are a client's retries. The random
request id of a deposit is any request id, so that its rare collision is included.
Loan repayments are in `Loans`, not among these rows.

### Loans

`processLoanRepayment` statement by statement. What an open transaction holds follows
from the handler's `pc` (`HoldsKey`, `HoldsAccount`, `HoldsLoan`), so there are no lock
variables. Money is in half cents: `ToCents` is the rounding of a column, `Stored` that
of a float computed in JavaScript, where half a cent goes either way. A column holds whole
cents (`IsWhole`), so the balances at first are whole; the amounts of requests and the
principal of a loan need not be. `Issue` is the
operator's disbursement, `SetStatus` the freeze, `Spend` a payment of `Ledger` that takes
money from an account between two steps of a repayment.

### Outbox

A worker is one run of `processOutboxBatch`. `Poll` reads a batch; `Publish` takes its
next row and fails (the simulated failure on certain descriptions) or emits; `PubSub`
succeeds, fails, or fails after Pub/Sub accepted; `Mark`, `MarkFails`, `Retry` and `Bury`
are the updates that follow; `Abandon` is an error outside the row's try block or the
end of the process. Events become visible in any order, because transactions commit in
any order. `failures` counts failed attempts and exists for the properties only.

### Sessions

One customer of `auth-service`, several browsers. `token`, `enabled`, `factors` and
`devices` are the rows of the customer; `cookie[b]` is what a browser holds. A handler is
a request, with a step for each await: `ReadUser`, `CheckTrust` (login); `FindFactor`,
`WriteCodes`, `Confirm`, `FindDevice`, `TouchDevice`, `BindDevice` (verification);
`FindEnrolled`, `Enrol`, `Replace` (setup); `FindListed`, `DeleteDevice`; `FindToken`,
`RevokeOld`, `CreateToken` (refresh); `Logout`. Only `Confirm` is a transaction. `Send`
takes the cookie when the request leaves, `Respond` changes it when the answer arrives,
`Interrupt` is a failure or a lost answer anywhere between. What a handler inserts has
the handler's name. A code is a secret and an index, 0 for TOTP; a TOTP code may have
expired, a backup code is accepted exactly when it is in the list that was read. Access
and MFA tokens are stateless and left out: any browser may set MFA up or verify, which
only adds behaviours. `parent`, `spent`, `reused`, `proved`, `raced` are history.

### Credentials

One customer in the Next.js application. `password`, `mfaEnabled`, `factors`, `verified`,
`resetToken`, `recoveryToken`, `audit` are the rows; a handler is one request, with a step
for each await on the database: `FindOwner`, `CreateFactor` (setup); `FindFactors`, `Activate`
(verification); `FindAddress`, `Invalidate`, `CreateResetToken`, `SendMail` (forgot);
`FindResetToken`, `ResetPassword`; `FindRecoveryToken`, `RecoverAccount`; `MatchCustomer`,
`FindUnused`, `IssueRecoveryToken` (the operator's recovery); `RecordAuditEvent`;
`FindProfile`, `UpdateProfile`. A `$transaction` is one step. `Interrupt` is a failure or a
lost answer anywhere. What a request creates (a password, a secret, a token) has its name.
The verification accepts a code of the latest factor, one of a secret that comes with the
request, or a demo code, as the route does. A recovery whose token is in no recovery row is
tried as a reset token; a token in no row at all changes nothing, though it may be
answered like a good one. `met`, `wrote`, `proved`, `bare` are history.

### Registration

`users`, `accounts` and `enrolled` stand for the databases of the two sites, which share
nothing: `Same` compares only attempts of one site. In auth-service `VerifyIdentity`,
`FindByEmail`, `CreateUser`, `CallAccounts` go on to a call that may be slow, lost or
refused (`CreateDefaultAccounts`, `CallReturns`), and the process may end in between
(`Crash`). In the application `FindExisting` and `CreateUserAndAccount`, which is one
transaction, and then the enrolment page: `Login` if the address is taken, `Finalize` with
or without a second factor, `Lost` if an answer is not read. Account numbers are random
and may collide.

### Browser

The documents and the cookies. A full load (`Leave` for `window.location`, `Navigate` for
the address bar and a reload) starts the context anew: `RestoreUser`, `RestoreProfile`,
`RestoreHistory` are the chain of `restoreSession`; `FollowLink` keeps it. `Route` and `Kept`
are the middleware, `Context` is `getAuthContext`, which accepts a login that waits for its
code where there is no session. `Send` settles whom a request comes from, the answer's
action sets the cookies. `LoginPending`, `LoginDone`, `LoginAccounts`, `VerifyDone`,
`UpdateDone`, `LogoutDone`, `HandlerFails` are the answers to the handlers; a session
becomes stale, then disappears (`ExpireSession`). "dashboard" stands for every protected
page. Accounts, payees and loans are loaded by the same chain as the transactions and are
left out; a reload may as well be of a page in the address bar, so it loads
"dashboard", whence the middleware sends on.

### PaymentPages

One tab. `page` is the page and its state, `modal` and `verifying` the step-up window and
the codes under way, `call`, `wire`, `answer`, `waiting` the POSTs; `load` is a loader
(`loadUserProfile`, `loadTransactions`, `loadLoans`), in which the server reads at `Query` and the
tab takes the result at `Arrive`. A call is served as a duplicate, refused, or posted
(`ServeDuplicate`, `ServeRefused`, `ServePayment`); that a payment is one atomic posting is
what `Ledger` shows, and this module relies on it. `Fail` is the network error whose `catch`
adds the row or reduces the loan all the same. The transfer page keeps one request id
from its opening; bills and repayments take a new one at each click. `want`, `met`, `failed`,
`overtaken` are history. `met` has the pairs of request ids that were under way at one time;
a payment that waits in the window for its code counts as under way, since another of
the same want may be submitted meanwhile.

### Desk

A job is a click, whose handler keeps the panel it was rendered with (`seen`). The route
reads or commits (`ReadCustomers`, `Credit`, `SetStatus`, `IssueLink`, `Publish`,
`SetReplayedAt`), audits (`Audit`), answers, or fails on the way (`RouteFails`); the page
takes the answer (`DeliverCustomers`, `DeliverCredit`, `DeliverFreeze`, `DeliverLink`,
`DeliverReplay`, `ListLetters`) or an error (`DeliverFailure`). A button is disabled while its own
handler runs, and that handler only. A deposit or a loan puts one unit on the account.

### Statements and HistoryPage

A row has the time at which it was inserted and is seen when its transaction commits, so
rows can appear anywhere in the order. `FindPage` and `CountRows` are the two queries of one
page, side by side. In `HistoryPage` a change of a filter restarts a timer, the timer sends
a request, every answer replaces the list. `MCListings` checks both in one run; they share
no state.

### BusWiring

The evaluation of three modules that import each other, from any entry. `RunBody` of the
bus runs its constructor; a constant of a module that has not been evaluated cannot be
read, and the error is swallowed by the constructor's `catch`.

## 3. The runs

| Run | Bounds | What it shows |
|---|---|---|
| `ledger_races` | 3 handlers, 2 accounts with 3 and 1 units, a transfer that may be retried, the opposite transfer, a bill payment | no request id posts twice, balances match the ledger, an overdraft needs a balance that changed after it was read |
| `ledger_paths` | 2 handlers, 11 kinds of request | every path, including each refusal, implements `AtomicLedger`; events match rows; answers are true; every request that has arrived is answered |
| `ledger_overdraft` | 2 bill payments | **fails**: a negative balance |
| `loans_races` | 3 handlers, 2 loans, one of them of half a cent, 2 accounts, 2 schedule entries, amounts in half cents | debt is never erased, one entry per repayment, no overcharge, one row per request, no waiting in a cycle |
| `outbox_live` | 2 runs, 2 events, the first poison, 2 retries, batches of 1, 1 fault | at least once, nothing stranded, nothing buried early, every event settles |
| `sessions_races` | 1 browser, 3 requests of every kind, 2 backup codes | an exchanged token is dead; a session ends only by what consumed its token; a code is reused, or an unproved secret verified, only by a race |
| `credentials` | 3 requests of every kind, with or without an earlier factor | a token is spent twice, or two are unused, only if the requests overlapped; no MFA without a factor; a verified factor was proved; the audit tells the truth |
| `registration` | 3 attempts on both sites, 2 persons, 2 addresses, 2 account numbers | a user without accounts comes from a call that failed; an internal error from a race, or a check that is not made |
| `browser` | 2 tabs, 2 customers, one of them with MFA, 2 requests in flight | a tab shows one customer, the one that is signed in; a sign-out lasts |
| `payment_pages` | 2 calls, 2 request ids, amounts 1 and 2, 3 on the account, a debt of 2, a fee of 1, 2 openings or reloads | wanted once, posted once; what is shown as paid, the balance and the debt agree with the ledger but for answers that did not arrive |
| `desk` | 2 clicks and the loading of the page, 2 customers | the panel never shows money that is not there; status, replay and link are right but for the exceptions named |
| `listings` | 3 rows, pages of one; 3 filters, 3 requests in flight | no old row is skipped; the list is what the controls say, but for an overtaken answer |

*Exceptions in a property.* Several properties say "unless", because the code does break the
plain statement when answers are lost or requests race. The exception is then as narrow
as it can be: that it names every way is what the property says.

*Why the bounds are enough.* The hazards are races between two handlers on a row or a
key; the third handler lets a retry race while another payment holds the row, and makes
cycles of three possible. Two accounts suffice for opposite transfers. The seeded 3
units cover one payment of 2 and not two. Two retries and two runs are enough for a run
to hold a count that the other has already exceeded; the proofs cover every other value.
The half cents 3 and 7 and the principal of 8 reach each branch of the 0.005 tolerance; the
loan of half a cent is the disbursement that a column rounds.
In `sessions_races` and `credentials` three requests are two that race and one that
profits from it; two backup codes let one be brought back while another is written. Two tabs
and two customers are one tab and what can change under it; the second customer has to
be one with MFA, since only a login that waits sets the other cookie. In `payment_pages` a
second call is a retry or a competing payment, and amounts 1 and 2 lie on both sides of the
limit for a step-up; the server's limit is below, so it can ask for one where the page did
not. On the desk any race is of two clicks, or of one with the page's loading. Three rows
with one per page let a row appear before, between and after the page that is being
read. The proofs cover every other value of the constants. TLC uses
symmetry in runs without liveness.

*Fairness.* `Ledger!FairSpec`: a handler that has arrived takes its steps (Node runs the
continuation of a settled promise), and PostgreSQL's deadlock detector acts on a
deadlock that persists. No fairness is assumed for arrivals, interrupts, timeouts or the
operator: liveness does not rely on a timeout. `Outbox!FairSpec`: the runs go on, since
the interval timer keeps starting them; `WF` on each run is enough. Faults are
bounded by `MaxFaults`, because a database that always fails settles nothing. The other
modules state no liveness: their requests may be interrupted at any await and their
pages wait for a person.

*Deadlock checking* is off in `sessions_races`, `credentials`, `payment_pages`, `desk`,
`registration` and `listings`, whose behaviours end when every request or click of the
instance is used up. In `Ledger` and `Loans` the operator can always act, so TLC's deadlock
check says little there; `EveryRequestAnswered` and `NoWaitCycle` are the properties that do.

*Type invariants* are not in the runs: they are proved, as parts of the inductive invariants
of section 4.

### Where the code does not do what it says

The failing run, `ledger_overdraft`: (`transfer.service.ts:113`) the balance is read without
a lock and the decrement is unconditional, so two payments spend the same money. A
conditional update (`where: { balance: { gte: amount } }`) would close it.
`OverdraftOnlyFromStaleRead` shows that this is the only way.

Disagreements met on the way, without a run of their own:

* *Daily limit* (`risk-check.ts:93`, promised at `:30`). The aggregate filters on the id the
  client sent; by account number it finds no row. Payments in flight are not counted
  either, and deposits, which are rows of their account, are counted as spending.
* *Loan debt* (`loan.service.ts:134`). The debt is written back as an absolute value computed
  before the update, where `api/loans/repay/route.ts:19-21` promises an atomic reduction: a
  concurrent repayment is charged and forgotten. The error is always to the customer's
  cost (`DebtNeverUnderstated`).
* *Retries* (`outbox-worker.ts:90`, against `:20`). The count is written back from a stale
  read, so an event may be attempted more than `MAX_RETRIES` times. Events are buried late,
  never early (`BuriedAfterRetries`).
* *Rotation* (`jwt.service.ts:83`, against `README.md:213`). The token is read, tested and
  revoked without a condition on the update: two refreshes with one token both succeed.
* *Consumers* (`event-bus.ts:37`). The import cycle makes the auto-subscription throw, whatever
  is loaded first. The error is caught, and nothing subscribes later (`NobodyListens`).
* *Single use.* Reset and recovery tokens (`reset-password/route.ts`, `recover/route.ts`) and
  backup codes (`mfa.service.ts:65`) are looked at outside the transaction that spends them;
  `SpentTwiceOnlyByRace` and `CodeReusedOnlyByRace` say when that shows.
* *Tokens nobody has.* Forgot-password mails a link for an address without a user, and
  reset-password answers success "(demo mode)" to a token that is in no row, so to a recovery
  token as well; neither changes anything.
* *Registration.* auth-service does not look for the National ID it is about to insert, and
  answers 500 when it is taken.
* *Messages that are not known to be true.* "Payment Committed" and "Bill Payment Settled"
  after a network error (`transfer/page.tsx:136`, `bill-pay/page.tsx:112`); "Session token
  invalidated and cleared." when the logout failed (`VaultGuardContext.tsx:575`); "Password
  Updated" and "2FA Verified" in a `catch` (`security/page.tsx:141`, `:192`); "2FA enrolled"
  whatever the verification answered (`enroll/page.tsx:133`); "Immutable audit entry created"
  for a search without a query, which writes none (`operator/page.tsx:328`,
  `admin/customers/route.ts:60`).
* *Payments.* `transfer.service.ts:28` names a final state COMPENSATED, but the exception that
  follows rolls the row back; a retry that races its first attempt is answered 409
  `DUPLICATE_ENTRY`, where `Planning/implementation_plan.md:127` says the cached result is
  returned; `IdempotencyError` declares status 400 and is answered 500, because
  `handleApiError` does not know it.
* *Logout of auth-service* answers success when its update fails (`jwt.service.ts:128`).
* *A loan of a fraction of a cent.* The row of a disbursement keeps the principal rounded to
  cents, and so does the balance it is added to; where that balance is below zero the two
  roundings may differ, and the account has a cent less than the debt stands for.
  `NeverOvercharged` therefore counts on the whole cents of a principal only.
* *The console* keeps what is typed into the deposit and loan forms when another customer is
  selected; the amounts then go to that one.

## 4. The proofs

All theorems hold for every value of the constants that satisfies the modules'
assumptions, which say only what kind of values the constants are and which are distinct:
that amounts are positive, that a column holds whole cents at first, that `None` or `Nil` is
not one of the values it stands apart from.

**Ledger.** `IInv` is inductive together with `TypeOK`. It is needed because none of the
properties is: that `Commit` posts a whole payment depends on what the handler did
many steps earlier. Its parts say, in this order, that only an open transaction holds
locks and only a lock's holder has changed a balance (`LocksHeld`); that the claim on a
request id excludes both another claim and a committed row (`ClaimsHeld`); that a control
point fits the kind of request (`PathsAgree`); that uncommitted changes are exactly what
the row accounts for so far (`DraftsAccounted`); that committed rows belong to handlers
that have left their transaction (`RowsCommitted`). There is one lemma for each group of
actions. From it, `CommitPosts` shows that a commit is one `Post` of `AtomicLedger`,
`StepRefines` that every other step leaves money, rows and events alone, and
`Refinement` that `Spec => ImplementsAtomicLedger`. `UniqueRequestIds` and
`OutboxMatchesLedger` are invariants of the abstract module, inherited through the
refinement. So is `BalancesMatchLedger` (`MoneyConserved`): in `AtomicLedger` a balance and the
row that accounts for it change in one step, and a sum over rows grows by what the new
row is worth (`Sums`); no handler's uncommitted work comes into it. `Judged` adds, for every handler, that what it says is true of the committed
rows (`Told`), and that the balance it had read when it debited covered the amount (`Covered`); `AnswersAreTrue` and the action property `OverdraftOnlyFromStaleRead` follow.

**Loans.** A schedule entry is found in one statement and marked in the next. That it is
still the first unpaid one at commit follows from the loan's row, which is locked from
`ReduceLoan` until then (`LoansHeld`, `EntryFound`). An inserted request id is nobody
else's (`KeysHeld`), and a row belongs to a handler that has committed (`RowsCommitted`).
Hence `OneRowPerRequest` and `EntryPerRepayment`. `NoWaitCycle` needs none of it: whoever is
waited for has got further in one order of locks (`WaitsForwards`).

The money is a second invariant, `Books`, on top of it. What is in a column is whole cents
(`Whole`), and what a repayment read as owed, however stale, is not below the principal less
what the rows repay by now (`SeenOwed`): an old value can only be too high.
Therefore the absolute value that `ReduceLoan` writes back is not too low either
(`DebtKept`), and the account is not debited by more than its rows and disbursements say
(`ChargedOnce`). The rounding is a handful of lemmas on `ToCents` and `Stored`: a row
rounds what it records no further down than a balance or a debt rounds what is taken off it
(`RowCoversDebit`, `RowCoversReduction`), which holds because the two start from whole cents.

**Sums.** `SumFunctionOnSet` of the community modules is a function defined by recursion over
the subsets of a set, with the element taken first chosen by `CHOOSE`. That it has a solution
at all, that any element may be taken first, that one more element adds its value and that
a part of natural numbers adds up to no more than the whole, is proved by looking at a
counterexample that is minimal under inclusion, which every non-empty set of subsets of a
finite set has. Everything here that is said of balances and debts rests on these lemmas.

**Outbox.** The invariant adds to `TypeOK` that every row in a run's hands was
committed, below the retry limit and not above the failures so far (`SnapshotsOK`), and
what a run has done when it stands at `mark` or `catch` (`AttemptsOK`). From it:
`NeverStranded`, `SettledWasPublished`, `BuriedAfterRetries`, and that no retry count
exceeds the limit, for any number of runs, events, retries and faults. `AttemptFails` and
`MoveInv` are the two lemmas that the actions share.

**Sessions.** Two invariants. `TokenInv`: behind every revoked token there is a refresh or
logout that revoked it (`Revokers`); nobody holds the token of a request that has not been
answered (`Undelivered`); a token is in one browser only, and the requests that carry it
come from there (`OneBrowser`); so an answer takes the consumed token out of the only
place that had it (`Delivered`). Most actions change none of this and share the lemma
`QuietInv`. `FactorInv`: factors differ in id and in secret (`Distinct`); every secret and
every code in a table, in a handler's hands or accepted so far was written by a setup
that has finished writing (`CodesWritten`), so that a new setup's codes are new; and as
long as nothing raced no listed code has been accepted (`CodesUnspent`). The four
properties of `sessions_races` follow, for any number of browsers, requests and codes.

**Credentials.** Handlers stand on the path of their request (`Paths`), and a token row
belongs to the request that created it (`Rows`). The properties that end in "only by a
race" compare two requests that were never looked at together, so the invariant carries
that requests under way at one time have met (`Meetings`); that whoever still holds a spent
token has met the request that spent it (`Spent`); and that whatever is unused when a
request is about to issue a token, and will not be invalidated by it, is of a request it
has met (`Issuing`). `Accepted` says what the code of a verification was good for, `Auditing`
that an entry about to be written is true. Each part has a frame lemma for the actions that
do not touch it. All five properties of the run `credentials` follow.

**Registration.** Both properties look back. `Meetings` as above; `Searched`: whatever now
stands against an attempt that has looked came while it was under way; `Called` and
`Stocked` follow the call to accounts-service on the wire and what has come of it.

**Browser.** A tab is calm when no other tab has changed the cookies since it loaded, no
handler has sent it on, and no login of its own goes on. Everything that a calm tab knows,
and that requests in flight are about to tell it, is of one customer (`Owned`), and a login
that waits for its code counts for nobody, because the middleware does not let its tab
to a page that asks for anything (`Waiting`). A load makes a tab calm again, and starts from
nothing. A tab at rest and not in `moved` is calm. `Out` says that after a sign-out no
answer in flight can sign anybody in.

**PaymentPages.** The invariant has five parts besides types. `Facts`: a row is what its call
asked for, a call and an id post once each (`Carried`, `Posting`); what a loader has been
told was so at an earlier moment (`Loading`). `WantInv`: all that is wanted at one time is of
one kind, and of one id if it is a transfer (`Wanted`, `PageIsOf`); a page is ready for the
next payment only if the calls of the current want still settle or were refused (`Ready`);
so of two payments of one want either they have met, or one of them was dead, with nothing
left that could post it, before the other began (`Pairs`). `OncePerWant` follows, because what
has posted and is dead was answered with an error. `ShownInv`: the balance that is shown,
plus the payments the tab has been told of, plus those it counts although their call failed
before the server came to it, is no more than was there at first (or nothing is shown). Without the last term it
is not inductive: such a call may still post, and is then among the first. `OwedInv` is the like
for the debt. `ShownWasPosted` is inductive with these.

**Desk.** `Progress` says how far a job has come and what that implies for the server.
`Earlier` is said of every customer record that is displayed, was displayed when a handler
that still runs was rendered, or is on its way: it is of an earlier moment, with less money,
and if it includes every freeze made since then its status is still right. What a handler
adds to such a record is there (`Credited`), and a freeze that found all the others in its
record decides the status (`LastFreeze`). The replays need that, as long as none was told to
have failed and each had its list, the button is disabled or the letter is not offered
(`ReplayInv`); the link, that the panel has not gone to another customer (`LinkInv`).

**Statements.** A row's rank only grows, since nothing is deleted. The rows of the beginning
that have not been read have a rank beyond the pages that were (`PageIsNext`), so when the
last page, by a count that is still true (`CountIsTrue`), has been read there are none left.

**HistoryPage.** The request sent last is for what the controls say as long as no timer runs;
either nothing has overtaken it, or all that is in flight is overtaken (`LatestIsOfFilter`).

**BusWiring.** No module is evaluated twice and no module is bound while it is evaluated;
hence the constructor never finds everything bound and there is never a listener
(`NobodyListens`).

**What the proofs changed.** Looking for an inductive invariant showed two properties to say
something else than was meant. With three calls instead of two, `PostedOncePerWant` was false
as long as a payment in the step-up window did not count as under way: the bill-pay page
takes a second submission while the code for the first is being verified. `FrozenAsShown`
had an exception for two freezes at one time that is never needed, and is gone.

**Only model-checked.** Liveness (`EveryRequestAnswered`, `EveryEventSettles`), which needs
`ENABLED`, and that `ledger_overdraft` fails. Every other property of the runs is proved.

## 5. Not modelled

* *Rate limiter.* One route calls it, `GET /api/audit/me`: a counter per key in the memory of
  one process, in front of a read. Its window is fixed, not sliding; nothing else depends
  on it.
* *Notification service, consumers of the bus.* Unreachable: `NobodyListens`. The
  notifications are a list in memory.
* *Read-only routes*, the degraded mode of the account list, access tokens: no state the
  other parts race for.
* *Parts of modelled components.* The daily aggregate is in `Ledger`, but no property covers
  it beyond the disagreement above. Fractions of a cent are modelled for repayments and not
  for transfers: `Ledger` counts whole units. Two rows for one trusted device and a logout
  that fails silently are behaviours of `Sessions` that no property forbids. In the browser,
  payees, trusted devices, security events and toasts are local lists that nothing else
  reads; the security page's forms reach routes that `Credentials` has.
* *Dashboard, recovery page, UI components*: rendering, and forms that send one request and
  show its answer.
* *Email, logging, PDF and QR rendering, hashing, TOTP arithmetic; gateway, seeds,
  deployment*: input and output, cryptography, configuration. What deployment fixes,
  several server processes and `USE_PUBSUB`, is an assumption of `Outbox`.
