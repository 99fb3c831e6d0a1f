------------------------------- MODULE Loans -------------------------------
(***************************************************************************)
(* Loans: the operator's disbursement and concurrent repayments, over the  *)
(* same database and with the same conventions as Ledger: a repayment is   *)
(* cut at every await, its transaction runs at READ COMMITTED, and it may  *)
(* be interrupted anywhere.  What an open transaction holds follows from   *)
(* where its handler is.                                                   *)
(*                                                                         *)
(* Money is counted in half cents, because requests may name any positive  *)
(* number and the columns are DECIMAL(15,2), which hold whole cents.       *)
(***************************************************************************)
EXTENDS Integers, FiniteSetsExt, Functions

CONSTANTS
  Accounts,        \* account ids
  Users,           \* customers
  Owner,           \* Owner[a]: the userId of account a
  Handlers,        \* runs of POST /api/loans/repay; also ids of their rows
  RequestIds,      \* values of the x-request-id header
  Loans,           \* loan ids
  LoanAccount,     \* LoanAccount[l]: the account loan l is disbursed to
  Principal,       \* Principal[l]: its principalAmount, as sent
  Entries,         \* repayment schedule entries a loan is issued with
  Inputs,          \* the repayments that may arrive
  InitialBalance,  \* InitialBalance[a]: the seeded balance
  MaxSpent         \* bound on what other payments take from an account

IsWhole(x) == x % 2 = 0   \* a number of cents

\* DECIMAL(15,2) keeps whole cents: half a cent is rounded away from zero.
ToCents(x) == CASE x % 2 = 0           -> x
                [] x % 2 = 1 /\ x > 0  -> x + 1
                [] OTHER               -> x - 1

\* A column computed in floating point: half a cent goes either way.
Stored(x) == IF x % 2 = 0 THEN {x} ELSE {x - 1, x + 1}

LoanStatus == {"NONE", "ACTIVE", "PAID_OFF"}   \* NONE: not issued yet

Repayment == [user : Users, rid : RequestIds, loan : Loans, from : Accounts,
              amt : Nat \ {0}]

ASSUME InputsAssumption == /\ Inputs \subseteq Repayment
                           /\ Owner \in [Accounts -> Users]

ASSUME LoansAssumption == /\ LoanAccount \in [Loans -> Accounts]
                          /\ Principal \in [Loans -> Nat \ {0}]
                          /\ InitialBalance \in [Accounts -> Int]
                          /\ \A a \in Accounts : IsWhole(InitialBalance[a])
                          /\ Entries \in Nat

VARIABLES
  balance,      \* accounts.balance
  frozen,       \* the accounts whose status is not ACTIVE
  spent,        \* spent[a]: what the payments of Ledger have taken from a
  outstanding,  \* loans.outstanding_balance
  status,       \* loans.status
  paid,         \* paid[l]: the schedule entries of l marked PAID
  rows,         \* the LOAN_REPAYMENT rows of transactions, each with its event
  req, pc,      \* the handlers: the request, the next await
  seen,         \* seen[h]: the outstanding balance h has read
  next,         \* next[h]: the schedule entry h marks
  answer

dbVars   == <<balance, frozen, spent, outstanding, status, paid, rows>>
procVars == <<req, pc, seen, next, answer>>
vars     == <<dbVars, procVars>>

Goto(h, l) == pc' = [pc EXCEPT ![h] = l]

\* h ends; an open transaction is rolled back, so nothing else changes.
End(h, code) == /\ Goto(h, "done")
                /\ answer' = [answer EXCEPT ![h] = code]
                /\ UNCHANGED <<dbVars, req, seen, next>>

\* What h's open transaction holds: the key it inserted, the rows it updated.
HoldsKey(h, r)     == req[h].rid = r  /\ pc[h] \in {"debit", "reduce", "schedule", "commit"}
HoldsAccount(h, a) == req[h].from = a /\ pc[h] \in {"reduce", "schedule", "commit"}
\* Mutant of HoldsLoan: the loan's row is locked, shared, before the debit.
HoldsLoanShared(h, l) == req[h].loan = l /\ pc[h] \in {"reduce", "schedule", "commit"}

HoldsLoan(h, l)    == req[h].loan = l /\ pc[h] \in {"schedule", "commit"}

AccountFree(a) == \A h \in Handlers : ~HoldsAccount(h, a)

CommittedIds == {r.rid : r \in rows}

-----------------------------------------------------------------------------

Init ==
  /\ balance = InitialBalance
  /\ frozen = {}
  /\ spent = [a \in Accounts |-> 0]
  /\ outstanding = [l \in Loans |-> 0]
  /\ status = [l \in Loans |-> "NONE"]
  /\ paid = [l \in Loans |-> {}]
  /\ rows = {}
  /\ req \in [Handlers -> Inputs]
  /\ pc = [h \in Handlers |-> "arrive"]
  /\ seen = [h \in Handlers |-> 0]
  /\ next = [h \in Handlers |-> 0]
  /\ answer = [h \in Handlers |-> "NONE"]

-----------------------------------------------------------------------------
(* processLoanRepayment.                                                   *)

Arrive(h) ==
  /\ pc[h] = "arrive"
  /\ Goto(h, "validate")
  /\ UNCHANGED <<dbVars, req, seen, next, answer>>

\* The loan is read outside the transaction.
LoanRefusal(h) ==
  LET l == req[h].loan IN
  CASE status[l] = "NONE" \/ Owner[LoanAccount[l]] # req[h].user -> "LOAN_NOT_FOUND"
    [] status[l] = "PAID_OFF"          -> "LOAN_NOT_ACTIVE"
    [] req[h].amt > outstanding[l]     -> "AMOUNT_EXCEEDS_OUTSTANDING"
    [] OTHER                           -> "NONE"

ValidateLoan(h) ==
  /\ pc[h] = "validate"
  /\ \/ /\ LoanRefusal(h) # "NONE"
        /\ End(h, LoanRefusal(h))
     \/ /\ LoanRefusal(h) = "NONE"
        /\ seen' = [seen EXCEPT ![h] = outstanding[req[h].loan]]
        /\ Goto(h, "account")
        /\ UNCHANGED <<dbVars, req, next, answer>>

\* So is the account.
AccountRefusal(h) ==
  LET a == req[h].from IN
  CASE Owner[a] # req[h].user   -> "ACCOUNT_NOT_FOUND"
    [] a \in frozen             -> "ACCOUNT_INACTIVE"
    [] balance[a] < req[h].amt  -> "INSUFFICIENT_FUNDS"
    [] OTHER                    -> "NONE"

ValidateAccount(h) ==
  /\ pc[h] = "account"
  /\ \/ /\ AccountRefusal(h) # "NONE"
        /\ End(h, AccountRefusal(h))
     \/ /\ AccountRefusal(h) = "NONE"
        /\ Goto(h, "create")
        /\ UNCHANGED <<dbVars, req, seen, next, answer>>

\* Mutant of CreateRecord: request_id is not unique.
CreateRecordTwice(h) ==
  /\ pc[h] = "create"
  /\ Goto(h, "debit")
  /\ UNCHANGED <<dbVars, req, seen, next, answer>>

\* transaction.create waits for an open insert of the same requestId; a
\* committed one makes it fail (P2002).
CreateRecord(h) ==
  /\ pc[h] = "create"
  /\ \A g \in Handlers : ~HoldsKey(g, req[h].rid)
  /\ \/ /\ req[h].rid \in CommittedIds
        /\ End(h, "DUPLICATE_ENTRY")
     \/ /\ req[h].rid \notin CommittedIds
        /\ Goto(h, "debit")
        /\ UNCHANGED <<dbVars, req, seen, next, answer>>

\* Mutant of DebitAccount: the debit is sent outside the transaction.
DebitAccountOutside(h) ==
  /\ pc[h] = "debit"
  /\ balance' = [balance EXCEPT ![req[h].from] = ToCents(@ - req[h].amt)]
  /\ Goto(h, "reduce")
  /\ UNCHANGED <<frozen, spent, outstanding, status, paid, rows, req, seen, next, answer>>

\* account.update waits for the account's row.
DebitAccount(h) ==
  /\ pc[h] = "debit"
  /\ AccountFree(req[h].from)
  /\ Goto(h, "reduce")
  /\ UNCHANGED <<dbVars, req, seen, next, answer>>

\* Mutant of ReduceLoan: the loan is written after its schedule, unlocked here.
ReduceLoanLate(h) ==
  /\ pc[h] = "reduce"
  /\ Goto(h, "schedule")
  /\ UNCHANGED <<dbVars, req, seen, next, answer>>

\* loan.update waits for the loan's row.
ReduceLoan(h) ==
  /\ pc[h] = "reduce"
  /\ \A g \in Handlers : ~HoldsLoan(g, req[h].loan)
  /\ Goto(h, "schedule")
  /\ UNCHANGED <<dbVars, req, seen, next, answer>>

\* The first unpaid schedule entry; 0 if there is none.
NextEntry(l) == LET unpaid == (1 .. Entries) \ paid[l]
                IN IF unpaid = {} THEN 0 ELSE Min(unpaid)

FindEntry(h) ==
  /\ pc[h] = "schedule"
  /\ next' = [next EXCEPT ![h] = NextEntry(req[h].loan)]
  /\ Goto(h, "commit")
  /\ UNCHANGED <<dbVars, req, seen, answer>>

\* What loan.update writes: computed from the outstanding balance read first.
NewOutstanding(h) == seen[h] - req[h].amt

\* Half a cent (0.005) of debt counts as none; 0.005 and a little does not.
Settled(n, owed) ==
  CASE n > 1               -> {"ACTIVE"}
    [] n = 1 /\ owed > 0   -> {"ACTIVE", "PAID_OFF"}
    [] OTHER               -> {"PAID_OFF"}

\* Mutant of RowOf: the row's amount is cut to cents.
RowOfCut(h) == [id |-> h, rid |-> req[h].rid, loan |-> req[h].loan,
                from |-> req[h].from, amt |-> req[h].amt - (req[h].amt % 2)]

RowOf(h) == [id |-> h, rid |-> req[h].rid, loan |-> req[h].loan,
             from |-> req[h].from, amt |-> ToCents(req[h].amt)]

\* What the transaction writes to the loan.
WriteLoan(h, l) ==
  \E owed \in Stored(Max({0, NewOutstanding(h)})) :
    /\ outstanding' = [outstanding EXCEPT ![l] = owed]
    /\ \E s \in Settled(NewOutstanding(h), owed) :
         status' = [status EXCEPT ![l] = s]

\* The debit, the loan, the entry, the row and its event become visible.
Commit(h) ==
  LET l == req[h].loan
      a == req[h].from IN
  /\ pc[h] = "commit"
  /\ balance' = [balance EXCEPT ![a] = ToCents(@ - req[h].amt)]
  /\ WriteLoan(h, l)
  /\ paid' = [paid EXCEPT ![l] = @ \cup ({next[h]} \ {0})]
  /\ rows' = rows \cup {RowOf(h)}
  /\ Goto(h, "respond")
  /\ UNCHANGED <<frozen, spent, req, seen, next, answer>>

Respond(h) == pc[h] = "respond" /\ End(h, "CREATED")

\* The process dies, the connection is lost or the transaction times out.
Interrupt(h) == pc[h] \notin {"arrive", "done"} /\ End(h, "LOST")

-----------------------------------------------------------------------------
(* The operator, and the payments of Ledger.                               *)

\* POST /api/admin/loans/issue is one transaction: the loan, its schedule and
\* the credit of the principal.
Issue(l) ==
  /\ status[l] = "NONE"
  /\ AccountFree(LoanAccount[l])
  /\ outstanding' = [outstanding EXCEPT ![l] = ToCents(Principal[l])]
  /\ status' = [status EXCEPT ![l] = "ACTIVE"]
  /\ balance' = [balance EXCEPT ![LoanAccount[l]] = ToCents(@ + Principal[l])]
  /\ UNCHANGED <<frozen, spent, paid, rows, procVars>>

\* The operator freezes an account or makes it active again.
SetStatus(a) ==
  /\ AccountFree(a)
  /\ frozen' = IF a \in frozen THEN frozen \ {a} ELSE frozen \cup {a}
  /\ UNCHANGED <<balance, spent, outstanding, status, paid, rows, procVars>>

\* A payment of Ledger commits: one cent leaves the account.
Spend(a) ==
  /\ AccountFree(a)
  /\ spent[a] < MaxSpent
  /\ balance[a] >= 2
  /\ balance' = [balance EXCEPT ![a] = @ - 2]
  /\ spent' = [spent EXCEPT ![a] = @ + 2]
  /\ UNCHANGED <<frozen, outstanding, status, paid, rows, procVars>>

-----------------------------------------------------------------------------

Step(h) ==
  \/ Arrive(h) \/ ValidateLoan(h) \/ ValidateAccount(h) \/ CreateRecord(h)
  \/ DebitAccount(h) \/ ReduceLoan(h) \/ FindEntry(h) \/ Commit(h) \/ Respond(h)

Next ==
  \/ \E h \in Handlers : Step(h) \/ Interrupt(h)
  \/ \E l \in Loans : Issue(l)
  \/ \E a \in Accounts : SetStatus(a) \/ Spend(a)

Spec == Init /\ [][Next]_vars

-----------------------------------------------------------------------------

TypeOK ==
  /\ balance \in [Accounts -> Int]
  /\ frozen \subseteq Accounts
  /\ spent \in [Accounts -> Nat]
  /\ outstanding \in [Loans -> Nat]
  /\ status \in [Loans -> LoanStatus]
  /\ paid \in [Loans -> SUBSET (1 .. Entries)]
  /\ rows \subseteq [id : Handlers, rid : RequestIds, loan : Loans,
                     from : Accounts, amt : Nat]
  /\ req \in [Handlers -> Inputs]
  /\ seen \in [Handlers -> Nat]
  /\ next \in [Handlers -> 0 .. Entries]

\* What rows of the ledger add up to.
Total(rs) == SumFunction([r \in rs |-> r.amt])

Repaid(l) == Total({r \in rows : r.loan = l})

\* Lost updates and rounding never erase debt: what is owed is at least the
\* principal less everything the ledger says was repaid, and a loan is PAID_OFF
\* only with nothing but a rounding cent outstanding.
DebtNeverUnderstated ==
  \A l \in Loans : status[l] # "NONE" =>
    /\ outstanding[l] >= ToCents(Principal[l]) - Repaid(l)
    /\ status[l] = "PAID_OFF" => outstanding[l] <= 2

\* Concurrent repayments of a loan never mark the same schedule entry twice:
\* each committed repayment has an entry of its own, as long as there is one.
EntryPerRepayment ==
  \A l \in Loans :
    paid[l] = 1 .. Min({Entries, Cardinality({r \in rows : r.loan = l})})

WholeCents(x) == x - (x % 2)

Issued(a) == {l \in Loans : LoanAccount[l] = a /\ status[l] # "NONE"}

\* No customer is charged more than the ledger shows, whatever is retried,
\* interrupted or rounded.  (What a disbursement pays is only sure to the whole
\* cents: half a cent more is rounded away where the balance is below zero.)
NeverOvercharged ==
  \A a \in Accounts :
    balance[a] >= InitialBalance[a] - spent[a]
      + SumFunction([l \in Issued(a) |-> WholeCents(Principal[l])])
      - Total({r \in rows : r.from = a})

\* FR-13 for repayments, which have no idempotency check of their own: the
\* unique index alone makes a retry post nothing.
OneRowPerRequest == \A q, r \in rows : q.rid = r.rid => q = r

\* Repayments take the key, the account and the loan in this order, so they
\* never wait for each other in a cycle.
WaitsFor(h, g) ==
  /\ g # h
  /\ \/ pc[h] = "create" /\ HoldsKey(g, req[h].rid)
     \/ pc[h] = "debit"  /\ HoldsAccount(g, req[h].from)
     \/ pc[h] = "reduce" /\ HoldsLoan(g, req[h].loan)

NoWaitCycle ==
  \A S \in (SUBSET Handlers) \ {{}} :
    \E h \in S : \A g \in S : ~WaitsFor(h, g)
=============================================================================
