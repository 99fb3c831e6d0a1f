---------------------------- MODULE AtomicLedger ----------------------------
(***************************************************************************)
(* What the payments code promises of the ledger as a whole, with no       *)
(* handlers, no locks and no transactions: a payment is posted in one      *)
(* step.  The step writes the ledger row and its outbox event, and moves   *)
(* exactly the money the row accounts for; a request id is posted at most  *)
(* once.  Ledger.tla, where every payment takes a dozen interleaved steps, *)
(* is shown to implement this module.                                      *)
(***************************************************************************)
EXTENDS Integers, Functions

CONSTANTS
  Accounts,        \* account ids
  RowIds,          \* identities of ledger rows (transactions.id)
  RequestIds,      \* values of x-request-id / transactions.request_id
  Destinations,    \* what a row's toAccountId may be: accounts, or none
  Amounts,         \* amounts a payment may have: positive integers
  InitialBalance   \* the seeded balance of each account

VARIABLES balance, ledger, outbox

avars == <<balance, ledger, outbox>>

Kinds == {"TRANSFER", "BILL_PAY", "DEPOSIT"}

\* A row of the transactions table.
Row == [id : RowIds, rid : RequestIds, kind : Kinds, from : Accounts,
        to : Destinations, amt : Amounts]

\* A row debits its source, except a deposit, which names the credited
\* account on both sides; it credits its destination if that is internal.
Debits(r, a)  == r.kind # "DEPOSIT" /\ r.from = a
Credits(r, a) == r.to = a

\* What a row does to the balance of a.
Effect(r, a) == (IF Credits(r, a) THEN r.amt ELSE 0)
              - (IF Debits(r, a)  THEN r.amt ELSE 0)

\* The outbox event that announces a row.
EventOf(r) == [txId |-> r.id, amount |-> r.amt,
               type |-> IF r.kind = "DEPOSIT" THEN "deposit.completed"
                                              ELSE "payment.completed"]

-----------------------------------------------------------------------------

Init == /\ balance = InitialBalance
        /\ ledger = {}
        /\ outbox = {}

\* Post a payment: row, event and money in one step, once per request id.
Post(r) ==
  /\ \A q \in ledger : q.rid # r.rid /\ q.id # r.id
  /\ ledger' = ledger \cup {r}
  /\ outbox' = outbox \cup {EventOf(r)}
  /\ balance' = [a \in Accounts |-> balance[a] + Effect(r, a)]

Next == \E r \in Row : Post(r)

Spec == Init /\ [][Next]_avars

-----------------------------------------------------------------------------

TypeOK == /\ balance \in [Accounts -> Int]
          /\ ledger \subseteq Row

\* No request id has two rows, so none is charged twice (FR-13, and the
\* unique index on transactions.request_id).
UniqueRequestIds == \A q, r \in ledger : q.rid = r.rid => q = r

\* Every committed row has its outbox event and every event has its row
\* (FR-14a: the event is written in the transaction of the ledger row).
OutboxMatchesLedger == outbox = {EventOf(r) : r \in ledger}

\* Balances are the seeded balances plus what the ledger accounts for.
BalancesMatchLedger ==
  \A a \in Accounts :
    balance[a] = InitialBalance[a]
                 + SumFunction([r \in ledger |-> Effect(r, a)])
=============================================================================
