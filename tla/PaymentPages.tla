---------------------------- MODULE PaymentPages ----------------------------
(***************************************************************************)
(* One browser tab of a customer who pays: the transfer, bill-pay and      *)
(* loans pages, the step-up window, and the balance, payments and loan     *)
(* that the context shows, against a server that posts a request id at     *)
(* most once.  (That every payment is one atomic posting is what Ledger    *)
(* shows.)  A call is one POST: it travels, is served, and is answered;    *)
(* the network may fail at any point, and the page may be reloaded.        *)
(***************************************************************************)
EXTENDS Integers, FiniteSets, Functions

CONSTANTS
  Calls,       \* the POSTs of the tab
  Ids,         \* request ids
  Amounts,     \* what the customer may pay: positive integers
  Opening,     \* the balance of the account at first
  Debt,        \* what is owed on the loan at first
  Fee,         \* the fee the transfer page shows; the server charges none
  PageLimit,   \* the page asks for a step-up above this amount
  ServerLimit, \* and so does the server (STEP_UP_MFA_THRESHOLD)
  MaxWants,    \* bound: how often a page or a form is opened, and the tab reloaded
  Restore,     \* the loader that restores the session after a reload
  None

ASSUME PaymentPagesAssumption ==
  /\ Amounts \subseteq Nat \ {0}
  /\ {Opening, Debt, Fee, PageLimit, ServerLimit, MaxWants} \subseteq Nat
  /\ Restore \notin Calls

Pages      == {"transfer", "bill", "loans"}
Loaders    == Calls \cup {Restore}
LoadStages == {"profile", "payments", "loans"}
Answers    == {"OK", "STEPUP", "ERROR"}

\* want counts what the customer sets out to pay: it grows when a page is
\* opened and when a finished payment is left for the next one.
Wants  == 0 .. MaxWants
Action == [kind : Pages, id : Ids, amt : Amounts, want : Wants]
Post   == [action : Action, id : Ids, mfa : BOOLEAN]
Row    == [call : Calls, id : Ids, kind : Pages, amt : Amounts]

\* What the server answers a loader.
Snapshot == [ledger : SUBSET Row, owed : 0 .. Debt, balance : 0 .. Opening]

ASSUME NoneAssumption ==
  None \notin Calls \cup Ids \cup Pages \cup Answers \cup Action \cup Post \cup Snapshot

Idle == [stage |-> "idle", got |-> None]

VARIABLES
  \* the server
  ledger,    \* rows of payments: the call that posted, its id, kind and amount
  owed,      \* Loan.outstandingBalance
  \* the calls
  call,      \* what each call carries: its action, and the step-up flag
  wire,      \* the calls the server has not come to
  answer,    \* what the server answered
  waiting,   \* the calls whose promise has not settled
  \* the tab
  page,      \* the page, its state, and the request id of a transfer page
  modal,     \* the action the step-up window is open for
  verifying, \* the actions whose codes are being verified, and in which window
  ready,     \* the context has the account
  shown,     \* the balance it shows
  rows,      \* the completed payments it shows, with the call that added each
  shownOwed, \* the loan it shows
  load,      \* the loaders: what is fetched, and what the server answered
  \* history, for the properties
  want,
  met,       \* pairs of request ids that were under way at one time, or the one
             \* when the other was put into the window
  failed,    \* calls whose fetch ended in an exception
  overtaken  \* settled calls whose payment is not in the last balance that arrived

server  == <<ledger, owed>>
network == <<call, wire, answer, waiting>>
window  == <<modal, verifying>>
context == <<ready, shown, rows, shownOwed>>
history == <<want, met, failed, overtaken>>
vars    == <<server, network, page, window, context, load, history>>

NoPage == [name |-> None, step |-> 1, id |-> None, amt |-> 0, submitting |-> FALSE, from |-> 0]

Paid(rs)      == SumFunction([r \in rs |-> r.amt])
Requested(cs) == SumFunction([c \in cs |-> call[c].action.amt])

Balance == Opening - Paid(ledger)

Init ==
  /\ ledger = {} /\ owed = Debt
  /\ call = [c \in Calls |-> None]
  /\ wire = {} /\ waiting = {}
  /\ answer = [c \in Calls |-> None]
  /\ page = NoPage
  /\ modal = None /\ verifying = {}
  /\ ready = FALSE /\ shown = 0 /\ rows = {} /\ shownOwed = 0
  /\ load = [l \in Loaders |-> IF l = Restore THEN [Idle EXCEPT !.stage = "profile"] ELSE Idle]
  /\ want = 0 /\ met = {} /\ failed = {} /\ overtaken = {}

\* max(0, n).
Clamp(n) == IF n < 0 THEN 0 ELSE n

Sent == {c \in Calls : call[c] # None}

\* A request id is drawn at random: one that nobody uses.
Unused == Ids \ ({call[c].id : c \in Sent} \cup {page.id}
                 \cup {a.id : a \in {modal} \ {None}} \cup {v.action.id : v \in verifying})

\* The request ids whose handler still runs, or will when a code is verified.
Running == {call[c].id : c \in {d \in Calls : d \in waiting \/ load[d].stage # "idle"}}
             \cup {v.action.id : v \in verifying}

-----------------------------------------------------------------------------
(* Pages.  What a call does to a page reaches it only if it is the page the *)
(* call was sent from: mounted at want page.from, and not left since.      *)

\* A transfer page draws its request id; the form of the loans page is closed.
Open(p) ==
  /\ want + 1 \in Wants
  /\ want' = want + 1
  /\ \E i \in IF p = "transfer" THEN Unused ELSE {None} :
       page' = [NoPage EXCEPT !.name = p, !.id = i, !.from = want + 1,
                              !.step = IF p = "loans" THEN 3 ELSE 1]
  /\ UNCHANGED <<server, network, window, context, load, met, failed, overtaken>>

Turn(p) == /\ page' = p
           /\ UNCHANGED <<server, network, window, context, load, history>>

\* handleReviewStep looks at the balance that is shown.
Review(a) ==
  /\ page.name = "transfer" /\ page.step = 1 /\ modal = None
  /\ a <= shown
  /\ Turn([page EXCEPT !.step = 2, !.amt = a])

Back ==
  /\ page.name = "transfer" /\ page.step = 2 /\ modal = None
  /\ Turn([page EXCEPT !.step = 1])

\* "Make Another Transfer", which keeps the request id, "Pay Another Bill", and
\* "Repay Installment", which opens the form.
Another ==
  /\ page.step = 3 /\ modal = None
  /\ page.name = "loans" => shownOwed > 0
  /\ want + 1 \in Wants
  /\ want' = want + 1
  /\ page' = [page EXCEPT !.step = 1]
  /\ UNCHANGED <<server, network, window, context, load, met, failed, overtaken>>

OnPage(a) == page.name = a.kind /\ a.want >= page.from

\* fetch: the page is busy until the promise settles.
Send(a, mfa, m, vs) ==
  /\ \E c \in Calls \ Sent :
       /\ call' = [call EXCEPT ![c] = [action |-> a, id |-> a.id, mfa |-> mfa]]
       /\ wire' = wire \cup {c}
       /\ waiting' = waiting \cup {c}
       /\ met' = met \cup {{a.id, i} : i \in Running}
  /\ modal' = m /\ verifying' = vs
  /\ page' = IF OnPage(a) /\ a.kind # "loans" THEN [page EXCEPT !.submitting = TRUE] ELSE page
  /\ UNCHANGED <<server, answer, context, load, want, failed, overtaken>>

\* A high amount opens the step-up window first.
Start(a) == IF a.amt > PageLimit
              THEN /\ modal' = a
                   /\ met' = met \cup {{a.id, i} : i \in Running}
                   /\ UNCHANGED <<server, network, page, verifying, context, load>>
                   /\ UNCHANGED <<want, failed, overtaken>>
              ELSE Send(a, FALSE, modal, verifying)

\* handleExecutePayment: the request id is that of the page.
SubmitTransfer ==
  /\ page.name = "transfer" /\ page.step = 2 /\ ~page.submitting /\ modal = None
  /\ Start([kind |-> "transfer", id |-> page.id, amt |-> page.amt, want |-> want])

\* handleSubmit of the bill-pay page: a request id per click, no look at the
\* balance; without accounts the server refuses, and nothing is modelled.
SubmitBill(a) ==
  /\ page.name = "bill" /\ page.step = 1 /\ ~page.submitting /\ modal = None
  /\ ready
  /\ \E i \in Unused : Start([kind |-> "bill", id |-> i, amt |-> a, want |-> want])

\* handleExecuteRepay: a request id per click, and no guard against a second.
SubmitRepayment(a) ==
  /\ page.name = "loans" /\ page.step = 1
  /\ ready
  /\ \E i \in Unused :
       Send([kind |-> "loans", id |-> i, amt |-> a, want |-> want], FALSE, modal, verifying)

-----------------------------------------------------------------------------
(* The step-up window.                                                     *)

CloseWindow ==
  /\ modal # None
  /\ modal' = None
  /\ UNCHANGED <<server, network, page, verifying, context, load, history>>

\* handleVerify keeps the action it was rendered with; the window of a page
\* that has been left keeps verifying.
Verify ==
  /\ modal # None
  /\ \A v \in verifying : v.from # page.from
  /\ verifying' = verifying \cup {[action |-> modal, from |-> page.from]}
  /\ met' = met \cup {{modal.id, i} : i \in Running}
  /\ UNCHANGED <<server, network, page, modal, context, load, want, failed, overtaken>>

\* The action goes out, and the window that is open by then is closed, even if
\* the customer has closed the window meanwhile or opened it for another one.
Verified(v) ==
  /\ v \in verifying
  /\ Send(v.action, TRUE, None, verifying \ {v})

VerifyFails(v) ==
  /\ v \in verifying
  /\ verifying' = verifying \ {v}
  /\ UNCHANGED <<server, network, page, modal, context, load, history>>

-----------------------------------------------------------------------------
(* The server.  A request that is lost is one it never comes to.           *)

Reply(c, a) == /\ wire' = wire \ {c}
               /\ answer' = [answer EXCEPT ![c] = a]
               /\ UNCHANGED <<call, waiting, page, window, context, load, history>>

\* Mutant of Posted: a request id is never looked up.
PostedNever(i) == FALSE

Posted(i) == \E r \in ledger : r.id = i

\* The flag of the request, or the cookie of an earlier step-up.
Authorized(c) == call[c].mfa \/ \E d \in Sent : call[d].mfa

\* checkIdempotency: whatever the amount is, a duplicate is a success.
ServeDuplicate(c) ==
  /\ c \in wire /\ Posted(call[c].id)
  /\ Reply(c, "OK") \/ Reply(c, "ERROR")
  /\ UNCHANGED server

\* Validation, risk and limits; a step-up is asked of payments, not of loans.
ServeRefused(c) ==
  /\ c \in wire /\ ~Posted(call[c].id)
  /\ \/ Reply(c, "ERROR")
     \/ /\ call[c].action.kind # "loans" /\ call[c].action.amt > ServerLimit
        /\ ~call[c].mfa
        /\ Reply(c, "STEPUP")
  /\ UNCHANGED server

\* One posting; the answer is an error if the database loses it after the commit.
ServePayment(c) ==
  LET a == call[c].action IN
  /\ c \in wire /\ ~Posted(a.id)
  /\ a.amt <= Balance
  /\ a.kind # "loans" /\ a.amt > ServerLimit => Authorized(c)
  /\ ledger' = ledger \cup {[call |-> c, id |-> a.id, kind |-> a.kind, amt |-> a.amt]}
  /\ owed' = IF a.kind = "loans" THEN Clamp(owed - a.amt) ELSE owed
  /\ Reply(c, "OK") \/ Reply(c, "ERROR")

-----------------------------------------------------------------------------
(* The answer.                                                             *)

\* setIsSubmitting(false), and the step of the page: 3 when it is done, and
\* when the form of the loans page is closed.
Settled(c, done) ==
  LET a == call[c].action IN
  page' = IF ~OnPage(a) THEN page
            ELSE [page EXCEPT !.submitting = FALSE, !.step = IF done THEN 3 ELSE @]

\* addTransaction: the row counts as completed, the balance is cut at zero.
Total(a) == a.amt + IF a.kind = "transfer" THEN Fee ELSE 0

AddRow(c) == rows' = rows \cup {[call |-> c, id |-> call[c].id, amt |-> call[c].action.amt]}

\* Mutant of AddTransaction: the balance is left to the next load.
AddTransactionRowOnly(c) ==
  /\ AddRow(c)
  /\ UNCHANGED <<ready, shown, shownOwed>>

AddTransaction(c) ==
  /\ AddRow(c)
  /\ shown' = Clamp(shown - Total(call[c].action))
  /\ UNCHANGED <<ready, shownOwed>>

DeliverPaid(c) ==
  /\ c \in waiting /\ answer[c] = "OK" /\ call[c].action.kind # "loans"
  /\ waiting' = waiting \ {c}
  /\ AddTransaction(c)
  /\ Settled(c, TRUE)
  /\ UNCHANGED <<server, call, wire, answer, window, load, history>>

\* repayLoan fetches the profile and the loans again.
DeliverRepaid(c) ==
  /\ c \in waiting /\ answer[c] = "OK" /\ call[c].action.kind = "loans"
  /\ waiting' = waiting \ {c}
  /\ load' = [load EXCEPT ![c].stage = "profile"]
  /\ UNCHANGED <<server, call, wire, answer, page, window, context, history>>

\* Mutant of DeliverError: a refused payment is shown, too.
DeliverErrorShown(c) ==
  /\ c \in waiting /\ answer[c] = "ERROR"
  /\ waiting' = waiting \ {c}
  /\ AddTransaction(c)
  /\ Settled(c, TRUE)
  /\ UNCHANGED <<server, call, wire, answer, window, load, history>>

\* Mutant of DeliverError: the loan is reduced whatever the answer.
DeliverErrorReduces(c) ==
  /\ c \in waiting /\ answer[c] = "ERROR"
  /\ waiting' = waiting \ {c}
  /\ shownOwed' = IF call[c].action.kind = "loans" THEN Clamp(shownOwed - call[c].action.amt)
                                                   ELSE shownOwed
  /\ Settled(c, FALSE)
  /\ UNCHANGED <<server, call, wire, answer, window, ready, shown, rows, load, history>>

DeliverError(c) ==
  /\ c \in waiting /\ answer[c] = "ERROR"
  /\ waiting' = waiting \ {c}
  /\ Settled(c, FALSE)
  /\ UNCHANGED <<server, call, wire, answer, window, context, load, history>>

DeliverStepUp(c) ==
  /\ c \in waiting /\ answer[c] = "STEPUP"
  /\ waiting' = waiting \ {c}
  /\ modal' = call[c].action
  /\ Settled(c, FALSE)
  /\ UNCHANGED <<server, call, wire, answer, verifying, context, load, history>>

\* catch: the fetch fails, whatever the server has done or will do.  The payment
\* is shown as completed, the loan as reduced.
Fail(c) ==
  /\ c \in waiting
  /\ waiting' = waiting \ {c}
  /\ failed' = failed \cup {c}
  /\ IF call[c].action.kind = "loans"
       THEN shownOwed' = Clamp(shownOwed - call[c].action.amt) /\ UNCHANGED <<ready, shown, rows>>
       ELSE AddTransaction(c)
  /\ Settled(c, TRUE)
  /\ UNCHANGED <<server, call, wire, answer, window, load, want, met, overtaken>>

-----------------------------------------------------------------------------
(* Loading: restoreSession after a reload, and repayLoan.                  *)

NextStage(l) ==
  CASE load[l].stage = "profile" -> IF l = Restore THEN "payments" ELSE "loans"
    [] load[l].stage = "payments" -> "loans"
    [] OTHER -> "idle"

\* The server answers the query.
Query(l) ==
  /\ load[l].stage # "idle" /\ load[l].got = None
  /\ load' = [load EXCEPT ![l].got = [ledger |-> ledger, owed |-> owed, balance |-> Balance]]
  /\ UNCHANGED <<server, network, page, window, context, history>>

Loaded(l) == load' = [load EXCEPT ![l] = [stage |-> NextStage(l), got |-> None]]

\* What these calls post is not in the balance that arrives, and nothing will
\* take it off.
Overtaken(l) == {c \in Sent \ waiting : \A r \in load[l].got.ledger : r.call # c}

\* repayLoan returns when the loans are there, or have failed.
Returned(l) == IF l \in Calls /\ load[l].stage = "loans" THEN Settled(l, TRUE) ELSE UNCHANGED page

Arrive(l) ==
  /\ load[l].got # None
  /\ Loaded(l)
  /\ CASE load[l].stage = "profile" ->
            /\ shown' = load[l].got.balance /\ ready' = TRUE
            /\ overtaken' = Overtaken(l)
            /\ UNCHANGED <<rows, shownOwed>>
       [] load[l].stage = "payments" ->
            /\ rows' = {[call |-> None, id |-> r.id, amt |-> r.amt] : r \in load[l].got.ledger}
            /\ UNCHANGED <<ready, shown, shownOwed, overtaken>>
       [] OTHER ->
            /\ shownOwed' = load[l].got.owed
            /\ UNCHANGED <<ready, shown, rows, overtaken>>
  /\ Returned(l)
  /\ UNCHANGED <<server, network, window, want, met, failed>>

\* A failed profile leaves the balance; a restored session shows no payments or
\* no loans instead.
LoadFails(l) ==
  /\ load[l].stage # "idle" /\ load[l].got = None
  /\ Loaded(l)
  /\ rows' = IF load[l].stage = "payments" THEN {} ELSE rows
  /\ shownOwed' = IF l = Restore /\ load[l].stage = "loans" THEN 0 ELSE shownOwed
  /\ failed' = failed \cup ({l} \cap Calls)
  /\ Returned(l)
  /\ UNCHANGED <<server, network, window, ready, shown, want, met, overtaken>>

\* The tab is loaded anew: what the server has been sent stays sent.
Reload ==
  /\ want + 1 \in Wants
  /\ want' = want + 1
  /\ page' = NoPage /\ modal' = None /\ verifying' = {}
  /\ ready' = FALSE /\ shown' = 0 /\ rows' = {} /\ shownOwed' = 0
  /\ waiting' = {}
  /\ load' = [l \in Loaders |-> IF l = Restore THEN [Idle EXCEPT !.stage = "profile"] ELSE Idle]
  /\ overtaken' = {}
  /\ UNCHANGED <<server, call, wire, answer, met, failed>>

-----------------------------------------------------------------------------

Customer ==
  \/ \E p \in Pages : Open(p)
  \/ \E a \in Amounts : Review(a) \/ SubmitBill(a) \/ SubmitRepayment(a)
  \/ Back \/ Another \/ SubmitTransfer
  \/ CloseWindow \/ Verify \/ Reload

Serve(c) == ServeDuplicate(c) \/ ServeRefused(c) \/ ServePayment(c)

Settle(c) == \/ DeliverPaid(c) \/ DeliverRepaid(c) \/ DeliverError(c) \/ DeliverStepUp(c)
             \/ Fail(c)

Next ==
  \/ Customer
  \/ \E v \in verifying : Verified(v) \/ VerifyFails(v)
  \/ \E c \in Calls : Serve(c) \/ Settle(c)
  \/ \E l \in Loaders : Query(l) \/ Arrive(l) \/ LoadFails(l)

Spec == Init /\ [][Next]_vars

-----------------------------------------------------------------------------
(* Properties.                                                             *)

\* Every variable has its type.
TypeOK ==
  /\ ledger \subseteq Row
  /\ owed \in 0 .. Debt
  /\ call \in [Calls -> Post \cup {None}]
  /\ wire \subseteq Sent
  /\ waiting \subseteq Sent
  /\ answer \in [Calls -> Answers \cup {None}]
  /\ page \in [name : Pages \cup {None}, step : 1 .. 3, id : Ids \cup {None},
               amt : Amounts \cup {0}, submitting : BOOLEAN, from : Wants]
  /\ modal \in Action \cup {None}
  /\ verifying \subseteq [action : Action, from : Wants]
  /\ ready \in BOOLEAN
  /\ shown \in 0 .. Opening
  /\ rows \subseteq [call : Calls \cup {None}, id : Ids, amt : Amounts]
  /\ shownOwed \in 0 .. Debt
  /\ load \in [Loaders -> [stage : LoadStages, got : Snapshot \cup {None}] \cup {Idle}]
  /\ want \in Wants
  /\ failed \subseteq Sent /\ overtaken \subseteq Sent

WantOf(r) == call[r.call].action.want

\* What the customer sets out to pay once is posted once, however often he
\* clicks, is refused, is asked to step up or loses the network.  A transfer
\* never is posted twice: its page keeps one request id.  A bill or a repayment,
\* which has a new id at each click, is only when the two were under way at one
\* time (a second click on the loan; a step-up whose window was closed; a payment
\* put into the window while the one before it is), or when one was posted and
\* answered with an error.
PostedOncePerWant ==
  \A r, s \in ledger :
    (r # s /\ WantOf(r) = WantOf(s))
      => /\ {r.kind, s.kind} \cap {"transfer"} = {}
         /\ {r.id, s.id} \in met \/ "ERROR" \in {answer[r.call], answer[s.call]}

\* A payment is shown as completed only if the server posted it, unless the
\* network failed, or an earlier call with its request id, of another amount, was
\* posted in its place.
ShownWasPosted ==
  \A w \in rows :
    \/ w.call \in failed
    \/ \E r \in ledger : r.id = w.id /\ (r.amt = w.amt \/ r.call # w.call)

\* The tab has not been told of this payment: it is under way, was answered with
\* an error, was settled or left behind before a balance arrived that was read
\* without it, or is a repayment whose new balance is still to come or could not
\* be loaded.
Untold(r) ==
  \/ r.call \in waiting
  \/ answer[r.call] = "ERROR"
  \/ r.call \in overtaken
  \/ r.kind = "loans" /\ (load[r.call].stage = "profile" \/ r.call \in failed)

\* The tab shows no more than the account has, but for the payments it has not
\* been told of.
NotShownTooHigh == shown <= Opening - Paid({r \in ledger : ~Untold(r)})

\* The tab shows no less debt than there is, but for the repayments whose call
\* failed, posted or not, and unless no loan could be loaded at all.
DebtHiddenOnlyByFailure ==
  shownOwed > 0 =>
    owed <= shownOwed + Requested({c \in failed : call[c].action.kind = "loans"})
=============================================================================
