----------------------------- MODULE PagesProofs -----------------------------
(***************************************************************************)
(* What the pages show, proved: the payment pages, the operator's console, *)
(* the pages of a statement and the history page.  The four share nothing. *)
(***************************************************************************)
EXTENDS PaymentPages, Desk, Statements, HistoryPage, Sums,
        FiniteSetTheorems, SequenceTheorems, TLAPS

-----------------------------------------------------------------------------
(***************************************************************************)
(* The payment pages.                                                      *)
(***************************************************************************)

-----------------------------------------------------------------------------
(* What the calls, the rows and the loaders have to do with one another.   *)

\* A call carries the id of its action, and is over for the server once it is
\* answered.
Carried ==
  /\ \A c \in Sent : call[c].id = call[c].action.id
  /\ \A c \in Calls : answer[c] # None => c \in Sent \ wire
  /\ \A c \in Sent \ wire : answer[c] # None

\* A row is what its call asked for; a call posts once, and so does an id.
Posting ==
  /\ IsFiniteSet(ledger)
  /\ \A r \in ledger :
       /\ r.call \in Sent \ wire
       /\ answer[r.call] \in {"OK", "ERROR"}
       /\ r.id = call[r.call].id
       /\ r.kind = call[r.call].action.kind
       /\ r.amt = call[r.call].action.amt
  /\ \A r, s \in ledger : r.call = s.call \/ r.id = s.id => r = s
  /\ \A c \in Calls : answer[c] = "OK" => Posted(call[c].id)

\* A call is waiting, or loads, or has settled; a loader has asked the server
\* some time ago.
Loading ==
  /\ waiting \cap (failed \cup overtaken) = {}
  /\ \A c \in Calls : load[c] # Idle => c \in Sent \ waiting /\ call[c].action.kind = "loans"
  /\ \A l \in Loaders : load[l].got # None =>
       LET ans == load[l].got IN /\ ans.ledger \subseteq ledger
                                 /\ ans.balance = Opening - Paid(ans.ledger)
                                 /\ ans.owed >= owed

Facts == Carried /\ Posting /\ Loading /\ Paid(ledger) <= Opening

-----------------------------------------------------------------------------
(* What a customer wants.                                                  *)

\* The actions of the calls, the window and the verifications.
InWindow == ({modal} \ {None}) \cup {v.action : v \in verifying}
Actions  == {call[c].action : c \in Sent} \cup InWindow

\* What is wanted at one time is of one kind, and one transfer: that of the page.
Wanted ==
  /\ \A a \in Actions : a.want <= want
  /\ \A a, b \in Actions : a.id = b.id => /\ a.kind = b.kind
                                          /\ a.kind # "transfer" => a.want = b.want
  /\ \A a, b \in Actions : a.want = b.want => /\ a.kind = b.kind
                                              /\ a.kind = "transfer" => a.id = b.id
  /\ \A a \in InWindow : a.kind # "loans"
  /\ \A c \in Sent : answer[c] = "STEPUP" => call[c].action.kind # "loans"

\* The page is that of all that was wanted since it was opened.
PageIsOf ==
  /\ page.from <= want
  /\ page.name = "transfer" <=> page.id # None
  /\ page.name = "transfer" /\ page.step = 2 => page.amt \in Amounts
  /\ \A a \in Actions :
       /\ page.name # None /\ a.want >= page.from
            => a.kind = page.name /\ (a.kind = "transfer" => a.id = page.id)
       /\ page.id # None /\ a.id = page.id => a.kind = "transfer"

Settling(c) == c \in waiting \/ load[c] # Idle

Refused(c) == c \notin wire /\ ~Settling(c) /\ answer[c] \in {"ERROR", "STEPUP"}

\* A page that is ready for the next payment knows of none, or of a refused one.
Ready ==
  page.name # None /\ page.step # 3
    => \A c \in Sent : call[c].action.want = want => Settling(c) \/ Refused(c)

\* Nothing will be posted with this id any more.
Dead(i) ==
  /\ \A a \in InWindow : a.id # i
  /\ \A c \in Sent : call[c].id = i => Refused(c)

\* Of two payments that were wanted at one time the one was dead before the other
\* began, unless they met.
Pairs ==
  \A a, b \in Actions :
    a.want = b.want /\ a.id # b.id => {a.id, b.id} \in met \/ Dead(a.id) \/ Dead(b.id)

WantInv == Wanted /\ PageIsOf /\ Ready /\ Pairs

-----------------------------------------------------------------------------
(* What the tab shows.                                                     *)

Heard == {r \in ledger : ~Untold(r)}

\* Payments that failed, and are in the balance that is shown, but not posted.
Ahead == {c \in wire \ (waiting \cup overtaken) : call[c].action.kind # "loans"}

ShownInv ==
  /\ IsFiniteSet(wire)
  /\ shown > 0 => /\ shown + Paid(Heard) + Requested(Ahead) <= Opening
                  /\ wire \subseteq waiting \cup overtaken \cup failed

FailedLoans == {c \in failed : call[c].action.kind = "loans"}

OwedInv ==
  /\ IsFiniteSet(failed)
  /\ shownOwed > 0 => owed <= shownOwed + Requested(FailedLoans)

PayInv == TypeOK /\ Facts /\ WantInv /\ ShownWasPosted /\ ShownInv /\ OwedInv

-----------------------------------------------------------------------------
(* Types.                                                                  *)

PageState == [name : Pages \cup {None}, step : 1 .. 3, id : Ids \cup {None},
              amt : Amounts \cup {0}, submitting : BOOLEAN, from : Wants]

LoadState == [stage : LoadStages, got : Snapshot \cup {None}] \cup {Idle}

LEMMA ClampType == \A n \in Int : Clamp(n) \in Nat /\ Clamp(n) >= n /\ (Clamp(n) > 0 => Clamp(n) = n)
  BY DEF Clamp

LEMMA ClampBelow == \A b, n \in Nat, d \in Nat : n <= b => Clamp(n - d) \in 0 .. b
  BY DEF Clamp

LEMMA Bounds == Opening \in Nat /\ Debt \in Nat /\ Fee \in Nat /\ MaxWants \in Nat
  BY PaymentPagesAssumption

LEMMA NoneIsNot ==
  /\ None \notin Calls /\ None \notin Ids /\ None \notin Pages /\ None \notin Answers
  /\ None \notin Action /\ None \notin Post /\ None \notin Snapshot
  BY NoneAssumption

\* Sums of amounts.
LEMMA PaidType ==
  ASSUME NEW rs, IsFiniteSet(rs), rs \subseteq Row
  PROVE  Paid(rs) \in Nat
<1> DEFINE f == [r \in rs |-> r.amt]
<1>1. f \in [rs -> Nat]
  BY PaymentPagesAssumption DEF Row
<1> HIDE DEF f
<1>2. SumFunction(f) \in Nat
  BY <1>1, SumInSet
<1> QED BY <1>2 DEF f, Paid

LEMMA RequestedType ==
  ASSUME TypeOK, NEW cs, IsFiniteSet(cs), cs \subseteq Sent
  PROVE  Requested(cs) \in Nat
<1> DEFINE f == [c \in cs |-> call[c].action.amt]
<1>1. f \in [cs -> Nat]
  BY PaymentPagesAssumption DEF TypeOK, Sent, Post, Action
<1> HIDE DEF f
<1>2. SumFunction(f) \in Nat
  BY <1>1, SumInSet
<1> QED BY <1>2 DEF f, Requested

\* A call that has been sent carries an action; the ids in use are ids.
LEMMA SentType ==
  ASSUME TypeOK
  PROVE  /\ Sent \subseteq Calls
         /\ \A c \in Sent : call[c] \in Post /\ call[c].action \in Action
         /\ Actions \subseteq Action /\ InWindow \subseteq Actions
  BY DEF TypeOK, Sent, Post, Actions, InWindow

LEMMA SumsType ==
  ASSUME TypeOK
  PROVE  /\ owed \in Nat /\ owed <= Debt
         /\ shown \in Nat /\ shown <= Opening
         /\ shownOwed \in Nat /\ shownOwed <= Debt
<1>1. owed \in 0 .. Debt /\ shown \in 0 .. Opening /\ shownOwed \in 0 .. Debt
  BY DEF TypeOK
<1> QED BY <1>1, Bounds

LEMMA PageType ==
  ASSUME TypeOK
  PROVE  page \in PageState
  BY DEF TypeOK, PageState

LEMMA PageSteps ==
  ASSUME NEW p \in PageState, NEW s \in 1 .. 3
  PROVE  [p EXCEPT !.step = s] \in PageState /\ [p EXCEPT !.submitting = FALSE, !.step = s] \in PageState
  BY DEF PageState

\* What a settled call does to the page.
LEMMA SettledType ==
  ASSUME TypeOK, NEW c \in Sent, NEW over \in BOOLEAN, Settled(c, over)
  PROVE  page' \in PageState
<1>1. page \in PageState /\ 3 \in 1 .. 3
  BY PageType
<1>2. page.step \in 1 .. 3
  BY <1>1 DEF PageState
<1> QED BY <1>1, <1>2, PageSteps DEF Settled

LEMMA SendFacts ==
  ASSUME TypeOK, NEW a \in Action, NEW mfa \in BOOLEAN, NEW m, NEW vs, Send(a, mfa, m, vs)
  PROVE  \E c \in Calls \ Sent :
           /\ call' \in [Calls -> Post \cup {None}]
           /\ call' = [call EXCEPT ![c] = [action |-> a, id |-> a.id, mfa |-> mfa]]
           /\ wire' = wire \cup {c} /\ waiting' = waiting \cup {c}
           /\ Sent' = Sent \cup {c}
           /\ \A d \in Sent : call'[d] = call[d]
           /\ call'[c] = [action |-> a, id |-> a.id, mfa |-> mfa]
<1>1. PICK c \in Calls \ Sent :
        /\ call' = [call EXCEPT ![c] = [action |-> a, id |-> a.id, mfa |-> mfa]]
        /\ wire' = wire \cup {c} /\ waiting' = waiting \cup {c}
  BY DEF Send
<1>2. [action |-> a, id |-> a.id, mfa |-> mfa] \in Post
  BY DEF Post, Action
<1>3. call' \in [Calls -> Post \cup {None}]
  BY <1>1, <1>2 DEF TypeOK
<1>4. call'[c] = [action |-> a, id |-> a.id, mfa |-> mfa] /\ \A d \in Calls \ {c} : call'[d] = call[d]
  BY <1>1 DEF TypeOK
<1>5. Sent' = Sent \cup {c}
  BY <1>1, <1>2, <1>4, NoneIsNot DEF Sent
<1> QED BY <1>1, <1>3, <1>4, <1>5 DEF Sent

LEMMA SendType ==
  ASSUME TypeOK, NEW a \in Action, NEW mfa \in BOOLEAN, NEW m \in Action \cup {None},
         NEW vs \in SUBSET [action : Action, from : Wants], Send(a, mfa, m, vs)
  PROVE  TypeOK'
<1>1. PICK c \in Calls \ Sent :
           /\ call' \in [Calls -> Post \cup {None}]
           /\ wire' = wire \cup {c} /\ waiting' = waiting \cup {c}
           /\ Sent' = Sent \cup {c}
  BY SendFacts
<1>2. page' \in PageState
  BY PageType DEF Send, PageState
<1>3. wire' \subseteq Sent' /\ waiting' \subseteq Sent' /\ failed' \subseteq Sent' /\ overtaken' \subseteq Sent'
  BY <1>1 DEF TypeOK, Send
<1> QED BY <1>1, <1>2, <1>3 DEF TypeOK, PageState, Send, server, context

\* An action that begins on the page, and how it does: it is sent, or opens the window.
Begins(a) ==
  /\ page.name = a.kind /\ page.step # 3 /\ a.want = want
  /\ IF a.kind = "transfer" THEN a.id = page.id ELSE a.id \in Unused

Opens(a) ==
  /\ modal = None
  /\ modal' = a
  /\ met' = met \cup {{a.id, i} : i \in Running}
  /\ UNCHANGED <<server, network, page, verifying, context, load, want, failed, overtaken>>

BeginsBy(a) ==
  /\ Begins(a)
  /\ \/ Send(a, FALSE, modal, verifying) /\ (modal = None \/ a.kind = "loans")
     \/ Opens(a) /\ a.kind # "loans"

Submit == SubmitTransfer \/ \E n \in Amounts : SubmitBill(n) \/ SubmitRepayment(n)

LEMMA Submits ==
  ASSUME TypeOK, PageIsOf, Submit
  PROVE  \E a \in Action : BeginsBy(a)
<1>1. page \in PageState /\ want \in Wants /\ Unused \subseteq Ids
  BY PageType DEF TypeOK, Unused
<1>2. CASE SubmitTransfer
  <2> DEFINE a == [kind |-> "transfer", id |-> page.id, amt |-> page.amt, want |-> want]
  <2>1. a \in Action /\ Begins(a)
    BY <1>1, <1>2 DEF PageIsOf, SubmitTransfer, Begins, Action, Pages, PageState
  <2>2. Start(a) /\ modal = None /\ a.kind # "loans"
    BY <1>2 DEF SubmitTransfer
  <2> HIDE DEF a
  <2> QED BY <2>1, <2>2 DEF Start, Opens, BeginsBy
<1>3. ASSUME NEW n \in Amounts, SubmitBill(n) PROVE \E a \in Action : BeginsBy(a)
  <2>1. PICK i \in Unused : Start([kind |-> "bill", id |-> i, amt |-> n, want |-> want])
    BY <1>3 DEF SubmitBill
  <2> DEFINE a == [kind |-> "bill", id |-> i, amt |-> n, want |-> want]
  <2>2. a \in Action /\ Begins(a)
    BY <1>1, <1>3, <2>1 DEF SubmitBill, Begins, Action, Pages, PageState
  <2>3. Start(a) /\ modal = None /\ a.kind # "loans"
    BY <1>3, <2>1 DEF SubmitBill
  <2> HIDE DEF a
  <2> QED BY <2>2, <2>3 DEF Start, Opens, BeginsBy
<1>4. ASSUME NEW n \in Amounts, SubmitRepayment(n) PROVE \E a \in Action : BeginsBy(a)
  <2>1. PICK i \in Unused : Send([kind |-> "loans", id |-> i, amt |-> n, want |-> want], FALSE, modal, verifying)
    BY <1>4 DEF SubmitRepayment
  <2> DEFINE a == [kind |-> "loans", id |-> i, amt |-> n, want |-> want]
  <2>2. a \in Action /\ Begins(a)
    BY <1>1, <1>4, <2>1 DEF SubmitRepayment, Begins, Action, Pages, PageState
  <2>3. Send(a, FALSE, modal, verifying) /\ a.kind = "loans"
    BY <2>1
  <2> HIDE DEF a
  <2> QED BY <2>2, <2>3 DEF BeginsBy
<1> QED BY <1>2, <1>3, <1>4 DEF Submit

\* A verification holds an action, and is sent like one.
LEMMA VerifiedSends ==
  ASSUME TypeOK, NEW v \in verifying, Verified(v)
  PROVE  /\ v.action \in Action /\ v.action \in Actions
         /\ Send(v.action, TRUE, None, verifying \ {v})
         /\ verifying \ {v} \in SUBSET [action : Action, from : Wants]
  BY DEF TypeOK, Verified, Actions, InWindow

\* The next state of the pages, of the window, and of the loaders.
LEMMA PageTypes ==
  ASSUME TypeOK, \/ \E p \in Pages : Open(p)
                 \/ \E n \in Amounts : Review(n)
                 \/ Back \/ Another
  PROVE  TypeOK'
<1>1. page \in PageState /\ want \in Wants /\ Unused \subseteq Ids
  BY PageType DEF TypeOK, Unused
<1>2. NoPage \in PageState
  BY PaymentPagesAssumption DEF NoPage, PageState, Wants
<1>3. ASSUME NEW p \in Pages, Open(p) PROVE page' \in PageState /\ want' \in Wants
  <2>1. PICK i \in Ids \cup {None} :
          page' = [name |-> p, step |-> IF p = "loans" THEN 3 ELSE 1, id |-> i, amt |-> 0,
                   submitting |-> FALSE, from |-> want + 1]
    BY <1>1, <1>3 DEF Open, NoPage
  <2>2. (IF p = "loans" THEN 3 ELSE 1) \in 1 .. 3 /\ want + 1 \in Wants
    <3>1. 3 \in 1 .. 3 /\ 1 \in 1 .. 3
      OBVIOUS
    <3> QED BY <1>3, <3>1 DEF Open
  <2> QED BY <1>3, <2>1, <2>2 DEF Open, PageState
<1>4. ASSUME NEW n \in Amounts, Review(n) PROVE page' \in PageState
  <2>1. /\ page' = [name |-> page.name, step |-> 2, id |-> page.id, amt |-> n,
                    submitting |-> page.submitting, from |-> page.from]
        /\ 2 \in 1 .. 3
    <3>1. 2 \in 1 .. 3
      OBVIOUS
    <3> QED BY <1>1, <1>4, <3>1 DEF Review, Turn, PageState
  <2> QED BY <1>1, <2>1 DEF PageState
<1>5. Back \/ Another => page' \in PageState
  BY <1>1 DEF Back, Turn, Another, PageState
<1>6. Another => want' \in Wants
  BY DEF Another
<1>7. page' \in PageState /\ want' \in Wants
  BY <1>1, <1>3, <1>4, <1>5, <1>6 DEF Back, Review, Turn, history
<1>8. UNCHANGED <<server, network, window, context, load, failed, overtaken>>
  BY DEF Open, Review, Back, Another, Turn, history
<1> QED BY <1>7, <1>8 DEF TypeOK, PageState, Sent, server, network, window, context

LEMMA WindowTypes ==
  ASSUME TypeOK, CloseWindow \/ Verify \/ \E v \in verifying : VerifyFails(v)
  PROVE  TypeOK'
<1>1. modal' \in Action \cup {None}
  BY DEF CloseWindow, Verify, VerifyFails, TypeOK
<1>2. verifying' \subseteq [action : Action, from : Wants]
  <2>1. Verify => [action |-> modal, from |-> page.from] \in [action : Action, from : Wants]
    BY DEF Verify, TypeOK
  <2> QED BY <2>1 DEF CloseWindow, Verify, VerifyFails, TypeOK
<1>3. UNCHANGED <<server, network, page, context, load, want, failed, overtaken>>
  BY DEF CloseWindow, Verify, VerifyFails, history
<1> QED BY <1>1, <1>2, <1>3 DEF TypeOK, Sent, server, network, context

Post1(c) == [call |-> c, id |-> call[c].action.id, kind |-> call[c].action.kind,
             amt |-> call[c].action.amt]

LEMMA ServeTypes ==
  ASSUME TypeOK, NEW c \in Calls, Serve(c)
  PROVE  TypeOK'
<1>1. c \in wire /\ c \in Sent /\ call[c].action \in Action
  BY SentType DEF Serve, ServeDuplicate, ServeRefused, ServePayment, TypeOK
<1>2. PICK a \in Answers : Reply(c, a)
  BY DEF Serve, ServeDuplicate, ServeRefused, ServePayment, Answers
<1>3. /\ wire' \subseteq Sent
      /\ answer' \in [Calls -> Answers \cup {None}]
      /\ UNCHANGED <<call, waiting, page, window, context, load, history>>
  BY <1>1, <1>2 DEF Reply, TypeOK
<1>4. ledger' \subseteq Row /\ owed' \in 0 .. Debt
  <2>1. CASE ServePayment(c)
    <3>1. Post1(c) \in Row
      BY <1>1 DEF Post1, Row, Action
    <3>2. ledger' = ledger \cup {Post1(c)}
      BY <2>1 DEF ServePayment, Post1
    <3>3. call[c].action.amt \in Nat
      BY <1>1, PaymentPagesAssumption DEF Action
    <3>4. Clamp(owed - call[c].action.amt) \in 0 .. Debt
      BY <3>3, ClampBelow, SumsType, Bounds
    <3>5. owed' \in 0 .. Debt
      BY <2>1, <3>4 DEF ServePayment, TypeOK
    <3> QED BY <3>1, <3>2, <3>5 DEF TypeOK
  <2>2. CASE ~ServePayment(c)
    <3>1. UNCHANGED server
      BY <2>2 DEF Serve, ServeDuplicate, ServeRefused
    <3> QED BY <3>1 DEF server, TypeOK
  <2> QED BY <2>1, <2>2
<1> QED BY <1>3, <1>4 DEF TypeOK, Sent, window, context, history

\* What adding a payment does to the tab.
LEMMA AddTypes ==
  ASSUME TypeOK, NEW c \in Sent, AddTransaction(c)
  PROVE  /\ shown' \in 0 .. Opening /\ shownOwed' = shownOwed /\ ready' = ready
         /\ rows' \subseteq [call : Calls \cup {None}, id : Ids, amt : Amounts]
         /\ shown' = Clamp(shown - Total(call[c].action))
         /\ Total(call[c].action) \in Nat /\ Total(call[c].action) >= call[c].action.amt
<1>1. call[c] \in Post /\ call[c].action \in Action /\ c \in Calls
  BY SentType
<1>2. call[c].action.amt \in Nat /\ call[c].action.amt \in Amounts /\ call[c].id \in Ids
  BY <1>1, PaymentPagesAssumption DEF Action, Post
<1>3. Total(call[c].action) \in Nat /\ Total(call[c].action) >= call[c].action.amt
  BY <1>2, PaymentPagesAssumption DEF Total
<1>4. shown' \in 0 .. Opening
  BY <1>3, ClampBelow, SumsType, Bounds DEF AddTransaction
<1>5. rows' \subseteq [call : Calls \cup {None}, id : Ids, amt : Amounts]
  BY <1>1, <1>2 DEF AddTransaction, AddRow, TypeOK
<1> QED BY <1>3, <1>4, <1>5 DEF AddTransaction

LEMMA LoadTypes ==
  ASSUME TypeOK, NEW l \in Loaders, NEW s \in LoadStages, NEW g \in Snapshot \cup {None},
         load' = [load EXCEPT ![l] = [stage |-> s, got |-> g]]
  PROVE  load' \in [Loaders -> LoadState]
  BY DEF TypeOK, LoadState

LEMMA LoaderType ==
  ASSUME TypeOK, NEW l \in Loaders
  PROVE  /\ load[l] \in LoadState
         /\ load[l] # Idle => load[l].stage \in LoadStages /\ load[l].got \in Snapshot \cup {None}
         /\ load[l].stage # "idle" <=> load[l] # Idle
         /\ load[l].got # None => load[l] # Idle
<1>1. load[l] \in LoadState
  BY DEF TypeOK, LoadState
<1>2. load[l] # Idle => load[l].stage \in LoadStages /\ load[l].got \in Snapshot \cup {None}
  BY <1>1 DEF LoadState
<1>3. "idle" \notin LoadStages
  BY DEF LoadStages
<1> QED BY <1>1, <1>2, <1>3 DEF Idle

LEMMA SettleTypes ==
  ASSUME TypeOK, NEW c \in Calls, Settle(c)
  PROVE  TypeOK'
<1>1. c \in waiting /\ c \in Sent /\ call[c].action \in Action
  BY SentType DEF Settle, DeliverPaid, DeliverRepaid, DeliverError, DeliverStepUp, Fail, TypeOK
<1>2. /\ waiting' = waiting \ {c}
      /\ UNCHANGED <<ledger, owed, call, wire, answer, verifying, want, overtaken>>
  BY DEF Settle, DeliverPaid, DeliverRepaid, DeliverError, DeliverStepUp, Fail, server, window, history
<1>3. page' \in PageState
  <2>1. page' = page \/ \E over \in BOOLEAN : Settled(c, over)
    BY DEF Settle, DeliverPaid, DeliverRepaid, DeliverError, DeliverStepUp, Fail
  <2> QED BY <1>1, <2>1, SettledType, PageType
<1>4. modal' \in Action \cup {None}
  BY <1>1 DEF Settle, DeliverPaid, DeliverRepaid, DeliverError, DeliverStepUp, Fail, TypeOK, window
<1>5. failed' \subseteq Sent
  BY <1>1 DEF Settle, DeliverPaid, DeliverRepaid, DeliverError, DeliverStepUp, Fail, TypeOK, history
<1>6. /\ ready' \in BOOLEAN /\ shown' \in 0 .. Opening /\ shownOwed' \in 0 .. Debt
      /\ rows' \subseteq [call : Calls \cup {None}, id : Ids, amt : Amounts]
  <2>1. CASE AddTransaction(c)
    BY <1>1, <2>1, AddTypes DEF TypeOK
  <2>2. CASE Fail(c) /\ call[c].action.kind = "loans"
    <3>1. call[c].action.amt \in Nat
      BY <1>1, PaymentPagesAssumption DEF Action
    <3>2. Clamp(shownOwed - call[c].action.amt) \in 0 .. Debt
      BY <3>1, ClampBelow, SumsType, Bounds
    <3> QED BY <2>2, <3>2 DEF Fail, TypeOK
  <2>3. CASE UNCHANGED context
    BY <2>3 DEF context, TypeOK
  <2> QED BY <2>1, <2>2, <2>3 DEF Settle, DeliverPaid, DeliverRepaid, DeliverError, DeliverStepUp, Fail
<1>7. load' \in [Loaders -> LoadState]
  <2>1. CASE DeliverRepaid(c)
    <3>1. c \in Loaders /\ load[c] \in LoadState
      BY LoaderType DEF Loaders
    <3>2. load' = [load EXCEPT ![c] = [stage |-> "profile", got |-> load[c].got]]
      <4>1. [load[c] EXCEPT !.stage = "profile"] = [stage |-> "profile", got |-> load[c].got]
        BY <3>1 DEF LoadState, Idle
      <4> QED BY <2>1, <3>1, <4>1 DEF DeliverRepaid, TypeOK
    <3>3. load[c].got \in Snapshot \cup {None}
      BY <3>1 DEF LoadState, Idle
    <3> QED BY <3>1, <3>2, <3>3, LoadTypes DEF LoadStages
  <2>2. CASE ~DeliverRepaid(c)
    BY <2>2 DEF Settle, DeliverPaid, DeliverError, DeliverStepUp, Fail, TypeOK, LoadState
  <2> QED BY <2>1, <2>2
<1> QED BY <1>1, <1>2, <1>3, <1>4, <1>5, <1>6, <1>7 DEF TypeOK, Sent, PageState, LoadState

LEMMA QueryTypes ==
  ASSUME TypeOK, Facts, NEW l \in Loaders, Query(l)
  PROVE  /\ TypeOK' /\ load[l] # Idle
         /\ load' = [load EXCEPT ![l] = [stage |-> load[l].stage,
                                         got |-> [ledger |-> ledger, owed |-> owed, balance |-> Balance]]]
<1> DEFINE g == [ledger |-> ledger, owed |-> owed, balance |-> Balance]
<1>1. load[l] # Idle /\ load[l].stage \in LoadStages /\ load[l] \in LoadState
  BY LoaderType DEF Query
<1>2. Balance \in 0 .. Opening
  <2>1. Paid(ledger) \in Nat /\ Paid(ledger) <= Opening
    BY PaidType DEF TypeOK, Facts, Posting
  <2> QED BY <2>1, Bounds DEF Balance
<1>3. g \in Snapshot
  BY <1>2 DEF Snapshot, TypeOK
<1>4. load' = [load EXCEPT ![l] = [stage |-> load[l].stage, got |-> g]]
  <2>1. [load[l] EXCEPT !.got = g] = [stage |-> load[l].stage, got |-> g]
    BY <1>1 DEF LoadState
  <2> QED BY <2>1 DEF Query, TypeOK
<1>5. load' \in [Loaders -> LoadState]
  <2> HIDE DEF g
  <2> QED BY <1>1, <1>3, <1>4, LoadTypes
<1> HIDE DEF g
<1>6. UNCHANGED <<server, network, page, window, context, history>>
  BY DEF Query
<1>7. TypeOK'
  BY <1>5, <1>6 DEF TypeOK, LoadState, Sent, server, network, window, context, history
<1> QED BY <1>1, <1>4, <1>7 DEF g

\* A loader goes on to its next query, or is done.
LEMMA LoadedTypes ==
  ASSUME TypeOK, NEW l \in Loaders, load[l] # Idle, Loaded(l)
  PROVE  /\ load' \in [Loaders -> LoadState]
         /\ \A k \in Loaders \ {l} : load'[k] = load[k]
         /\ load'[l].got = None
         /\ load'[l] # Idle => load[l].stage # "loans" /\ load'[l].stage \in {"payments", "loans"}
         /\ load'[l] = Idle <=> load[l].stage = "loans"
<1> DEFINE s == NextStage(l)
<1>1. load[l].stage \in LoadStages
  BY LoaderType
<1>2. s \in {"payments", "loans", "idle"} /\ (s = "idle" <=> load[l].stage = "loans")
  BY <1>1 DEF NextStage, LoadStages
<1>3. load' = [load EXCEPT ![l] = [stage |-> s, got |-> None]]
  BY DEF Loaded
<1> HIDE DEF s
<1>4. load'[l] = [stage |-> s, got |-> None] /\ \A k \in Loaders \ {l} : load'[k] = load[k]
  BY <1>3 DEF TypeOK
<1>5. [stage |-> s, got |-> None] \in LoadState
  BY <1>2 DEF LoadState, Idle, LoadStages
<1>6. load' \in [Loaders -> LoadState]
  BY <1>3, <1>5 DEF TypeOK, LoadState
<1> QED BY <1>2, <1>4, <1>6 DEF Idle

LEMMA ReturnedType ==
  ASSUME TypeOK, Facts, NEW l \in Loaders, load[l] # Idle, Returned(l)
  PROVE  page' \in PageState
<1>1. CASE l \in Calls /\ load[l].stage = "loans"
  <2>1. l \in Sent
    BY <1>1 DEF Facts, Loading
  <2> QED BY <1>1, <2>1, SettledType DEF Returned
<1>2. CASE ~(l \in Calls /\ load[l].stage = "loans")
  BY <1>2, PageType DEF Returned
<1> QED BY <1>1, <1>2

LEMMA ArriveTypes ==
  ASSUME TypeOK, Facts, NEW l \in Loaders, Arrive(l)
  PROVE  TypeOK'
<1> DEFINE g == load[l].got
<1>1. load[l] # Idle /\ g \in Snapshot /\ load[l].stage \in LoadStages
  BY LoaderType DEF Arrive
<1>2. load' \in [Loaders -> LoadState]
  BY <1>1, LoadedTypes DEF Arrive
<1>3. page' \in PageState
  BY <1>1, ReturnedType DEF Arrive
<1>4. g.ledger \subseteq Row /\ g.owed \in 0 .. Debt /\ g.balance \in 0 .. Opening
  BY <1>1 DEF Snapshot
<1>5. {[call |-> None, id |-> r.id, amt |-> r.amt] : r \in g.ledger}
        \subseteq [call : Calls \cup {None}, id : Ids, amt : Amounts]
  BY <1>4 DEF Row
<1>6. Overtaken(l) \subseteq Sent
  BY DEF Overtaken
<1> HIDE DEF g
<1>7. /\ ready' \in BOOLEAN /\ shown' \in 0 .. Opening /\ shownOwed' \in 0 .. Debt
      /\ rows' \subseteq [call : Calls \cup {None}, id : Ids, amt : Amounts]
      /\ overtaken' \subseteq Sent
  <2>1. CASE load[l].stage = "profile"
    BY <1>4, <1>6, <2>1 DEF Arrive, TypeOK, g
  <2>2. CASE load[l].stage = "payments"
    BY <1>5, <2>2 DEF Arrive, TypeOK, g
  <2>3. CASE load[l].stage = "loans"
    BY <1>4, <2>3 DEF Arrive, TypeOK, g
  <2> QED BY <1>1, <2>1, <2>2, <2>3 DEF LoadStages
<1>8. UNCHANGED <<server, network, window, want, met, failed>>
  BY DEF Arrive
<1> QED BY <1>2, <1>3, <1>7, <1>8 DEF TypeOK, LoadState, PageState, Sent, server, network, window

LEMMA LoadFailsTypes ==
  ASSUME TypeOK, Facts, NEW l \in Loaders, LoadFails(l)
  PROVE  TypeOK'
<1>1. load[l] # Idle
  BY LoaderType DEF LoadFails
<1>2. load' \in [Loaders -> LoadState]
  BY <1>1, LoadedTypes DEF LoadFails
<1>3. page' \in PageState
  BY <1>1, ReturnedType DEF LoadFails
<1>4. failed' \subseteq Sent
  BY <1>1 DEF LoadFails, TypeOK, Facts, Loading
<1>5. /\ shownOwed' \in 0 .. Debt
      /\ rows' \subseteq [call : Calls \cup {None}, id : Ids, amt : Amounts]
  BY Bounds DEF LoadFails, TypeOK
<1>6. UNCHANGED <<server, network, window, ready, shown, want, met, overtaken>>
  BY DEF LoadFails
<1> QED BY <1>2, <1>3, <1>4, <1>5, <1>6 DEF TypeOK, LoadState, PageState, Sent, server, network, window

LEMMA Beginning ==
  /\ NoPage \in PageState
  /\ [l \in Loaders |-> IF l = Restore THEN [Idle EXCEPT !.stage = "profile"] ELSE Idle]
       \in [Loaders -> LoadState]
  /\ [Idle EXCEPT !.stage = "profile"] = [stage |-> "profile", got |-> None]
<1>1. NoPage \in PageState
  <2>1. 1 \in 1 .. 3 /\ 0 \in Wants
    BY Bounds DEF Wants
  <2> QED BY <2>1 DEF NoPage, PageState
<1>2. [Idle EXCEPT !.stage = "profile"] = [stage |-> "profile", got |-> None]
  BY DEF Idle
<1>3. [stage |-> "profile", got |-> None] \in LoadState /\ Idle \in LoadState
  BY DEF LoadState, LoadStages
<1> QED BY <1>1, <1>2, <1>3

LEMMA ReloadTypes ==
  ASSUME TypeOK, Reload
  PROVE  TypeOK'
<1>1. page' \in PageState /\ load' \in [Loaders -> LoadState]
  BY Beginning DEF Reload
<1>2. shown' \in 0 .. Opening /\ shownOwed' \in 0 .. Debt
  BY Bounds DEF Reload
<1> QED BY <1>1, <1>2 DEF Reload, TypeOK, PageState, LoadState, Sent, server

LEMMA TypeStep ==
  ASSUME TypeOK, Facts, PageIsOf, [Next]_vars
  PROVE  TypeOK'
<1>1. CASE Customer
  <2>1. Submit => TypeOK'
    <3> HAVE Submit
    <3>1. PICK a \in Action : Send(a, FALSE, modal, verifying) \/ Opens(a)
      BY Submits DEF BeginsBy
    <3>2. CASE Send(a, FALSE, modal, verifying)
      BY <3>2, SendType DEF TypeOK
    <3>3. CASE Opens(a)
      BY <3>3 DEF Opens, TypeOK, Sent, server, network, context
    <3> QED BY <3>1, <3>2, <3>3
  <2> QED BY <1>1, <2>1, PageTypes, WindowTypes, ReloadTypes DEF Customer, Submit
<1>2. ASSUME NEW v \in verifying, Verified(v) \/ VerifyFails(v) PROVE TypeOK'
  <2>1. CASE Verified(v)
    BY <2>1, VerifiedSends, SendType
  <2>2. CASE VerifyFails(v)
    BY <2>2, WindowTypes
  <2> QED BY <1>2, <2>1, <2>2
<1>3. ASSUME NEW c \in Calls, Serve(c) \/ Settle(c) PROVE TypeOK'
  BY <1>3, ServeTypes, SettleTypes
<1>4. ASSUME NEW l \in Loaders, Query(l) \/ Arrive(l) \/ LoadFails(l) PROVE TypeOK'
  BY <1>4, QueryTypes, ArriveTypes, LoadFailsTypes
<1>5. CASE UNCHANGED vars
  BY <1>5 DEF TypeOK, Sent, vars, server, network, window, context, history
<1> QED BY <1>1, <1>2, <1>3, <1>4, <1>5 DEF Next

-----------------------------------------------------------------------------
(* The server, the calls and the loaders.                                  *)

LEMMA FactsFrame ==
  ASSUME Facts, UNCHANGED <<ledger, owed, call, wire, answer, waiting, failed, overtaken, load>>
  PROVE  Facts'
  BY DEF Facts, Carried, Posting, Loading, Posted, Sent

LEMMA SendKeepsFacts ==
  ASSUME TypeOK, Facts, NEW a \in Action, NEW mfa \in BOOLEAN, NEW m, NEW vs, Send(a, mfa, m, vs)
  PROVE  Facts'
<1>1. PICK c \in Calls \ Sent :
           /\ wire' = wire \cup {c} /\ waiting' = waiting \cup {c}
           /\ Sent' = Sent \cup {c}
           /\ \A d \in Sent : call'[d] = call[d]
           /\ call'[c] = [action |-> a, id |-> a.id, mfa |-> mfa]
  BY SendFacts
<1>2. UNCHANGED <<ledger, owed, answer, load, failed, overtaken>>
  BY DEF Send, server
<1>3. Carried'
  BY <1>1, <1>2 DEF Facts, Carried
<1>4. Posting'
  <2>1. \A i : Posted(i) => Posted(i)'
    BY <1>2 DEF Posted
  <2>2. \A d \in Calls : answer[d] = "OK" => d \in Sent
    BY NoneIsNot DEF Facts, Carried, Answers
  <2> QED BY <1>1, <1>2, <2>1, <2>2 DEF Facts, Posting
<1>5. Loading'
  BY <1>1, <1>2 DEF Facts, Loading, TypeOK
<1> QED BY <1>2, <1>3, <1>4, <1>5 DEF Facts

LEMMA RowAmount == \A r \in Row : r.amt \in Nat
  BY PaymentPagesAssumption DEF Row

\* One row more: the sum grows by its amount.
LEMMA PaidGrows ==
  ASSUME NEW rs, IsFiniteSet(rs), rs \subseteq Row, NEW r \in Row, r \notin rs
  PROVE  Paid(rs \cup {r}) = Paid(rs) + r.amt /\ IsFiniteSet(rs \cup {r})
<1> DEFINE f == [q \in rs |-> q.amt]
           g == [q \in rs \cup {r} |-> q.amt]
<1>1. f \in [rs -> Int] /\ g \in [rs \cup {r} -> Int] /\ g[r] = r.amt /\ \A q \in rs : g[q] = f[q]
  <2>1. \A q \in rs \cup {r} : q.amt \in Int
    BY RowAmount
  <2>2. f \in [rs -> Int]
    BY <2>1
  <2>3. g \in [rs \cup {r} -> Int]
    BY <2>1
  <2> QED BY <2>2, <2>3
<1>2. Paid(rs) = SumFunction(f) /\ Paid(rs \cup {r}) = SumFunction(g)
  BY DEF Paid
<1> HIDE DEF f, g
<1>3. SumFunction(g) = SumFunction(f) + g[r]
  BY <1>1, SumGrows
<1> QED BY <1>1, <1>2, <1>3, FS_AddElement

\* What a payment does to the ledger and the loan.
LEMMA PaymentPosts ==
  ASSUME TypeOK, Facts, NEW c \in Calls, ServePayment(c)
  PROVE  /\ c \in wire /\ c \in Sent /\ Post1(c) \in Row /\ Post1(c) \notin ledger
         /\ ledger' = ledger \cup {Post1(c)}
         /\ Post1(c).call = c /\ Post1(c).id = call[c].id
         /\ \A r \in ledger : r.call # c /\ r.id # call[c].id
         /\ owed \in Nat /\ owed' \in Nat /\ owed' <= owed
         /\ owed - owed' <= Post1(c).amt
         /\ Paid(ledger') = Paid(ledger) + Post1(c).amt /\ Paid(ledger') <= Opening
         /\ IsFiniteSet(ledger')
<1>1. c \in wire /\ c \in Sent /\ call[c].action \in Action /\ call[c].id = call[c].action.id
  BY SentType DEF ServePayment, TypeOK, Facts, Carried
<1>2. Post1(c) \in Row
  BY <1>1 DEF Post1, Row, Action
<1>3. ledger' = ledger \cup {Post1(c)}
  BY DEF ServePayment, Post1
<1>4. Post1(c).call = c /\ Post1(c).id = call[c].id /\ Post1(c).amt = call[c].action.amt
  BY <1>1 DEF Post1
<1>5. \A r \in ledger : r.call # c /\ r.id # call[c].id
  BY <1>1 DEF ServePayment, Posted, Facts, Posting
<1>6. Post1(c) \notin ledger
  BY <1>4, <1>5
<1>7. Paid(ledger \cup {Post1(c)}) = Paid(ledger) + Post1(c).amt /\ IsFiniteSet(ledger \cup {Post1(c)})
  BY <1>2, <1>6, PaidGrows DEF TypeOK, Facts, Posting
<1>8. Paid(ledger) \in Nat
  BY PaidType DEF TypeOK, Facts, Posting
<1>9. Post1(c).amt <= Balance /\ Post1(c).amt \in Nat
  BY <1>1, <1>4, PaymentPagesAssumption DEF ServePayment, Action
<1>10. Paid(ledger') <= Opening
  BY <1>3, <1>7, <1>8, <1>9, Bounds DEF Balance
<1>11. owed \in Nat /\ owed' \in Nat /\ owed' <= owed /\ owed - owed' <= Post1(c).amt
  <2>1. owed \in Nat
    BY SumsType
  <2>2. owed' = owed \/ owed' = Clamp(owed - Post1(c).amt)
    BY <1>4 DEF ServePayment
  <2> QED BY <1>9, <2>1, <2>2 DEF Clamp
<1> QED BY <1>1, <1>2, <1>3, <1>4, <1>5, <1>6, <1>7, <1>10, <1>11

LEMMA ServeKeepsFacts ==
  ASSUME TypeOK, Facts, NEW c \in Calls, Serve(c)
  PROVE  Facts'
<1>1. c \in wire /\ c \in Sent
  BY DEF Serve, ServeDuplicate, ServeRefused, ServePayment, TypeOK
<1>2. PICK a \in Answers :
        /\ Reply(c, a)
        /\ a = "STEPUP" => ServeRefused(c)
        /\ a = "OK" => ServeDuplicate(c) \/ ServePayment(c)
        /\ ServePayment(c) => a \in {"OK", "ERROR"}
        /\ ~ServePayment(c) => UNCHANGED server
  BY DEF Serve, ServeDuplicate, ServeRefused, ServePayment, Answers
<1>3. /\ wire' = wire \ {c} /\ answer'[c] = a /\ \A d \in Calls \ {c} : answer'[d] = answer[d]
      /\ UNCHANGED <<call, waiting, load, failed, overtaken>>
      /\ Sent' = Sent
  BY <1>2 DEF Reply, TypeOK, history, Sent
<1>4. a # None
  BY <1>2, NoneIsNot
<1>5. Carried'
  <2>1. c \notin wire' /\ wire' \subseteq wire
    BY <1>3
  <2>2. \A d \in Calls : answer'[d] # None => d \in Sent' \ wire'
    BY <1>1, <1>3, <2>1 DEF Facts, Carried
  <2>3. \A d \in Sent' \ wire' : answer'[d] # None
    BY <1>1, <1>3, <1>4, SentType DEF Facts, Carried
  <2> QED BY <1>3, <2>2, <2>3 DEF Facts, Carried
<1>6. CASE ServePayment(c)
  <2>1. /\ ledger' = ledger \cup {Post1(c)} /\ Post1(c).call = c /\ Post1(c).id = call[c].id
        /\ \A r \in ledger : r.call # c /\ r.id # call[c].id
        /\ owed' <= owed /\ Paid(ledger') <= Opening /\ IsFiniteSet(ledger')
    BY <1>6, PaymentPosts
  <2>2. Post1(c).kind = call[c].action.kind /\ Post1(c).amt = call[c].action.amt
    BY DEF Post1
  <2>3. a \in {"OK", "ERROR"}
    BY <1>2, <1>6
  <2>4. Posting'
    <3>1. ASSUME NEW r \in ledger'
          PROVE  /\ r.call \in Sent' \ wire'
                 /\ answer'[r.call] \in {"OK", "ERROR"}
                 /\ r.id = call'[r.call].id
                 /\ r.kind = call'[r.call].action.kind
                 /\ r.amt = call'[r.call].action.amt
      <4>1. CASE r = Post1(c)
        BY <1>1, <1>3, <2>1, <2>2, <2>3, <4>1
      <4>2. CASE r \in ledger
        BY <1>3, <2>1, <4>2, SentType DEF Facts, Posting
      <4> QED BY <2>1, <4>1, <4>2
    <3>2. \A r, s \in ledger' : r.call = s.call \/ r.id = s.id => r = s
      BY <2>1 DEF Facts, Posting
    <3>3. \A d \in Calls : answer'[d] = "OK" => Posted(call[d].id)'
      <4>1. \A i : Posted(i) => Posted(i)'
        BY <2>1 DEF Posted
      <4>2. Posted(call[c].id)'
        BY <1>3, <2>1 DEF Posted
      <4>3. \A d \in Calls : Posted(call[d].id) => Posted(call[d].id)'
        BY <1>3, <4>1
      <4> QED BY <1>3, <4>2, <4>3 DEF Facts, Posting
    <3> QED BY <2>1, <3>1, <3>2, <3>3 DEF Posting
  <2>5. Loading'
    <3>1. owed \in Nat /\ owed' \in Nat
      BY <1>6, PaymentPosts
    <3>2. ASSUME NEW l \in Loaders, load[l].got # None
          PROVE  load[l].got.owed \in Nat
      <4>1. load[l].got \in Snapshot
        BY <3>2, LoaderType
      <4> QED BY <4>1, Bounds DEF Snapshot
    <3>3. \A l \in Loaders : load[l].got # None => load[l].got.owed >= owed'
      BY <2>1, <3>1, <3>2 DEF Facts, Loading
    <3> QED BY <1>3, <2>1, <3>3 DEF Facts, Loading
  <2> QED BY <1>5, <2>1, <2>4, <2>5 DEF Facts
<1>7. CASE ~ServePayment(c)
  <2>1. UNCHANGED <<ledger, owed>>
    BY <1>2, <1>7 DEF server
  <2>2. a = "OK" => Posted(call[c].id)
    BY <1>2, <1>7 DEF ServeDuplicate
  <2>3. \A i : Posted(i)' <=> Posted(i)
    BY <2>1 DEF Posted
  <2>4. Posting'
    <3>1. \A r \in ledger : r.call # c /\ r.call \in Calls
      BY <1>1, SentType DEF Facts, Posting
    <3> QED BY <1>3, <2>1, <2>2, <2>3, <3>1 DEF Facts, Posting
  <2>5. Loading'
    BY <1>3, <2>1 DEF Facts, Loading
  <2> QED BY <1>5, <2>1, <2>4, <2>5 DEF Facts
<1> QED BY <1>6, <1>7

\* What settling a call leaves alone, and what it does.
LEMMA Settles ==
  ASSUME TypeOK, Facts, NEW c \in Calls, Settle(c)
  PROVE  /\ c \in waiting /\ c \in Sent /\ c \notin failed \cup overtaken /\ load[c] = Idle
         /\ waiting' = waiting \ {c} /\ Sent' = Sent
         /\ failed' = IF Fail(c) THEN failed \cup {c} ELSE failed
         /\ UNCHANGED <<ledger, owed, call, wire, answer, verifying, want, met, overtaken>>
         /\ ~DeliverRepaid(c) => load' = load
         /\ DeliverRepaid(c) => /\ call[c].action.kind = "loans" /\ ~Fail(c)
                                /\ load'[c] = [stage |-> "profile", got |-> None]
                                /\ \A l \in Loaders \ {c} : load'[l] = load[l]
<1>1. c \in waiting /\ c \in Sent /\ c \in Loaders
  BY DEF Settle, DeliverPaid, DeliverRepaid, DeliverError, DeliverStepUp, Fail, TypeOK, Loaders
<1>2. c \notin failed \cup overtaken /\ load[c] = Idle
  BY <1>1 DEF Facts, Loading
<1>3. /\ waiting' = waiting \ {c}
      /\ UNCHANGED <<ledger, owed, call, wire, answer, verifying, want, met, overtaken>>
  BY DEF Settle, DeliverPaid, DeliverRepaid, DeliverError, DeliverStepUp, Fail, server, window, history
<1>4. DeliverRepaid(c) => call[c].action.kind = "loans" /\ ~Fail(c)
  BY <1>1, <1>2 DEF DeliverRepaid, Fail, history
<1>5. failed' = IF Fail(c) THEN failed \cup {c} ELSE failed
  BY DEF Settle, DeliverPaid, DeliverRepaid, DeliverError, DeliverStepUp, Fail, history
<1>6. ~DeliverRepaid(c) => load' = load
  BY DEF Settle, DeliverPaid, DeliverError, DeliverStepUp, Fail
<1>7. DeliverRepaid(c) => /\ load'[c] = [stage |-> "profile", got |-> None]
                          /\ \A l \in Loaders \ {c} : load'[l] = load[l]
  BY <1>1, <1>2 DEF DeliverRepaid, TypeOK, Idle
<1> QED BY <1>1, <1>2, <1>3, <1>4, <1>5, <1>6, <1>7 DEF Sent

LEMMA SettleKeepsFacts ==
  ASSUME TypeOK, Facts, NEW c \in Calls, Settle(c)
  PROVE  Facts'
<1>1. /\ c \in waiting /\ c \in Sent /\ c \notin failed \cup overtaken /\ load[c] = Idle
      /\ waiting' = waiting \ {c} /\ Sent' = Sent
      /\ failed' \subseteq failed \cup {c}
      /\ UNCHANGED <<ledger, owed, call, wire, answer, overtaken>>
  BY Settles
<1>2. Carried' /\ Posting'
  BY <1>1 DEF Facts, Carried, Posting, Posted
<1>3. CASE DeliverRepaid(c)
  <2>1. /\ call[c].action.kind = "loans"
        /\ load'[c] = [stage |-> "profile", got |-> None]
        /\ \A l \in Loaders \ {c} : load'[l] = load[l]
    BY <1>3, Settles
  <2>2. \A d \in Calls : load'[d] # Idle => d \in Sent' \ waiting' /\ call'[d].action.kind = "loans"
    BY <1>1, <2>1 DEF Facts, Loading, Loaders
  <2>3. \A l \in Loaders : load'[l].got # None => l # c /\ load'[l] = load[l]
    BY <2>1
  <2>4. Loading'
    BY <1>1, <2>2, <2>3 DEF Facts, Loading
  <2> QED BY <1>1, <1>2, <2>4 DEF Facts
<1>4. CASE ~DeliverRepaid(c)
  <2>1. load' = load
    BY <1>4, Settles
  <2>2. Loading'
    BY <1>1, <2>1 DEF Facts, Loading
  <2> QED BY <1>1, <1>2, <2>2 DEF Facts
<1> QED BY <1>3, <1>4

LEMMA QueryKeepsFacts ==
  ASSUME TypeOK, Facts, NEW l \in Loaders, Query(l)
  PROVE  Facts'
<1> DEFINE g == [ledger |-> ledger, owed |-> owed, balance |-> Balance]
<1>1. load[l] # Idle /\ load' = [load EXCEPT ![l] = [stage |-> load[l].stage, got |-> g]]
  BY QueryTypes
<1>2. g.ledger = ledger /\ g.balance = Opening - Paid(ledger) /\ g.owed = owed
  BY DEF Balance
<1> HIDE DEF g
<1>3. load'[l].got = g /\ \A k \in Loaders \ {l} : load'[k] = load[k]
  BY <1>1 DEF TypeOK
<1>4. UNCHANGED <<ledger, owed, call, wire, answer, waiting, failed, overtaken>> /\ Sent' = Sent
  BY DEF Query, server, network, history, Sent
<1>5. Carried' /\ Posting'
  BY <1>4 DEF Facts, Carried, Posting, Posted
<1>6. ASSUME NEW k \in Loaders, load'[k].got # None
      PROVE  LET ans == load'[k].got IN /\ ans.ledger \subseteq ledger
                                        /\ ans.balance = Opening - Paid(ans.ledger)
                                        /\ ans.owed >= owed
  <2>1. CASE k = l
    BY <1>2, <1>3, <2>1, SumsType
  <2>2. CASE k # l
    BY <1>3, <1>6, <2>2 DEF Facts, Loading
  <2> QED BY <2>1, <2>2
<1>7. \A c \in Calls : load'[c] # Idle => load[c] # Idle
  BY <1>1, <1>3 DEF Loaders
<1>8. Loading'
  BY <1>4, <1>6, <1>7 DEF Facts, Loading
<1> QED BY <1>4, <1>5, <1>8 DEF Facts

\* A loader that goes on knows nothing.
LEMMA LoadedKeepsFacts ==
  ASSUME TypeOK, Facts, NEW l \in Loaders, load[l] # Idle, Loaded(l),
         UNCHANGED <<ledger, owed, call, wire, answer, waiting>>,
         failed' \subseteq failed \cup ({l} \cap Calls),
         overtaken' \subseteq Sent, overtaken' \cap waiting = {}
  PROVE  Facts'
<1>1. load'[l].got = None /\ \A k \in Loaders \ {l} : load'[k] = load[k]
  BY LoadedTypes
<1>2. Carried' /\ Posting' /\ Sent' = Sent
  BY DEF Facts, Carried, Posting, Posted, Sent
<1>3. \A c \in Calls : load'[c] # Idle => load[c] # Idle
  BY <1>1 DEF Loaders
<1>4. l \in Calls => l \notin waiting
  BY DEF Facts, Loading
<1>5. \A k \in Loaders : load'[k].got # None => load'[k] = load[k]
  BY <1>1
<1>6. Loading'
  BY <1>2, <1>3, <1>4, <1>5 DEF Facts, Loading
<1> QED BY <1>2, <1>6 DEF Facts

LEMMA ReloadKeepsFacts ==
  ASSUME TypeOK, Facts, Reload
  PROVE  Facts'
<1>1. \A l \in Loaders : load'[l] = IF l = Restore THEN [stage |-> "profile", got |-> None] ELSE Idle
  BY Beginning DEF Reload
<1>2. \A l \in Loaders : load'[l].got = None /\ (l \in Calls => load'[l] = Idle)
  BY <1>1, PaymentPagesAssumption DEF Idle
<1>3. UNCHANGED <<ledger, owed, call, wire, answer, failed>> /\ waiting' = {} /\ Sent' = Sent
  BY DEF Reload, server, Sent
<1>4. Carried' /\ Posting'
  BY <1>3 DEF Facts, Carried, Posting, Posted
<1>5. Loading'
  BY <1>2, <1>3 DEF Loading, Loaders
<1> QED BY <1>3, <1>4, <1>5 DEF Facts

LEMMA FactsStep ==
  ASSUME TypeOK, Facts, PageIsOf, [Next]_vars
  PROVE  Facts'
<1> DEFINE kept == UNCHANGED <<ledger, owed, call, wire, answer, waiting, failed, overtaken, load>>
<1>1. CASE Customer
  <2>1. Submit => Facts'
    <3> HAVE Submit
    <3>1. PICK a \in Action : Send(a, FALSE, modal, verifying) \/ Opens(a)
      BY Submits DEF BeginsBy
    <3>2. CASE Send(a, FALSE, modal, verifying)
      BY <3>2, SendKeepsFacts
    <3>3. CASE Opens(a)
      BY <3>3, FactsFrame DEF Opens, server, network
    <3> QED BY <3>1, <3>2, <3>3
  <2>2. ASSUME NEW p \in Pages, Open(p) PROVE kept
    BY <2>2 DEF Open, server, network
  <2>3. ASSUME NEW n \in Amounts, Review(n) PROVE kept
    BY <2>3 DEF Review, Turn, server, network, history
  <2>4. Back \/ Another \/ CloseWindow \/ Verify => kept
    BY DEF Back, Another, Turn, CloseWindow, Verify, server, network, history
  <2> QED BY <1>1, <2>1, <2>2, <2>3, <2>4, FactsFrame, ReloadKeepsFacts DEF Customer, Submit
<1>2. ASSUME NEW v \in verifying, Verified(v) \/ VerifyFails(v) PROVE Facts'
  <2>1. CASE Verified(v)
    BY <2>1, VerifiedSends, SendKeepsFacts
  <2>2. CASE VerifyFails(v)
    BY <2>2, FactsFrame DEF VerifyFails, server, network, history
  <2> QED BY <1>2, <2>1, <2>2
<1>3. ASSUME NEW c \in Calls, Serve(c) \/ Settle(c) PROVE Facts'
  BY <1>3, ServeKeepsFacts, SettleKeepsFacts
<1>4. ASSUME NEW l \in Loaders, Query(l) \/ Arrive(l) \/ LoadFails(l) PROVE Facts'
  <2>1. CASE Query(l)
    BY <2>1, QueryKeepsFacts
  <2>2. CASE Arrive(l)
    <3>1. overtaken' = overtaken \/ overtaken' = Overtaken(l)
      BY <2>2 DEF Arrive
    <3>2. overtaken' \subseteq Sent /\ overtaken' \cap waiting = {}
      BY <3>1 DEF Overtaken, TypeOK, Facts, Loading
    <3>3. load[l] # Idle
      BY <2>2, LoaderType DEF Arrive
    <3> QED BY <2>2, <3>2, <3>3, LoadedKeepsFacts DEF Arrive, server, network
  <2>3. CASE LoadFails(l)
    <3>1. load[l] # Idle
      BY <2>3, LoaderType DEF LoadFails
    <3>2. overtaken' \subseteq Sent /\ overtaken' \cap waiting = {}
      BY <2>3 DEF LoadFails, TypeOK, Facts, Loading
    <3> QED BY <2>3, <3>1, <3>2, LoadedKeepsFacts DEF LoadFails, server, network
  <2> QED BY <1>4, <2>1, <2>2, <2>3
<1>5. CASE UNCHANGED vars
  BY <1>5, FactsFrame DEF vars, server, network, history
<1> QED BY <1>1, <1>2, <1>3, <1>4, <1>5 DEF Next

-----------------------------------------------------------------------------
(* What a customer wants is posted once.                                   *)

LEMMA WantTypes ==
  ASSUME TypeOK
  PROVE  /\ want \in Int /\ page.from \in Int /\ page.step \in 1 .. 3
         /\ \A a \in Actions : a.want \in Int /\ a.id \in Ids /\ a.kind \in Pages
<1>1. Wants \subseteq Int
  BY Bounds DEF Wants
<1>2. page.from \in Wants /\ page.step \in 1 .. 3
  BY PageType DEF PageState
<1> QED BY <1>1, <1>2, SentType DEF TypeOK, Action

LEMMA WantedStays ==
  ASSUME TypeOK, Wanted, Actions' \subseteq Actions, want' \in {want, want + 1},
         \A a \in InWindow' : a.kind # "loans",
         \A c \in Sent' : answer'[c] = "STEPUP" => call'[c].action.kind # "loans"
  PROVE  Wanted'
<1>1. \A a \in Actions' : a.want <= want'
  BY WantTypes DEF Wanted
<1>2. \A a, b \in Actions' : a.id = b.id => /\ a.kind = b.kind
                                            /\ a.kind # "transfer" => a.want = b.want
  BY DEF Wanted
<1>3. \A a, b \in Actions' : a.want = b.want => /\ a.kind = b.kind
                                                /\ a.kind = "transfer" => a.id = b.id
  BY DEF Wanted
<1> QED BY <1>1, <1>2, <1>3 DEF Wanted

\* The page is the same, up to where the customer is on it.
SamePage ==
  /\ page'.name = page.name /\ page'.id = page.id /\ page'.from = page.from
  /\ page'.name = "transfer" /\ page'.step = 2 => page'.amt \in Amounts

LEMMA PageIsOfStays ==
  ASSUME TypeOK, PageIsOf, Actions' \subseteq Actions, want' \in {want, want + 1}, SamePage
  PROVE  PageIsOf'
<1>1. page'.from <= want'
  BY WantTypes DEF PageIsOf, SamePage
<1> QED BY <1>1 DEF PageIsOf, SamePage

LEMMA SettledPage ==
  ASSUME TypeOK, PageIsOf, NEW c \in Sent, NEW over \in BOOLEAN, Settled(c, over)
  PROVE  /\ SamePage
         /\ page'.step = page.step \/ (over /\ page'.step = 3)
         /\ over /\ OnPage(call[c].action) => page'.step = 3
<1>1. page \in PageState
  BY PageType
<1>2. CASE OnPage(call[c].action) /\ over
  <2>1. page' = [page EXCEPT !.submitting = FALSE, !.step = 3]
    BY <1>2 DEF Settled
  <2>2. /\ page'.name = page.name /\ page'.id = page.id /\ page'.from = page.from
        /\ page'.step = 3
    BY <1>1, <2>1 DEF PageState
  <2> QED BY <1>2, <2>2 DEF SamePage
<1>3. CASE OnPage(call[c].action) /\ ~over
  <2>1. page' = [page EXCEPT !.submitting = FALSE, !.step = page.step]
    BY <1>3 DEF Settled
  <2>2. /\ page'.name = page.name /\ page'.id = page.id /\ page'.from = page.from
        /\ page'.step = page.step /\ page'.amt = page.amt
    BY <1>1, <2>1 DEF PageState
  <2> QED BY <1>3, <2>2 DEF SamePage, PageIsOf
<1>4. CASE ~OnPage(call[c].action)
  BY <1>4 DEF Settled, SamePage, PageIsOf
<1> QED BY <1>2, <1>3, <1>4

LEMMA DeadStays ==
  ASSUME NEW i, Dead(i),
         \A a \in InWindow' : a.id = i => a \in InWindow
                                          \/ \E c \in Sent : call[c].id = i /\ ~Refused(c),
         \A c \in Sent' : call'[c].id = i => \/ c \in Sent /\ call[c].id = i
                                             \/ \E a \in InWindow : a.id = i,
         \A c \in Sent : Refused(c) => Refused(c)'
  PROVE  Dead(i)'
<1>1. \A a \in InWindow' : a.id # i
  BY DEF Dead
<1>2. \A c \in Sent' : call'[c].id = i => Refused(c)'
  BY DEF Dead
<1> QED BY <1>1, <1>2 DEF Dead

LEMMA PairsStay ==
  ASSUME TypeOK, Pairs, Actions' \subseteq Actions, met \subseteq met',
         \A i \in Ids : Dead(i) => Dead(i)'
  PROVE  Pairs'
  BY WantTypes DEF Pairs

\* Steps that touch no call and no loader, and begin nothing.
LEMMA QuietPairs ==
  ASSUME TypeOK, Pairs, UNCHANGED <<call, wire, answer, waiting, load>>,
         InWindow' \subseteq InWindow, met \subseteq met'
  PROVE  Pairs' /\ Actions' \subseteq Actions /\ Sent' = Sent
<1>1. Sent' = Sent /\ Actions' \subseteq Actions
  BY DEF Sent, Actions
<1>2. \A c \in Sent : Refused(c) => Refused(c)'
  BY DEF Refused, Settling
<1>3. ASSUME NEW i \in Ids, Dead(i) PROVE Dead(i)'
  BY <1>1, <1>2, <1>3, DeadStays
<1> QED BY <1>1, <1>3, PairsStay

LEMMA WantQuiet ==
  ASSUME TypeOK, WantInv, UNCHANGED <<call, wire, answer, waiting, load, want>>,
         InWindow' \subseteq InWindow, met \subseteq met',
         SamePage, page.step = 3 => page'.step = 3
  PROVE  WantInv'
<1>1. Pairs' /\ Actions' \subseteq Actions /\ Sent' = Sent
  BY QuietPairs DEF WantInv
<1>2. Wanted'
  <2>1. Wanted /\ want' \in {want, want + 1}
    BY DEF WantInv
  <2>2. \A a \in InWindow' : a.kind # "loans"
    BY <2>1 DEF Wanted
  <2>3. \A c \in Sent' : answer'[c] = "STEPUP" => call'[c].action.kind # "loans"
    BY <1>1, <2>1 DEF Wanted
  <2> QED BY <1>1, <2>1, <2>2, <2>3, WantedStays
<1>3. PageIsOf'
  BY <1>1, PageIsOfStays DEF WantInv
<1>4. Ready'
  BY <1>1 DEF WantInv, Ready, SamePage, Refused, Settling
<1> QED BY <1>1, <1>2, <1>3, <1>4 DEF WantInv

\* Steps that set out for something new.
LEMMA WantNext ==
  ASSUME TypeOK, WantInv, UNCHANGED <<call, answer>>, want' = want + 1,
         InWindow' \subseteq InWindow, PageIsOf', Pairs'
  PROVE  WantInv'
<1>1. Sent' = Sent /\ Actions' \subseteq Actions
  BY DEF Sent, Actions
<1>2. Wanted'
  BY <1>1, WantedStays DEF WantInv, Wanted
<1>3. Ready'
  <2>1. \A c \in Sent : call[c].action \in Actions
    BY DEF Actions
  <2>2. \A c \in Sent : call[c].action.want # want + 1
    BY <2>1, WantTypes DEF WantInv, Wanted
  <2> QED BY <1>1, <2>2 DEF Ready
<1> QED BY <1>2, <1>3 DEF WantInv

LEMMA UnusedIsFresh ==
  ASSUME TypeOK, Carried, NEW i \in Unused
  PROVE  i \in Ids /\ i # page.id /\ \A a \in Actions : a.id # i
<1>1. \A c \in Sent : call[c].action.id # i
  BY DEF Unused, Carried
<1>2. \A a \in InWindow : a.id # i
  BY DEF Unused, InWindow
<1> QED BY <1>1, <1>2 DEF Unused, Actions

LEMMA WantPages ==
  ASSUME TypeOK, Facts, WantInv,
         \/ \E p \in Pages : Open(p)
         \/ \E n \in Amounts : Review(n)
         \/ Back \/ Another
  PROVE  WantInv'
<1>1. page \in PageState
  BY PageType
<1>2. UNCHANGED <<call, wire, answer, waiting, modal, verifying, load, met>> /\ InWindow' = InWindow
  BY DEF Open, Review, Back, Another, Turn, network, window, history, InWindow
<1>3. Pairs' /\ Actions' \subseteq Actions
  BY <1>2, QuietPairs DEF WantInv
<1>4. ASSUME NEW p \in Pages, Open(p) PROVE WantInv'
  <2>1. PICK i \in IF p = "transfer" THEN Unused ELSE {None} :
          page' = [NoPage EXCEPT !.name = p, !.id = i, !.from = want + 1,
                                 !.step = IF p = "loans" THEN 3 ELSE 1]
    BY <1>4 DEF Open
  <2>2. page'.name = p /\ page'.id = i /\ page'.from = want + 1 /\ page'.step # 2
    BY <2>1 DEF NoPage
  <2>3. want' = want + 1
    BY <1>4 DEF Open
  <2>4. p = "transfer" => i # None /\ \A a \in Actions : a.id # i
    BY <2>1, UnusedIsFresh, NoneIsNot DEF Facts
  <2>5. p # "transfer" => i = None
    BY <2>1
  <2>6. \A a \in Actions : ~(a.want >= want + 1)
    BY WantTypes DEF WantInv, Wanted
  <2>7. PageIsOf'
    BY <1>3, <2>2, <2>3, <2>4, <2>5, <2>6, WantTypes DEF PageIsOf
  <2> QED BY <1>2, <1>3, <2>3, <2>7, WantNext
<1>5. CASE Another
  <2>1. page' = [page EXCEPT !.step = 1] /\ want' = want + 1
    BY <1>5 DEF Another
  <2>2. SamePage
    BY <1>1, <2>1 DEF PageState, SamePage
  <2>3. PageIsOf'
    BY <1>3, <2>1, <2>2, PageIsOfStays DEF WantInv
  <2> QED BY <1>2, <1>3, <2>1, <2>3, WantNext
<1>6. ASSUME NEW n \in Amounts, Review(n) PROVE WantInv'
  <2>1. page' = [page EXCEPT !.step = 2, !.amt = n] /\ page.step = 1 /\ want' = want
    BY <1>6 DEF Review, Turn, history
  <2>2. SamePage
    BY <1>1, <2>1 DEF PageState, SamePage
  <2> QED BY <1>2, <2>1, <2>2, WantQuiet
<1>7. CASE Back
  <2>1. page' = [page EXCEPT !.step = 1] /\ page.step = 2 /\ want' = want
    BY <1>7 DEF Back, Turn, history
  <2>2. SamePage
    BY <1>1, <2>1 DEF PageState, SamePage
  <2> QED BY <1>2, <2>1, <2>2, WantQuiet
<1> QED BY <1>4, <1>5, <1>6, <1>7

LEMMA WantWindow ==
  ASSUME TypeOK, WantInv, CloseWindow \/ Verify \/ \E v \in verifying : VerifyFails(v)
  PROVE  WantInv'
<1>1. UNCHANGED <<call, wire, answer, waiting, load, want, page>> /\ met \subseteq met'
  BY DEF CloseWindow, Verify, VerifyFails, network, history
<1>2. InWindow' \subseteq InWindow
  BY DEF CloseWindow, Verify, VerifyFails, InWindow
<1>3. SamePage
  BY <1>1 DEF SamePage, WantInv, PageIsOf
<1> QED BY <1>1, <1>2, <1>3, WantQuiet

LEMMA WantReload ==
  ASSUME TypeOK, Facts, WantInv, Reload
  PROVE  WantInv'
<1>1. /\ UNCHANGED <<call, wire, answer, met>> /\ want' = want + 1 /\ waiting' = {}
      /\ InWindow' = {} /\ page' = NoPage
      /\ \A c \in Calls : load'[c] = Idle
  BY PaymentPagesAssumption DEF Reload, InWindow, Loaders
<1>2. Sent' = Sent /\ Actions' \subseteq Actions
  BY <1>1 DEF Sent, Actions
<1>3. \A c \in Sent : Refused(c) => Refused(c)'
  BY <1>1 DEF Refused, Settling, Sent
<1>4. ASSUME NEW i \in Ids, Dead(i) PROVE Dead(i)'
  BY <1>1, <1>2, <1>3, <1>4, DeadStays
<1>5. Pairs'
  BY <1>1, <1>2, <1>4, PairsStay DEF WantInv
<1>6. PageIsOf'
  <2>1. page'.name = None /\ page'.id = None /\ page'.from = 0
    BY <1>1 DEF NoPage
  <2>2. 0 <= want'
    BY <1>1, Bounds DEF TypeOK, Wants
  <2> QED BY <2>1, <2>2, NoneIsNot DEF PageIsOf, Pages
<1> QED BY <1>1, <1>5, <1>6, WantNext

\* What one more action changes: a call more, or the window.
LEMMA BeginChanges ==
  ASSUME TypeOK, Facts, WantInv, NEW a \in Action, BeginsBy(a)
  PROVE  /\ \E N \in SUBSET (Calls \ Sent) :
              /\ Sent' = Sent \cup N /\ wire' = wire \cup N /\ waiting' = waiting \cup N
              /\ \A c \in N : call'[c].action = a /\ call'[c].id = a.id
         /\ \A c \in Sent : call'[c] = call[c]
         /\ UNCHANGED <<answer, load, want>>
         /\ met' = met \cup {{a.id, i} : i \in Running}
         /\ \A b \in InWindow' : b \in InWindow \/ (b = a /\ a.kind # "loans")
         /\ modal # None => a.kind = "loans"
         /\ SamePage /\ page'.step = page.step
<1>1. CASE Send(a, FALSE, modal, verifying) /\ (modal = None \/ a.kind = "loans")
  <2>1. PICK c \in Calls \ Sent :
           /\ wire' = wire \cup {c} /\ waiting' = waiting \cup {c}
           /\ Sent' = Sent \cup {c}
           /\ \A d \in Sent : call'[d] = call[d]
           /\ call'[c] = [action |-> a, id |-> a.id, mfa |-> FALSE]
    BY <1>1, SendFacts
  <2>2. /\ UNCHANGED <<answer, load, want, modal, verifying>>
        /\ met' = met \cup {{a.id, i} : i \in Running}
    BY <1>1 DEF Send, context
  <2>3. SamePage /\ page'.step = page.step
    <3>1. page' = page \/ page' = [page EXCEPT !.submitting = TRUE]
      BY <1>1 DEF Send
    <3> QED BY <3>1, PageType DEF SamePage, PageState, WantInv, PageIsOf
  <2>4. InWindow' = InWindow
    BY <2>2 DEF InWindow
  <2>5. {c} \in SUBSET (Calls \ Sent) /\ \A d \in {c} : call'[d].action = a /\ call'[d].id = a.id
    BY <2>1
  <2> QED BY <1>1, <2>1, <2>2, <2>3, <2>4, <2>5
<1>2. CASE Opens(a) /\ a.kind # "loans"
  <2>1. /\ UNCHANGED <<call, wire, waiting, answer, load, want, verifying, page>> /\ modal = None
        /\ modal' = a
        /\ met' = met \cup {{a.id, i} : i \in Running}
    BY <1>2 DEF Opens, network
  <2>2. \A b \in InWindow' : b \in InWindow \/ b = a
    BY <2>1 DEF InWindow
  <2>3. Sent' = Sent \cup {} /\ wire' = wire \cup {} /\ waiting' = waiting \cup {}
    BY <2>1 DEF Sent
  <2>4. SamePage /\ page'.step = page.step
    BY <2>1 DEF SamePage, WantInv, PageIsOf
  <2>5. {} \in SUBSET (Calls \ Sent)
    OBVIOUS
  <2> QED BY <1>2, <2>1, <2>2, <2>3, <2>4, <2>5
<1> QED BY <1>1, <1>2 DEF BeginsBy

\* An action that begins shares its id and its want only with those of its kind.
LEMMA BeginsApart ==
  ASSUME TypeOK, Facts, WantInv, NEW a \in Action, Begins(a), NEW x \in Actions
  PROVE  /\ x.want <= a.want
         /\ x.id = a.id => x.kind = "transfer" /\ a.kind = "transfer"
         /\ x.want = a.want => /\ x.kind = a.kind
                               /\ a.kind = "transfer" => x.id = a.id
<1>1. a.want = want /\ page.name = a.kind /\ page.name # None /\ want >= page.from
  BY NoneIsNot, WantTypes DEF Begins, Action, WantInv, PageIsOf
<1>2. CASE a.kind = "transfer"
  <2>1. a.id = page.id /\ page.id # None
    BY <1>1, <1>2 DEF Begins, WantInv, PageIsOf
  <2> QED BY <1>1, <1>2, <2>1 DEF WantInv, Wanted, PageIsOf
<1>3. CASE a.kind # "transfer"
  <2>1. x.id # a.id
    BY <1>3, UnusedIsFresh DEF Begins, Facts
  <2> QED BY <1>1, <1>3, <2>1 DEF WantInv, Wanted, PageIsOf
<1> QED BY <1>2, <1>3

\* What was wanted along with the action that begins is under way, or dead.
LEMMA BeginsMeets ==
  ASSUME TypeOK, Facts, WantInv, NEW a \in Action, Begins(a), modal # None => a.kind = "loans",
         NEW x \in Actions, x.want = a.want, x.id # a.id
  PROVE  x.id \in Running \/ Dead(x.id)
<1>1. a.want = want /\ page.name = a.kind /\ page.name # None /\ page.step # 3
  BY NoneIsNot DEF Begins, Action
<1>2. x.kind = a.kind /\ x.kind # "transfer"
  BY BeginsApart
<1> SUFFICES ASSUME x.id \notin Running PROVE Dead(x.id)
  OBVIOUS
<1>3. ASSUME NEW b \in InWindow, b.id = x.id PROVE FALSE
  <2>1. b.kind # "loans" /\ b.kind = x.kind
    BY <1>3, SentType DEF WantInv, Wanted
  <2>2. CASE b \in {modal} \ {None}
    BY <1>2, <2>1, <2>2
  <2>3. CASE b \in {v.action : v \in verifying}
    BY <1>3, <2>3 DEF Running
  <2> QED BY <2>2, <2>3 DEF InWindow
<1>4. ASSUME NEW c \in Sent, call[c].id = x.id PROVE Refused(c)
  <2>1. call[c].action \in Actions /\ call[c].action.id = x.id /\ c \in Calls /\ c \in Loaders
    BY <1>4, SentType DEF Actions, Facts, Carried, Loaders
  <2>2. call[c].action.want = want
    BY <1>1, <1>2, <2>1 DEF WantInv, Wanted
  <2>3. Settling(c) \/ Refused(c)
    BY <1>1, <2>2 DEF WantInv, Ready
  <2>4. ~Settling(c)
    <3>1. load[c].stage # "idle" <=> load[c] # Idle
      BY <2>1, LoaderType
    <3> QED BY <1>4, <2>1, <3>1 DEF Running, Settling
  <2> QED BY <2>3, <2>4
<1> QED BY <1>3, <1>4 DEF Dead

LEMMA WantBegins ==
  ASSUME TypeOK, Facts, WantInv, NEW a \in Action, BeginsBy(a)
  PROVE  WantInv'
<1>1. PICK N \in SUBSET (Calls \ Sent) :
         /\ Sent' = Sent \cup N /\ wire' = wire \cup N /\ waiting' = waiting \cup N
         /\ \A c \in N : call'[c].action = a /\ call'[c].id = a.id
  BY BeginChanges
<1>2. /\ \A c \in Sent : call'[c] = call[c]
      /\ UNCHANGED <<answer, load, want>>
      /\ met' = met \cup {{a.id, i} : i \in Running}
      /\ \A b \in InWindow' : b \in InWindow \/ (b = a /\ a.kind # "loans")
      /\ modal # None => a.kind = "loans"
      /\ SamePage /\ page'.step = page.step
  BY BeginChanges
<1>3. Begins(a) /\ a.want = want
  BY DEF BeginsBy, Begins
<1>4. \A x \in Actions' : x \in Actions \/ x = a
  BY <1>1, <1>2 DEF Actions
<1>5. \A x \in Actions :
        /\ x.want <= a.want
        /\ x.id = a.id => x.kind = "transfer" /\ a.kind = "transfer"
        /\ x.want = a.want => /\ x.kind = a.kind
                              /\ a.kind = "transfer" => x.id = a.id
  BY <1>3, BeginsApart
<1>6. \A c \in Sent : Refused(c) => Refused(c)'
  BY <1>1, <1>2 DEF Refused, Settling
<1>7. Wanted'
  <2>1. \A x \in Actions' : x.want <= want'
    BY <1>2, <1>3, <1>4, WantTypes DEF WantInv, Wanted
  <2>2. \A x, y \in Actions' : x.id = y.id => /\ x.kind = y.kind
                                              /\ x.kind # "transfer" => x.want = y.want
    BY <1>4, <1>5 DEF WantInv, Wanted
  <2>3. \A x, y \in Actions' : x.want = y.want => /\ x.kind = y.kind
                                                  /\ x.kind = "transfer" => x.id = y.id
    BY <1>4, <1>5 DEF WantInv, Wanted
  <2>4. \A x \in InWindow' : x.kind # "loans"
    BY <1>2 DEF WantInv, Wanted
  <2>5. \A c \in Sent' : answer'[c] = "STEPUP" => call'[c].action.kind # "loans"
    <3>1. \A c \in N : answer'[c] # "STEPUP"
      BY <1>2, NoneIsNot DEF Facts, Carried, Answers
    <3> QED BY <1>1, <1>2, <3>1 DEF WantInv, Wanted
  <2> QED BY <2>1, <2>2, <2>3, <2>4, <2>5 DEF Wanted
<1>8. PageIsOf'
  <2>1. page.name = a.kind /\ (a.kind = "transfer" => a.id = page.id)
    BY <1>3 DEF Begins
  <2>2. page.id # None => a.kind = "transfer"
    BY <2>1 DEF WantInv, PageIsOf
  <2>3. \A x \in Actions' :
          /\ page'.name # None /\ x.want >= page'.from
               => x.kind = page'.name /\ (x.kind = "transfer" => x.id = page'.id)
          /\ page'.id # None /\ x.id = page'.id => x.kind = "transfer"
    BY <1>2, <1>4, <2>1, <2>2 DEF WantInv, PageIsOf, SamePage
  <2> QED BY <1>2, <2>3 DEF WantInv, PageIsOf, SamePage
<1>9. Ready'
  <2>1. \A c \in N : Settling(c)'
    BY <1>1 DEF Settling
  <2>2. \A c \in Sent : Settling(c) => Settling(c)'
    BY <1>1, <1>2 DEF Settling
  <2>3. \A c \in Sent : call[c].action.want = want => (Settling(c) \/ Refused(c))'
    BY <1>2, <1>3, <1>6, <2>2, NoneIsNot DEF WantInv, Ready, Begins, Action
  <2> QED BY <1>1, <1>2, <2>1, <2>3 DEF Ready
<1>10. ASSUME NEW x \in Actions, x.id # a.id, Dead(x.id) PROVE Dead(x.id)'
  BY <1>1, <1>2, <1>6, <1>10, DeadStays
<1>11. Pairs'
  <2> SUFFICES ASSUME NEW x \in Actions', NEW y \in Actions', x.want = y.want, x.id # y.id
               PROVE  {x.id, y.id} \in met' \/ Dead(x.id)' \/ Dead(y.id)'
    BY DEF Pairs
  <2>1. ASSUME NEW z \in Actions, z.want = a.want, z.id # a.id
        PROVE  {a.id, z.id} \in met' \/ Dead(z.id)'
    <3>1. z.id \in Running \/ Dead(z.id)
      BY <1>2, <1>3, <2>1, BeginsMeets
    <3> QED BY <1>2, <1>10, <2>1, <3>1
  <2>2. CASE x \in Actions /\ y \in Actions
    <3>1. x.id # a.id /\ y.id # a.id
      BY <1>5, <2>2 DEF WantInv, Wanted
    <3>2. {x.id, y.id} \in met \/ Dead(x.id) \/ Dead(y.id)
      BY <2>2 DEF WantInv, Pairs
    <3> QED BY <1>2, <1>10, <2>2, <3>1, <3>2
  <2>3. CASE x = a /\ y \in Actions
    BY <2>1, <2>3
  <2>4. CASE x \in Actions /\ y = a
    <3>1. {x.id, y.id} = {y.id, x.id}
      OBVIOUS
    <3> QED BY <2>1, <2>4, <3>1
  <2> QED BY <1>4, <2>2, <2>3, <2>4
<1> QED BY <1>7, <1>8, <1>9, <1>11 DEF WantInv

LEMMA WantGoesOn ==
  ASSUME TypeOK, WantInv, want' = want, met \subseteq met', Actions' \subseteq Actions,
         \A a \in InWindow' : a.kind # "loans",
         \A c \in Sent' : answer'[c] = "STEPUP" => call'[c].action.kind # "loans",
         SamePage, Ready',
         \A i \in Ids : Dead(i) => Dead(i)'
  PROVE  WantInv'
  BY WantedStays, PageIsOfStays, PairsStay DEF WantInv

LEMMA WantVerified ==
  ASSUME TypeOK, Facts, WantInv, NEW v \in verifying, Verified(v)
  PROVE  WantInv'
<1> DEFINE a == v.action
<1>1. a \in Action /\ a \in InWindow /\ Send(a, TRUE, None, verifying \ {v})
  BY VerifiedSends DEF InWindow
<1>2. PICK c \in Calls \ Sent :
         /\ wire' = wire \cup {c} /\ waiting' = waiting \cup {c}
         /\ Sent' = Sent \cup {c}
         /\ \A d \in Sent : call'[d] = call[d]
         /\ call'[c] = [action |-> a, id |-> a.id, mfa |-> TRUE]
  BY <1>1, SendFacts
<1> HIDE DEF a
<1>3. /\ UNCHANGED <<answer, load, want>> /\ met \subseteq met'
      /\ modal' = None /\ verifying' = verifying \ {v}
  BY <1>1 DEF Send, context
<1>4. SamePage /\ page'.step = page.step
  <2>1. page' = page \/ page' = [page EXCEPT !.submitting = TRUE]
    BY <1>1 DEF Send
  <2> QED BY <2>1, PageType DEF SamePage, PageState, WantInv, PageIsOf
<1>5. InWindow' \subseteq InWindow
  BY <1>3 DEF InWindow
<1>6. Actions' \subseteq Actions
  <2>1. \A d \in Sent' : call'[d].action = a \/ (d \in Sent /\ call'[d].action = call[d].action)
    BY <1>2
  <2> QED BY <1>1, <1>5, <2>1 DEF Actions
<1>7. \A d \in Sent : (Refused(d) => Refused(d)') /\ (Settling(d) => Settling(d)')
  BY <1>2, <1>3 DEF Refused, Settling
<1>8. \A d \in Sent' : answer'[d] = "STEPUP" => call'[d].action.kind # "loans"
  <2>1. answer'[c] # "STEPUP"
    BY <1>2, <1>3, NoneIsNot DEF Facts, Carried, Answers
  <2> QED BY <1>2, <1>3, <2>1 DEF WantInv, Wanted
<1>9. Ready'
  <2>1. Settling(c)'
    BY <1>2 DEF Settling
  <2> QED BY <1>2, <1>3, <1>4, <1>7, <2>1 DEF WantInv, Ready, SamePage
<1>10. ASSUME NEW i \in Ids, Dead(i) PROVE Dead(i)'
  <2>1. \A d \in Sent' : call'[d].id = i => \/ d \in Sent /\ call[d].id = i
                                            \/ \E b \in InWindow : b.id = i
    BY <1>1, <1>2
  <2> QED BY <1>5, <1>7, <1>10, <2>1, DeadStays
<1>11. \A b \in InWindow' : b.kind # "loans"
  BY <1>5 DEF WantInv, Wanted
<1> QED BY <1>3, <1>4, <1>6, <1>8, <1>9, <1>10, <1>11, WantGoesOn

LEMMA WantServe ==
  ASSUME TypeOK, Facts, WantInv, NEW c \in Calls, Serve(c)
  PROVE  WantInv'
<1>1. c \in wire /\ c \in Sent
  BY DEF Serve, ServeDuplicate, ServeRefused, ServePayment, TypeOK
<1>2. PICK a \in Answers :
        Reply(c, a) /\ (a = "STEPUP" => call[c].action.kind # "loans")
  BY DEF Serve, ServeDuplicate, ServeRefused, ServePayment, Answers
<1>3. /\ wire' = wire \ {c} /\ answer'[c] = a /\ \A d \in Calls \ {c} : answer'[d] = answer[d]
      /\ UNCHANGED <<call, waiting, load, page, modal, verifying, want, met>>
      /\ Sent' = Sent /\ InWindow' = InWindow
  BY <1>2 DEF Reply, TypeOK, history, window, Sent, InWindow
<1>4. Actions' = Actions
  BY <1>3 DEF Actions
<1>5. \A d \in Sent : (Refused(d) => Refused(d)') /\ (Settling(d) <=> Settling(d)')
  BY <1>1, <1>3, SentType DEF Refused, Settling
<1>6. Ready'
  BY <1>3, <1>5 DEF WantInv, Ready
<1>7. \A i \in Ids : Dead(i) => Dead(i)'
  BY <1>3, <1>5, DeadStays
<1>8. \A d \in Sent' : answer'[d] = "STEPUP" => call'[d].action.kind # "loans"
  BY <1>2, <1>3, SentType DEF WantInv, Wanted
<1>9. SamePage
  BY <1>3 DEF SamePage, WantInv, PageIsOf
<1>10. \A b \in InWindow' : b.kind # "loans"
  BY <1>3 DEF WantInv, Wanted
<1> QED BY <1>3, <1>4, <1>6, <1>7, <1>8, <1>9, <1>10, WantGoesOn

\* A call of the current want is done: so is the page.
LEMMA DoneEndsPage ==
  ASSUME TypeOK, WantInv, NEW c \in Sent, call[c].action.want = want, page.name # None
  PROVE  OnPage(call[c].action)
<1>1. call[c].action \in Actions
  BY DEF Actions
<1> QED BY <1>1, WantTypes DEF WantInv, PageIsOf, OnPage

LEMMA WantSettle ==
  ASSUME TypeOK, Facts, WantInv, NEW c \in Calls, Settle(c)
  PROVE  WantInv'
<1>1. /\ c \in waiting /\ c \in Sent /\ load[c] = Idle
      /\ waiting' = waiting \ {c} /\ Sent' = Sent
      /\ UNCHANGED <<call, wire, answer, verifying, want, met>>
  BY Settles
<1>2. call[c].action \in Actions /\ call[c].action.id = call[c].id
  BY <1>1 DEF Actions, Facts, Carried
<1>3. \A d \in Sent \ {c} : load'[d] = load[d]
  BY SentType, Settles DEF Loaders
<1>4. ~Refused(c) /\ \A d \in Sent \ {c} : (Refused(d) <=> Refused(d)') /\ (Settling(d) <=> Settling(d)')
  BY <1>1, <1>3 DEF Refused, Settling
<1>5. modal' = modal \/ modal' = None \/ (modal' = call[c].action /\ answer[c] = "STEPUP")
  BY DEF Settle, DeliverPaid, DeliverRepaid, DeliverError, DeliverStepUp, Fail, window
<1>6. \A b \in InWindow' : b \in InWindow \/ (b = call[c].action /\ answer[c] = "STEPUP")
  BY <1>1, <1>5 DEF InWindow
<1>7. Actions' \subseteq Actions
  BY <1>1, <1>2, <1>6 DEF Actions
<1>8. \A b \in InWindow' : b.kind # "loans"
  BY <1>1, <1>6 DEF WantInv, Wanted
<1>9. \A i \in Ids : Dead(i) => Dead(i)'
  <2> TAKE i \in Ids
  <2> HAVE Dead(i)
  <2>1. \A d \in Sent : Refused(d) => Refused(d)'
    BY <1>4
  <2>2. \A a \in InWindow' : a.id = i => a \in InWindow \/ \E d \in Sent : call[d].id = i /\ ~Refused(d)
    BY <1>1, <1>2, <1>4, <1>6
  <2> QED BY <1>1, <2>1, <2>2, DeadStays
<1>10. CASE DeliverPaid(c) \/ Fail(c)
  <2>1. Settled(c, TRUE)
    BY <1>10 DEF DeliverPaid, Fail
  <2>2. /\ SamePage
        /\ page'.step = page.step \/ page'.step = 3
        /\ OnPage(call[c].action) => page'.step = 3
    BY <1>1, <2>1, SettledPage DEF WantInv
  <2>3. Ready'
    <3> SUFFICES ASSUME page'.name # None, page'.step # 3, NEW d \in Sent, call[d].action.want = want
                 PROVE  (Settling(d) \/ Refused(d))'
      BY <1>1 DEF Ready
    <3>1. d # c
      BY <2>2, DoneEndsPage DEF SamePage
    <3> QED BY <1>4, <2>2, <3>1 DEF WantInv, Ready, SamePage
  <2> QED BY <1>1, <1>7, <1>8, <1>9, <2>2, <2>3, WantGoesOn DEF WantInv, Wanted
<1>11. CASE DeliverRepaid(c)
  <2>1. page' = page /\ load'[c] = [stage |-> "profile", got |-> None]
    BY <1>11, Settles DEF DeliverRepaid
  <2>2. Settling(c)'
    BY <2>1 DEF Settling, Idle
  <2>3. Ready'
    BY <1>1, <1>4, <2>1, <2>2 DEF WantInv, Ready
  <2>4. SamePage
    BY <2>1 DEF SamePage, WantInv, PageIsOf
  <2> QED BY <1>1, <1>7, <1>8, <1>9, <2>3, <2>4, WantGoesOn DEF WantInv, Wanted
<1>12. CASE DeliverError(c) \/ DeliverStepUp(c)
  <2>1. Settled(c, FALSE) /\ answer[c] \in {"ERROR", "STEPUP"} /\ load' = load
    BY <1>12 DEF DeliverError, DeliverStepUp
  <2>2. SamePage /\ page'.step = page.step
    BY <1>1, <2>1, SettledPage DEF WantInv
  <2>3. Refused(c)'
    BY <1>1, <2>1, NoneIsNot DEF Refused, Settling, Facts, Carried, Answers
  <2>4. Ready'
    BY <1>1, <1>4, <2>2, <2>3 DEF WantInv, Ready, SamePage
  <2> QED BY <1>1, <1>7, <1>8, <1>9, <2>2, <2>4, WantGoesOn DEF WantInv, Wanted
<1> QED BY <1>10, <1>11, <1>12 DEF Settle

LEMMA WantLoaders ==
  ASSUME TypeOK, Facts, WantInv, NEW l \in Loaders, Query(l) \/ Arrive(l) \/ LoadFails(l)
  PROVE  WantInv'
<1>1. /\ UNCHANGED <<call, wire, answer, waiting, modal, verifying, want, met>>
      /\ Sent' = Sent /\ InWindow' = InWindow
  BY DEF Query, Arrive, LoadFails, network, window, history, Sent, InWindow
<1>2. Actions' = Actions
  BY <1>1 DEF Actions
<1>3. load[l] # Idle
  BY LoaderType DEF Query, Arrive, LoadFails
<1>4. \A k \in Loaders \ {l} : load'[k] = load[k]
  BY <1>3, LoadedTypes, QueryTypes DEF Query, Arrive, LoadFails, TypeOK
<1>5. \A d \in Sent : Refused(d) => Refused(d)'
  BY <1>1, <1>3, <1>4, SentType DEF Refused, Settling, Loaders
<1>6. \A i \in Ids : Dead(i) => Dead(i)'
  BY <1>1, <1>5, DeadStays
<1>7. \A d \in Sent : Settling(d) => Settling(d)' \/ (d = l /\ load'[l] = Idle)
  BY <1>1, <1>4, SentType DEF Settling, Loaders
<1>8. \/ load'[l] # Idle /\ page' = page
      \/ l \notin Calls /\ page' = page
      \/ l \in Sent /\ Settled(l, TRUE)
  <2>1. CASE Query(l)
    <3>1. load'[l].stage = load[l].stage /\ page' = page
      BY <2>1, QueryTypes DEF TypeOK, Query
    <3>2. load'[l] # Idle
      BY <1>3, <3>1, LoaderType DEF Idle
    <3> QED BY <3>1, <3>2
  <2>2. CASE Arrive(l) \/ LoadFails(l)
    <3>1. Loaded(l) /\ Returned(l)
      BY <2>2 DEF Arrive, LoadFails
    <3>2. load'[l] = Idle <=> load[l].stage = "loans"
      BY <1>3, <3>1, LoadedTypes
    <3>3. l \in Calls => l \in Sent
      BY <1>3 DEF Facts, Loading
    <3> QED BY <3>1, <3>2, <3>3 DEF Returned
  <2> QED BY <2>1, <2>2
<1>9. CASE page' = page /\ (load'[l] # Idle \/ l \notin Calls)
  <2>1. Ready'
    BY <1>1, <1>5, <1>7, <1>9, SentType DEF WantInv, Ready
  <2>2. SamePage
    BY <1>9 DEF SamePage, WantInv, PageIsOf
  <2> QED BY <1>1, <1>2, <1>6, <2>1, <2>2, WantGoesOn DEF WantInv, Wanted
<1>10. CASE l \in Sent /\ Settled(l, TRUE)
  <2>1. /\ SamePage
        /\ page'.step = page.step \/ page'.step = 3
        /\ OnPage(call[l].action) => page'.step = 3
    BY <1>10, SettledPage DEF WantInv
  <2>2. Ready'
    <3> SUFFICES ASSUME page'.name # None, page'.step # 3, NEW d \in Sent, call[d].action.want = want
                 PROVE  (Settling(d) \/ Refused(d))'
      BY <1>1 DEF Ready
    <3>1. d # l
      BY <2>1, DoneEndsPage DEF SamePage
    <3> QED BY <1>5, <1>7, <2>1, <3>1 DEF WantInv, Ready, SamePage
  <2> QED BY <1>1, <1>2, <1>6, <2>1, <2>2, WantGoesOn DEF WantInv, Wanted
<1> QED BY <1>8, <1>9, <1>10

LEMMA WantStep ==
  ASSUME TypeOK, Facts, WantInv, [Next]_vars
  PROVE  WantInv'
<1>1. CASE Customer
  <2>1. Submit => WantInv'
    BY Submits, WantBegins DEF WantInv
  <2> QED BY <1>1, <2>1, WantPages, WantWindow, WantReload DEF Customer, Submit
<1>2. ASSUME NEW v \in verifying, Verified(v) \/ VerifyFails(v) PROVE WantInv'
  BY <1>2, WantVerified, WantWindow
<1>3. ASSUME NEW c \in Calls, Serve(c) \/ Settle(c) PROVE WantInv'
  BY <1>3, WantServe, WantSettle
<1>4. ASSUME NEW l \in Loaders, Query(l) \/ Arrive(l) \/ LoadFails(l) PROVE WantInv'
  BY <1>4, WantLoaders
<1>5. CASE UNCHANGED vars
  <2>1. UNCHANGED <<call, wire, answer, waiting, load, want, met, page, modal, verifying>>
    BY <1>5 DEF vars, network, window, history
  <2>2. InWindow' = InWindow /\ SamePage
    BY <2>1 DEF InWindow, SamePage, WantInv, PageIsOf
  <2> QED BY <2>1, <2>2, WantQuiet
<1> QED BY <1>1, <1>2, <1>3, <1>4, <1>5 DEF Next

\* Two rows of one want had two ids, which met, or one was dead: its call was
\* answered with an error.
LEMMA PostedOnceFollows ==
  ASSUME TypeOK, Facts, WantInv
  PROVE  PostedOncePerWant
<1> SUFFICES ASSUME NEW r \in ledger, NEW s \in ledger, r # s, WantOf(r) = WantOf(s)
             PROVE  /\ {r.kind, s.kind} \cap {"transfer"} = {}
                    /\ {r.id, s.id} \in met \/ "ERROR" \in {answer[r.call], answer[s.call]}
  BY DEF PostedOncePerWant
<1> DEFINE a == call[r.call].action
           b == call[s.call].action
<1>1. /\ r.call \in Sent /\ s.call \in Sent
      /\ answer[r.call] \in {"OK", "ERROR"} /\ answer[s.call] \in {"OK", "ERROR"}
      /\ r.id # s.id
      /\ call[r.call].id = r.id /\ call[s.call].id = s.id
      /\ r.kind = a.kind /\ s.kind = b.kind
  BY DEF Facts, Posting
<1>2. a \in Actions /\ b \in Actions /\ a.id = r.id /\ b.id = s.id /\ a.want = b.want
  BY <1>1 DEF Actions, Facts, Carried, WantOf
<1> HIDE DEF a, b
<1>3. a.kind = b.kind /\ a.kind # "transfer"
  BY <1>1, <1>2 DEF WantInv, Wanted
<1>4. {r.id, s.id} \in met \/ Dead(r.id) \/ Dead(s.id)
  BY <1>1, <1>2 DEF WantInv, Pairs
<1>5. Dead(r.id) => answer[r.call] = "ERROR"
  BY <1>1 DEF Dead, Refused
<1>6. Dead(s.id) => answer[s.call] = "ERROR"
  BY <1>1 DEF Dead, Refused
<1> QED BY <1>1, <1>3, <1>4, <1>5, <1>6

-----------------------------------------------------------------------------
(* The payments that are shown.                                            *)

\* Rows stay posted, and failed calls failed.
LEMMA ShownRowsStay ==
  ASSUME ShownWasPosted, ledger \subseteq ledger', failed \subseteq failed',
         \A w \in rows' : \/ w \in rows \/ w.call \in failed'
                          \/ \E r \in ledger : r.id = w.id /\ (r.amt = w.amt \/ r.call # w.call)
  PROVE  ShownWasPosted'
  BY DEF ShownWasPosted

LEMMA RowsStep ==
  ASSUME TypeOK, Facts, PageIsOf, ShownWasPosted, [Next]_vars
  PROVE  ShownWasPosted'
<1> DEFINE kept == ledger \subseteq ledger' /\ rows' = rows /\ failed' = failed
<1>1. CASE Customer
  <2>1. Submit => kept
    <3> HAVE Submit
    <3>1. PICK a \in Action : Send(a, FALSE, modal, verifying) \/ Opens(a)
      BY Submits DEF BeginsBy
    <3> QED BY <3>1 DEF Send, Opens, server, context
  <2>2. ASSUME NEW p \in Pages, Open(p) PROVE kept
    BY <2>2 DEF Open, server, context
  <2>3. ASSUME NEW n \in Amounts, Review(n) PROVE kept
    BY <2>3 DEF Review, Turn, server, context, history
  <2>4. Back \/ Another \/ CloseWindow \/ Verify => kept
    BY DEF Back, Another, Turn, CloseWindow, Verify, server, context, history
  <2>5. Reload => rows' = {} /\ ledger' = ledger /\ failed' = failed
    BY DEF Reload, server
  <2> QED BY <1>1, <2>1, <2>2, <2>3, <2>4, <2>5, ShownRowsStay DEF Customer, Submit
<1>2. ASSUME NEW v \in verifying, Verified(v) \/ VerifyFails(v) PROVE ShownWasPosted'
  BY <1>2, ShownRowsStay DEF Verified, Send, VerifyFails, server, context, history
<1>3. ASSUME NEW c \in Calls, Serve(c) PROVE ShownWasPosted'
  BY <1>3, ShownRowsStay DEF Serve, ServeDuplicate, ServeRefused, ServePayment, Reply, server,
                             context, history
<1>4. ASSUME NEW c \in Calls, Settle(c) PROVE ShownWasPosted'
  <2> DEFINE w == [call |-> c, id |-> call[c].id, amt |-> call[c].action.amt]
  <2>1. ledger' = ledger /\ failed' = IF Fail(c) THEN failed \cup {c} ELSE failed
    BY <1>4, Settles
  <2>2. rows' = rows \/ (rows' = rows \cup {w} /\ (DeliverPaid(c) \/ Fail(c)))
    BY <1>4 DEF Settle, DeliverPaid, DeliverRepaid, DeliverError, DeliverStepUp, Fail, AddTransaction,
                AddRow, context
  <2>3. w.call = c /\ w.id = call[c].id /\ w.amt = call[c].action.amt
    OBVIOUS
  <2>4. DeliverPaid(c) => \E r \in ledger : r.id = w.id /\ (r.amt = w.amt \/ r.call # w.call)
    BY <2>3 DEF DeliverPaid, Facts, Posting, Posted
  <2> HIDE DEF w
  <2> QED BY <2>1, <2>2, <2>3, <2>4, ShownRowsStay
<1>5. ASSUME NEW l \in Loaders, Query(l) PROVE ShownWasPosted'
  BY <1>5, ShownRowsStay DEF Query, server, context, history
<1>6. ASSUME NEW l \in Loaders, Arrive(l) PROVE ShownWasPosted'
  <2>1. ledger' = ledger /\ failed' = failed
    BY <1>6 DEF Arrive, server
  <2>2. CASE load[l].stage = "payments"
    <3>1. rows' = {[call |-> None, id |-> r.id, amt |-> r.amt] : r \in load[l].got.ledger}
      BY <1>6, <2>2 DEF Arrive
    <3>2. load[l].got.ledger \subseteq ledger
      BY <1>6 DEF Arrive, Facts, Loading
    <3> QED BY <2>1, <3>1, <3>2, ShownRowsStay
  <2>3. CASE load[l].stage # "payments"
    <3>1. rows' = rows
      BY <1>6, <2>3 DEF Arrive
    <3> QED BY <2>1, <3>1, ShownRowsStay
  <2> QED BY <2>2, <2>3
<1>7. ASSUME NEW l \in Loaders, LoadFails(l) PROVE ShownWasPosted'
  BY <1>7, ShownRowsStay DEF LoadFails, server
<1>8. CASE UNCHANGED vars
  BY <1>8, ShownRowsStay DEF vars, server, context, history
<1> QED BY <1>1, <1>2, <1>3, <1>4, <1>5, <1>6, <1>7, <1>8 DEF Next

-----------------------------------------------------------------------------
(* The balance that is shown.                                              *)

LEMMA PaidOfPart ==
  ASSUME NEW qs, IsFiniteSet(qs), qs \subseteq Row, NEW rs \in SUBSET qs
  PROVE  Paid(rs) <= Paid(qs) /\ Paid(rs) \in Nat /\ Paid(qs) \in Nat
<1> DEFINE f == [r \in qs |-> r.amt]
           g == [r \in rs |-> r.amt]
<1>1. f \in [qs -> Nat] /\ g \in [rs -> Nat] /\ \A r \in rs : g[r] = f[r]
  BY RowAmount
<1>2. Paid(rs) = SumFunction(g) /\ Paid(qs) = SumFunction(f)
  BY DEF Paid
<1> HIDE DEF f, g
<1>3. SumFunction(g) <= SumFunction(f)
  BY <1>1, SumOfPart
<1> QED BY <1>2, <1>3, PaidType, FS_Subset

\* The sum of what some calls carry, k being call or call'.
AmountsOf(k, cs) == SumFunction([c \in cs |-> k[c].action.amt])

LEMMA AmountsOfPart ==
  ASSUME NEW k, NEW j, NEW ds, IsFiniteSet(ds), \A c \in ds : k[c].action.amt \in Nat,
         NEW cs \in SUBSET ds, \A c \in cs : j[c] = k[c]
  PROVE  /\ AmountsOf(j, cs) <= AmountsOf(k, ds)
         /\ AmountsOf(j, cs) \in Nat /\ AmountsOf(k, ds) \in Nat
<1> DEFINE f == [c \in ds |-> k[c].action.amt]
           g == [c \in cs |-> j[c].action.amt]
<1>1. f \in [ds -> Nat] /\ g \in [cs -> Nat] /\ \A c \in cs : g[c] = f[c]
  OBVIOUS
<1>2. AmountsOf(j, cs) = SumFunction(g) /\ AmountsOf(k, ds) = SumFunction(f)
  BY DEF AmountsOf
<1> HIDE DEF f, g
<1>3. SumFunction(g) <= SumFunction(f)
  BY <1>1, SumOfPart
<1>4. SumFunction(g) \in Nat /\ SumFunction(f) \in Nat
  BY <1>1, SumInSet, FS_Subset
<1> QED BY <1>2, <1>3, <1>4

LEMMA AmountsGrow ==
  ASSUME NEW k, NEW cs, IsFiniteSet(cs), NEW d, d \notin cs
  PROVE  (\A c \in cs \cup {d} : k[c].action.amt \in Nat)
           => AmountsOf(k, cs \cup {d}) = AmountsOf(k, cs) + k[d].action.amt
<1> DEFINE f == [c \in cs |-> k[c].action.amt]
           g == [c \in cs \cup {d} |-> k[c].action.amt]
<1>1. (\A c \in cs \cup {d} : k[c].action.amt \in Nat)
        => f \in [cs -> Int] /\ g \in [cs \cup {d} -> Int] /\ \A c \in cs : g[c] = f[c]
  <2> HAVE \A c \in cs \cup {d} : k[c].action.amt \in Nat
  <2>1. \A c \in cs \cup {d} : k[c].action.amt \in Int
    OBVIOUS
  <2> QED BY <2>1
<1>2. /\ AmountsOf(k, cs) = SumFunction(f) /\ AmountsOf(k, cs \cup {d}) = SumFunction(g)
      /\ g[d] = k[d].action.amt
  BY DEF AmountsOf
<1> HIDE DEF f, g
<1>3. f \in [cs -> Int] /\ g \in [cs \cup {d} -> Int] /\ (\A c \in cs : g[c] = f[c])
        => SumFunction(g) = SumFunction(f) + g[d]
  BY SumGrows
<1> QED BY <1>1, <1>2, <1>3

LEMMA AmountType ==
  ASSUME TypeOK
  PROVE  /\ \A c \in Sent : call[c].action.amt \in Nat
         /\ Requested(Ahead) = AmountsOf(call, Ahead)
         /\ Requested(FailedLoans) = AmountsOf(call, FailedLoans)
         /\ Ahead \subseteq Sent /\ FailedLoans \subseteq Sent
  BY SentType, PaymentPagesAssumption DEF Action, Requested, AmountsOf, Ahead, FailedLoans, TypeOK

LEMMA ShownTypes ==
  ASSUME TypeOK, Facts, ShownInv
  PROVE  /\ IsFiniteSet(Heard) /\ Heard \subseteq ledger /\ ledger \subseteq Row
         /\ IsFiniteSet(Ahead)
         /\ Paid(Heard) \in Nat /\ AmountsOf(call, Ahead) \in Nat
<1>1. IsFiniteSet(Heard) /\ Heard \subseteq ledger /\ ledger \subseteq Row
  BY FS_Subset DEF Heard, Facts, Posting, TypeOK
<1>2. IsFiniteSet(Ahead)
  <2>1. Ahead \subseteq wire /\ IsFiniteSet(wire)
    BY DEF Ahead, ShownInv
  <2> QED BY <2>1, FS_Subset
<1>3. Paid(Heard) \in Nat
  BY <1>1, PaidType
<1>4. AmountsOf(call, Ahead) \in Nat
  BY <1>2, AmountType, AmountsOfPart
<1> QED BY <1>1, <1>2, <1>3, <1>4

\* Nothing more is told, and nothing more is ahead.
LEMMA ShownStays ==
  ASSUME TypeOK, Facts, ShownInv, IsFiniteSet(wire'), shown' = shown,
         Heard' \subseteq Heard, Ahead' \subseteq Ahead, \A c \in Ahead : call'[c] = call[c],
         shown > 0 => wire' \subseteq waiting' \cup overtaken' \cup failed'
  PROVE  ShownInv'
<1>1. Paid(Heard') <= Paid(Heard) /\ Paid(Heard') \in Nat
  BY ShownTypes, PaidOfPart
<1>2. AmountsOf(call', Ahead') <= AmountsOf(call, Ahead) /\ AmountsOf(call', Ahead') \in Nat
  BY ShownTypes, AmountType, AmountsOfPart
<1>3. Requested(Ahead)' = AmountsOf(call', Ahead')
  BY DEF Requested, AmountsOf
<1>4. shown > 0 => shown + Paid(Heard) + AmountsOf(call, Ahead) <= Opening
  BY AmountType DEF ShownInv
<1>5. shown' > 0 => shown' + Paid(Heard') + Requested(Ahead)' <= Opening
  BY <1>1, <1>2, <1>3, <1>4, SumsType, ShownTypes, Bounds
<1> QED BY <1>5 DEF ShownInv

\* A row is told of or not as before.
LEMMA SameTold ==
  ASSUME NEW r, r.call \in waiting => r.call \in waiting', answer'[r.call] = answer[r.call],
         r.call \in overtaken => r.call \in overtaken',
         r.kind = "loans" => /\ load[r.call].stage = "profile"
                                  => load'[r.call].stage = "profile" \/ r.call \in failed'
                             /\ r.call \in failed => r.call \in failed',
         Untold(r)
  PROVE  Untold(r)'
  BY DEF Untold

\* Steps that touch none of this.
LEMMA ShownFrame ==
  ASSUME TypeOK, Facts, ShownInv,
         UNCHANGED <<ledger, call, wire, answer, waiting, shown, load, failed, overtaken>>
  PROVE  ShownInv'
<1>1. Heard' \subseteq Heard /\ Ahead' \subseteq Ahead
  BY DEF Heard, Untold, Ahead
<1> QED BY <1>1, ShownStays DEF ShownInv

LEMMA ShownSend ==
  ASSUME TypeOK, Facts, ShownInv, NEW a \in Action, NEW mfa \in BOOLEAN, NEW m, NEW vs,
         Send(a, mfa, m, vs)
  PROVE  ShownInv'
<1>1. PICK c \in Calls \ Sent :
           /\ wire' = wire \cup {c} /\ waiting' = waiting \cup {c}
           /\ \A d \in Sent : call'[d] = call[d]
  BY SendFacts
<1>2. UNCHANGED <<ledger, answer, load, shown, failed, overtaken>>
  BY DEF Send, server, context
<1>3. IsFiniteSet(wire')
  BY <1>1, FS_AddElement DEF ShownInv
<1>4. Heard' \subseteq Heard
  BY <1>1, <1>2 DEF Heard, Untold
<1>5. Ahead' \subseteq Ahead
  BY <1>1, <1>2 DEF Ahead, TypeOK
<1>6. \A d \in Ahead : call'[d] = call[d]
  BY <1>1, AmountType
<1> QED BY <1>1, <1>2, <1>3, <1>4, <1>5, <1>6, ShownStays DEF ShownInv

\* What the server answers without posting is about no row.
LEMMA ShownRefuses ==
  ASSUME TypeOK, Facts, ShownInv, NEW c \in Calls, Serve(c), ~ServePayment(c)
  PROVE  ShownInv'
<1>1. c \in wire
  BY DEF Serve, ServeDuplicate, ServeRefused
<1>2. PICK a \in Answers : Reply(c, a) /\ UNCHANGED server
  BY DEF Serve, ServeDuplicate, ServeRefused, Answers
<1>3. /\ wire' = wire \ {c} /\ \A d \in Calls \ {c} : answer'[d] = answer[d]
      /\ UNCHANGED <<ledger, call, waiting, shown, load, failed, overtaken>>
  BY <1>2 DEF Reply, TypeOK, context, history, server
<1>4. \A r \in ledger : r.call # c /\ r.call \in Calls
  BY <1>1, SentType DEF Facts, Posting
<1>5. Heard' \subseteq Heard
  BY <1>3, <1>4, SameTold DEF Heard
<1>6. Ahead' \subseteq Ahead
  BY <1>3 DEF Ahead
<1>7. IsFiniteSet(wire')
  BY <1>3, FS_Subset DEF ShownInv
<1> QED BY <1>3, <1>5, <1>6, <1>7, ShownStays DEF ShownInv

\* A posting is told of at once only if it was ahead: then its amount was off
\* the balance already.
LEMMA ShownPays ==
  ASSUME TypeOK, Facts, ShownInv, NEW c \in Calls, ServePayment(c)
  PROVE  ShownInv'
<1>0. PICK p \in Row : p = Post1(c)
  BY PaymentPosts
<1>1. /\ c \in wire /\ c \in Sent /\ p \in Row /\ p \notin ledger
      /\ ledger' = ledger \cup {p} /\ p.call = c
      /\ \A r \in ledger : r.call # c
  BY <1>0, PaymentPosts
<1>2. p.amt = call[c].action.amt /\ p.kind = call[c].action.kind
  BY <1>0 DEF Post1
<1>3. /\ wire' = wire \ {c} /\ \A d \in Calls \ {c} : answer'[d] = answer[d]
      /\ UNCHANGED <<call, waiting, shown, load, failed, overtaken>>
  BY DEF ServePayment, Reply, TypeOK, context, history
<1>4. \A r \in ledger : r.call # c /\ r.call \in Calls
  BY <1>1, SentType DEF Facts, Posting
<1>5. Heard' \subseteq Heard \cup {p}
  BY <1>1, <1>3, <1>4, SameTold DEF Heard
<1>6. Ahead' = Ahead \ {c}
  BY <1>3 DEF Ahead
<1>7. IsFiniteSet(wire')
  BY <1>3, FS_Subset DEF ShownInv
<1>8. CASE Heard' \subseteq Heard
  BY <1>3, <1>6, <1>7, <1>8, ShownStays DEF ShownInv
<1>9. CASE shown > 0 /\ p \in Heard'
  <2>1. ~Untold(p)' /\ c \notin waiting' /\ c \notin overtaken'
    BY <1>1, <1>9 DEF Heard, Untold
  <2>2. c \in failed
    BY <1>1, <1>3, <1>9, <2>1 DEF ShownInv
  <2>3. p.kind # "loans"
    BY <1>1, <1>3, <2>1, <2>2 DEF Untold
  <2>4. c \in Ahead
    BY <1>1, <1>2, <1>3, <2>1, <2>3 DEF Ahead
  <2>5. Paid(Heard') <= Paid(Heard) + p.amt /\ Paid(Heard') \in Nat
    <3>1. Heard \cup {p} \subseteq Row /\ p \notin Heard
      BY <1>1, ShownTypes
    <3>2. Paid(Heard \cup {p}) = Paid(Heard) + p.amt /\ IsFiniteSet(Heard \cup {p})
      BY <1>1, <3>1, ShownTypes, PaidGrows
    <3>3. Paid(Heard') <= Paid(Heard \cup {p}) /\ Paid(Heard') \in Nat
      BY <1>5, <3>1, <3>2, PaidOfPart
    <3> QED BY <3>2, <3>3
  <2>6. AmountsOf(call, Ahead) = AmountsOf(call, Ahead') + p.amt /\ AmountsOf(call, Ahead') \in Nat
    <3>1. IsFiniteSet(Ahead') /\ c \notin Ahead' /\ Ahead = Ahead' \cup {c}
      BY <1>6, <2>4, ShownTypes, FS_Subset
    <3>2. \A d \in Ahead : call[d].action.amt \in Nat
      BY AmountType
    <3>3. AmountsOf(call, Ahead' \cup {c}) = AmountsOf(call, Ahead') + call[c].action.amt
      BY <3>1, <3>2, AmountsGrow
    <3>4. AmountsOf(call, Ahead') \in Nat
      BY <3>1, <3>2, AmountsOfPart
    <3> QED BY <1>2, <3>1, <3>3, <3>4
  <2>7. Requested(Ahead)' = AmountsOf(call, Ahead')
    BY <1>3 DEF Requested, AmountsOf
  <2>8. shown + Paid(Heard) + AmountsOf(call, Ahead) <= Opening
    BY <1>9, AmountType DEF ShownInv
  <2>9. p.amt \in Nat
    BY <1>1, RowAmount
  <2>10. shown' + Paid(Heard') + Requested(Ahead)' <= Opening
    BY <1>3, <2>5, <2>6, <2>7, <2>8, <2>9, SumsType, ShownTypes, Bounds
  <2> QED BY <1>3, <1>7, <2>10 DEF ShownInv
<1>10. CASE ~(shown > 0)
  BY <1>3, <1>7, <1>10 DEF ShownInv
<1> QED BY <1>5, <1>8, <1>9, <1>10

\* A payment that is added to the tab is cut off its balance, whether it is told
\* of now, or ahead, or nothing has been posted.
LEMMA ShownAdds ==
  ASSUME TypeOK, Facts, ShownInv, NEW c \in Sent, AddTransaction(c),
         waiting' = waiting \ {c}, failed \subseteq failed', c \in wire => c \in failed',
         c \in waiting, UNCHANGED <<ledger, call, wire, answer, load, overtaken>>
  PROVE  ShownInv'
<1> DEFINE amt == call[c].action.amt
           cost == Total(call[c].action)
<1>1. /\ shown' = Clamp(shown - cost) /\ cost \in Nat /\ cost >= amt /\ amt \in Nat
  BY AddTypes, AmountType
<1>2. shown' > 0 => shown > 0 /\ shown' = shown - cost
  BY <1>1, SumsType DEF Clamp
<1>3. /\ IsFiniteSet(wire')
      /\ shown > 0 => wire' \subseteq waiting' \cup overtaken' \cup failed'
  BY DEF ShownInv
<1>4. shown > 0 => shown + Paid(Heard) + AmountsOf(call, Ahead) <= Opening
  BY AmountType DEF ShownInv
<1>5. Requested(Ahead)' = AmountsOf(call, Ahead')
  BY DEF Requested, AmountsOf
<1>6. \A r \in ledger : r.call # c /\ Untold(r) => Untold(r)'
  BY SameTold
<1>7. Paid(Heard') + AmountsOf(call, Ahead') <= Paid(Heard) + AmountsOf(call, Ahead) + amt
      /\ Paid(Heard') \in Nat /\ AmountsOf(call, Ahead') \in Nat
  <2> HIDE DEF amt
  <2>1. CASE c \in wire
    <3>1. \A r \in ledger : r.call # c
      BY <2>1 DEF Facts, Posting
    <3>2. Heard' \subseteq Heard
      BY <1>6, <3>1 DEF Heard
    <3>3. Paid(Heard') <= Paid(Heard) /\ Paid(Heard') \in Nat
      BY <3>2, ShownTypes, PaidOfPart
    <3>4. Ahead' \subseteq Ahead \cup {c} /\ c \notin Ahead
      BY DEF Ahead
    <3>5. \A d \in Ahead \cup {c} : call[d].action.amt \in Nat
      BY AmountType
    <3>6. AmountsOf(call, Ahead \cup {c}) = AmountsOf(call, Ahead) + amt /\ IsFiniteSet(Ahead \cup {c})
      BY <3>4, <3>5, ShownTypes, AmountsGrow, FS_AddElement DEF amt
    <3>7. AmountsOf(call, Ahead') <= AmountsOf(call, Ahead \cup {c}) /\ AmountsOf(call, Ahead') \in Nat
      BY <3>4, <3>5, <3>6, AmountsOfPart
    <3> QED BY <1>1, <3>3, <3>6, <3>7, ShownTypes
  <2>2. CASE c \notin wire
    <3>1. Ahead' = Ahead
      BY <2>2 DEF Ahead
    <3>2. CASE \A r \in ledger : r.call # c
      <4>1. Heard' \subseteq Heard
        BY <1>6, <3>2 DEF Heard
      <4> QED BY <1>1, <3>1, <4>1, ShownTypes, PaidOfPart
    <3>3. ASSUME NEW r \in ledger, r.call = c
          PROVE  Paid(Heard') <= Paid(Heard) + amt /\ Paid(Heard') \in Nat
      <4>1. r.amt = amt /\ \A q \in ledger : q.call = c => q = r
        BY <3>3 DEF amt, Facts, Posting
      <4>2. Heard' \subseteq Heard \cup {r}
        BY <1>6, <4>1 DEF Heard
      <4>3. r \notin Heard
        BY <3>3 DEF Heard, Untold
      <4>4. Heard \cup {r} \subseteq Row /\ r \in Row
        BY ShownTypes
      <4>5. Paid(Heard \cup {r}) = Paid(Heard) + r.amt /\ IsFiniteSet(Heard \cup {r})
        BY <4>3, <4>4, ShownTypes, PaidGrows
      <4>6. Paid(Heard') <= Paid(Heard \cup {r}) /\ Paid(Heard') \in Nat
        BY <4>2, <4>4, <4>5, PaidOfPart
      <4> QED BY <4>1, <4>5, <4>6
    <3> QED BY <1>1, <3>1, <3>2, <3>3, ShownTypes
  <2> QED BY <2>1, <2>2
<1>8. shown' > 0 => shown' + Paid(Heard') + Requested(Ahead)' <= Opening
  <2> HIDE DEF amt, cost
  <2> QED BY <1>1, <1>2, <1>4, <1>5, <1>7, SumsType, ShownTypes, Bounds
<1> QED BY <1>2, <1>3, <1>8 DEF ShownInv

LEMMA ShownSettle ==
  ASSUME TypeOK, Facts, ShownInv, NEW c \in Calls, Settle(c)
  PROVE  ShownInv'
<1>1. /\ c \in waiting /\ c \in Sent /\ load[c] = Idle
      /\ waiting' = waiting \ {c}
      /\ failed' = IF Fail(c) THEN failed \cup {c} ELSE failed
      /\ UNCHANGED <<ledger, call, wire, answer, overtaken>>
      /\ ~DeliverRepaid(c) => load' = load
  BY Settles
<1>2. CASE DeliverPaid(c) \/ (Fail(c) /\ call[c].action.kind # "loans")
  <2>1. AddTransaction(c) /\ load' = load
    BY <1>2 DEF DeliverPaid, Fail
  <2>2. c \in wire => c \in failed'
    BY <1>1, <1>2, NoneIsNot DEF DeliverPaid, Facts, Carried, Answers
  <2> QED BY <1>1, <2>1, <2>2, ShownAdds
<1>3. CASE Fail(c) /\ call[c].action.kind = "loans"
  <2>1. shown' = shown /\ load' = load /\ failed' = failed \cup {c}
    BY <1>1, <1>3 DEF Fail
  <2>2. \A r \in ledger : r.call = c => Untold(r)'
    BY <1>1, <1>3, <2>1 DEF Untold, Facts, Posting
  <2>3. \A r \in ledger : r.call # c /\ Untold(r) => Untold(r)'
    BY <1>1, <2>1, SameTold
  <2>4. Heard' \subseteq Heard
    BY <1>1, <2>2, <2>3 DEF Heard
  <2>5. Ahead' \subseteq Ahead
    BY <1>1, <1>3 DEF Ahead
  <2>6. shown > 0 => wire' \subseteq waiting' \cup overtaken' \cup failed'
    BY <1>1, <2>1 DEF ShownInv
  <2> QED BY <1>1, <2>1, <2>4, <2>5, <2>6, ShownStays DEF ShownInv
<1>4. CASE DeliverRepaid(c) \/ DeliverError(c) \/ DeliverStepUp(c)
  <2>1. shown' = shown /\ failed' = failed /\ c \notin wire
    BY <1>1, <1>4, NoneIsNot DEF DeliverRepaid, DeliverError, DeliverStepUp, context, history,
                                 Facts, Carried, Answers
  <2>2. DeliverRepaid(c) => /\ load'[c].stage = "profile" /\ call[c].action.kind = "loans"
                            /\ \A l \in Loaders \ {c} : load'[l] = load[l]
    BY Settles
  <2>3. ~DeliverRepaid(c) => load' = load
    BY <1>1
  <2>4. \A r \in ledger : r.call = c => Untold(r)'
    <3> TAKE r \in ledger
    <3> HAVE r.call = c
    <3>1. r.kind = call[c].action.kind /\ answer[c] \in {"OK", "ERROR"}
      BY DEF Facts, Posting
    <3> QED BY <1>1, <1>4, <2>2, <3>1 DEF DeliverError, DeliverStepUp, Untold
  <2>5. \A r \in ledger : r.call # c /\ Untold(r) => Untold(r)'
    <3> TAKE r \in ledger
    <3> HAVE r.call # c /\ Untold(r)
    <3>1. load'[r.call] = load[r.call]
      BY <2>2, <2>3, SentType DEF Facts, Posting, Loaders
    <3> QED BY <1>1, <2>1, <3>1, SameTold
  <2>6. Heard' \subseteq Heard
    BY <1>1, <2>4, <2>5 DEF Heard
  <2>7. Ahead' \subseteq Ahead
    BY <1>1, <2>1 DEF Ahead
  <2>8. shown > 0 => wire' \subseteq waiting' \cup overtaken' \cup failed'
    BY <1>1, <2>1 DEF ShownInv
  <2> QED BY <1>1, <2>1, <2>6, <2>7, <2>8, ShownStays DEF ShownInv
<1> QED BY <1>2, <1>3, <1>4 DEF Settle

\* A balance arrives: what it does not contain is overtaken, or was not posted
\* when the server was asked.
LEMMA ShownArrives ==
  ASSUME TypeOK, Facts, ShownInv, NEW l \in Loaders, Arrive(l), load[l].stage = "profile"
  PROVE  ShownInv'
<1>1. /\ shown' = load[l].got.balance /\ overtaken' = Overtaken(l)
      /\ UNCHANGED <<ledger, call, wire, answer, waiting>>
  BY DEF Arrive, server, network
<1>2. PICK rs \in SUBSET ledger : rs = load[l].got.ledger /\ shown' = Opening - Paid(rs)
  BY <1>1 DEF Arrive, Facts, Loading
<1>3. Heard' \subseteq rs
  <2>1. ASSUME NEW r \in ledger, r \notin rs PROVE Untold(r)'
    <3>1. r.call \in Sent
      BY DEF Facts, Posting
    <3>2. \A q \in rs : q.call # r.call
      BY <2>1 DEF Facts, Posting
    <3>3. r.call \in waiting \/ r.call \in Overtaken(l)
      BY <1>2, <3>1, <3>2 DEF Overtaken
    <3> QED BY <1>1, <3>3 DEF Untold
  <2> QED BY <1>1, <2>1 DEF Heard
<1>4. wire' \subseteq waiting' \cup overtaken'
  <2>1. \A c \in wire : c \in Sent /\ \A r \in rs : r.call # c
    BY <1>2 DEF TypeOK, Facts, Posting
  <2> QED BY <1>1, <1>2, <2>1 DEF Overtaken
<1>5. Paid(Heard') <= Paid(rs) /\ Paid(Heard') \in Nat /\ Paid(rs) \in Nat
  <2>1. IsFiniteSet(rs) /\ rs \subseteq Row
    BY ShownTypes, FS_Subset DEF Facts, Posting
  <2> QED BY <1>3, <2>1, PaidOfPart
<1>6. Requested(Ahead)' = 0
  <2>1. Ahead' = {}
    BY <1>4 DEF Ahead
  <2>2. \A f : DOMAIN f = {} => SumFunction(f) = 0
    BY SumOfNone
  <2> QED BY <2>1, <2>2 DEF Requested
<1>7. shown' + Paid(Heard') + Requested(Ahead)' <= Opening
  BY <1>2, <1>5, <1>6, Bounds
<1> QED BY <1>1, <1>4, <1>7 DEF ShownInv

LEMMA ShownLoads ==
  ASSUME TypeOK, Facts, ShownInv, NEW l \in Loaders,
         \/ Query(l) \/ LoadFails(l) \/ (Arrive(l) /\ load[l].stage # "profile")
  PROVE  ShownInv'
<1>1. /\ UNCHANGED <<ledger, call, wire, answer, waiting, shown, overtaken>>
      /\ failed \subseteq failed'
  <2>1. Arrive(l) /\ load[l].stage # "profile" => shown' = shown /\ overtaken' = overtaken
    BY LoaderType DEF Arrive, LoadStages
  <2> QED BY <2>1 DEF Query, LoadFails, Arrive, server, network, context, history
<1>2. load[l] # Idle
  BY LoaderType DEF Query, LoadFails, Arrive
<1>3. \A k \in Loaders \ {l} : load'[k] = load[k]
  BY <1>2, LoadedTypes, QueryTypes DEF Query, LoadFails, Arrive, TypeOK
<1>4. load[l].stage = "profile" /\ l \in Calls => load'[l].stage = "profile" \/ l \in failed'
  BY QueryTypes DEF Query, LoadFails, TypeOK
<1>5. \A r \in ledger : Untold(r) => Untold(r)'
  <2> TAKE r \in ledger
  <2> HAVE Untold(r)
  <2>1. r.call \in Calls /\ r.call \in Loaders
    BY SentType DEF Facts, Posting, Loaders
  <2>2. load[r.call].stage = "profile" => load'[r.call].stage = "profile" \/ r.call \in failed'
    BY <1>3, <1>4, <2>1
  <2> QED BY <1>1, <2>2, SameTold
<1>6. Heard' \subseteq Heard /\ Ahead' \subseteq Ahead
  BY <1>1, <1>5 DEF Heard, Ahead
<1> QED BY <1>1, <1>6, ShownStays DEF ShownInv

LEMMA ShownStep ==
  ASSUME TypeOK, Facts, PageIsOf, ShownInv, [Next]_vars
  PROVE  ShownInv'
<1> DEFINE kept == UNCHANGED <<ledger, call, wire, answer, waiting, shown, load, failed, overtaken>>
<1>1. CASE Customer
  <2>1. Submit => ShownInv'
    <3> HAVE Submit
    <3>1. PICK a \in Action : Send(a, FALSE, modal, verifying) \/ Opens(a)
      BY Submits DEF BeginsBy
    <3>2. CASE Send(a, FALSE, modal, verifying)
      BY <3>2, ShownSend
    <3>3. CASE Opens(a)
      BY <3>3, ShownFrame DEF Opens, server, network, context
    <3> QED BY <3>1, <3>2, <3>3
  <2>2. ASSUME NEW p \in Pages, Open(p) PROVE kept
    BY <2>2 DEF Open, server, network, context
  <2>3. ASSUME NEW n \in Amounts, Review(n) PROVE kept
    BY <2>3 DEF Review, Turn, server, network, context, history
  <2>4. Back \/ Another \/ CloseWindow \/ Verify => kept
    BY DEF Back, Another, Turn, CloseWindow, Verify, server, network, context, history
  <2>5. Reload => ShownInv'
    BY DEF Reload, ShownInv
  <2> QED BY <1>1, <2>1, <2>2, <2>3, <2>4, <2>5, ShownFrame DEF Customer, Submit
<1>2. ASSUME NEW v \in verifying, Verified(v) \/ VerifyFails(v) PROVE ShownInv'
  <2>1. CASE Verified(v)
    BY <2>1, VerifiedSends, ShownSend
  <2>2. CASE VerifyFails(v)
    BY <2>2, ShownFrame DEF VerifyFails, server, network, context, history
  <2> QED BY <1>2, <2>1, <2>2
<1>3. ASSUME NEW c \in Calls, Serve(c) \/ Settle(c) PROVE ShownInv'
  BY <1>3, ShownRefuses, ShownPays, ShownSettle
<1>4. ASSUME NEW l \in Loaders, Query(l) \/ Arrive(l) \/ LoadFails(l) PROVE ShownInv'
  BY <1>4, ShownArrives, ShownLoads
<1>5. CASE UNCHANGED vars
  BY <1>5, ShownFrame DEF vars, server, network, context, history
<1> QED BY <1>1, <1>2, <1>3, <1>4, <1>5 DEF Next

LEMMA NotTooHighFollows ==
  ASSUME TypeOK, Facts, ShownInv
  PROVE  NotShownTooHigh
<1>1. Paid(Heard) <= Paid(ledger) /\ Paid(Heard) \in Nat /\ Paid(ledger) \in Nat
  BY ShownTypes, PaidOfPart DEF Facts, Posting
<1>2. shown > 0 => shown + Paid(Heard) + AmountsOf(call, Ahead) <= Opening
  BY AmountType DEF ShownInv
<1>3. shown <= Opening - Paid(Heard)
  BY <1>1, <1>2, ShownTypes, SumsType, Bounds DEF Facts
<1> QED BY <1>3 DEF NotShownTooHigh, Heard

-----------------------------------------------------------------------------
(* The debt that is shown.                                                 *)

LEMMA OwedTypes ==
  ASSUME TypeOK, OwedInv
  PROVE  /\ IsFiniteSet(FailedLoans) /\ AmountsOf(call, FailedLoans) \in Nat
         /\ shownOwed > 0 => owed <= shownOwed + AmountsOf(call, FailedLoans)
<1>1. IsFiniteSet(FailedLoans)
  <2>1. FailedLoans \subseteq failed /\ IsFiniteSet(failed)
    BY DEF FailedLoans, OwedInv
  <2> QED BY <2>1, FS_Subset
<1>2. AmountsOf(call, FailedLoans) \in Nat
  BY <1>1, AmountType, AmountsOfPart
<1> QED BY <1>1, <1>2, AmountType DEF OwedInv

\* The debt does not grow; what is shown stays; more calls may have failed.
LEMMA OwedStays ==
  ASSUME TypeOK, TypeOK', OwedInv, owed' <= owed, shownOwed' = shownOwed \/ shownOwed' = 0,
         failed \subseteq failed', IsFiniteSet(failed'), \A c \in failed : call'[c] = call[c]
  PROVE  OwedInv'
<1>1. FailedLoans \subseteq FailedLoans'
  BY DEF FailedLoans
<1>2. IsFiniteSet(FailedLoans')
  <2>1. FailedLoans' \subseteq failed'
    BY DEF FailedLoans
  <2> QED BY <2>1, FS_Subset
<1>3. \A c \in FailedLoans' : call'[c].action.amt \in Nat
  <2>1. FailedLoans' \subseteq Sent'
    BY DEF FailedLoans, TypeOK
  <2>2. \A c \in Sent' : call'[c].action.amt \in Nat
    BY PaymentPagesAssumption DEF TypeOK, Sent, Post, Action
  <2> QED BY <2>1, <2>2
<1>4. \A c \in FailedLoans : call[c] = call'[c]
  BY DEF FailedLoans
<1>5. /\ AmountsOf(call, FailedLoans) <= AmountsOf(call', FailedLoans')
      /\ AmountsOf(call', FailedLoans') \in Nat
  BY <1>1, <1>2, <1>3, <1>4, AmountsOfPart
<1>6. Requested(FailedLoans)' = AmountsOf(call', FailedLoans')
  BY DEF Requested, AmountsOf
<1>7. owed \in Nat /\ owed' \in Nat /\ shownOwed \in Nat
  BY Bounds DEF TypeOK
<1>8. shownOwed' > 0 => owed' <= shownOwed' + Requested(FailedLoans)'
  BY <1>5, <1>6, <1>7, OwedTypes
<1> QED BY <1>8 DEF OwedInv

\* A repayment that fails comes off the debt that is shown.
LEMMA OwedFails ==
  ASSUME TypeOK, Facts, OwedInv, NEW c \in Calls, Fail(c), call[c].action.kind = "loans"
  PROVE  OwedInv'
<1> DEFINE amt == call[c].action.amt
<1>1. /\ c \in Sent /\ c \notin failed /\ failed' = failed \cup {c}
      /\ UNCHANGED <<owed, call>>
  BY Settles DEF Settle
<1>2. shownOwed' = Clamp(shownOwed - amt) /\ amt \in Nat
  BY <1>1, AmountType DEF Fail
<1>3. FailedLoans' = FailedLoans \cup {c} /\ c \notin FailedLoans
  BY <1>1 DEF FailedLoans
<1>4. \A d \in FailedLoans \cup {c} : call[d].action.amt \in Nat
  BY <1>1, AmountType
<1>5. AmountsOf(call, FailedLoans \cup {c}) = AmountsOf(call, FailedLoans) + amt
  BY <1>3, <1>4, OwedTypes, AmountsGrow
<1>6. Requested(FailedLoans)' = AmountsOf(call, FailedLoans \cup {c})
  BY <1>1, <1>3 DEF Requested, AmountsOf
<1>7. IsFiniteSet(failed')
  BY <1>1, FS_AddElement DEF OwedInv
<1>8. shownOwed' > 0 => owed' <= shownOwed' + Requested(FailedLoans)'
  <2> HIDE DEF amt
  <2> QED BY <1>1, <1>2, <1>5, <1>6, OwedTypes, SumsType DEF Clamp
<1> QED BY <1>7, <1>8 DEF OwedInv

\* The loans arrive: the debt has not grown since the server was asked.
LEMMA OwedArrives ==
  ASSUME TypeOK, TypeOK', Facts, OwedInv, NEW l \in Loaders, Arrive(l), load[l].stage = "loans"
  PROVE  OwedInv'
<1>1. shownOwed' = load[l].got.owed /\ load[l].got.owed >= owed
  BY DEF Arrive, Facts, Loading
<1>2. UNCHANGED <<owed, call, failed>>
  BY DEF Arrive, server, network
<1>3. Requested(FailedLoans)' = AmountsOf(call, FailedLoans)
  BY <1>2 DEF Requested, AmountsOf, FailedLoans
<1>4. shownOwed' \in Nat /\ owed \in Nat
  BY SumsType, Bounds DEF TypeOK
<1>5. owed' <= shownOwed' + Requested(FailedLoans)'
  BY <1>1, <1>2, <1>3, <1>4, OwedTypes
<1> QED BY <1>2, <1>5 DEF OwedInv

LEMMA OwedStep ==
  ASSUME TypeOK, TypeOK', Facts, PageIsOf, OwedInv, [Next]_vars
  PROVE  OwedInv'
<1> DEFINE kept == UNCHANGED <<owed, call, shownOwed, failed>>
<1>0. kept => OwedInv'
  BY SumsType, OwedStays DEF OwedInv
<1>1. ASSUME NEW a \in Action, NEW mfa \in BOOLEAN, NEW m, NEW vs, Send(a, mfa, m, vs) PROVE OwedInv'
  <2>1. \A d \in failed : call'[d] = call[d]
    BY <1>1, SendFacts DEF TypeOK
  <2>2. UNCHANGED <<owed, shownOwed, failed>>
    BY <1>1 DEF Send, server, context
  <2> QED BY <2>1, <2>2, SumsType, OwedStays DEF OwedInv
<1>2. CASE Customer
  <2>1. Submit => OwedInv'
    <3> HAVE Submit
    <3>1. PICK a \in Action : Send(a, FALSE, modal, verifying) \/ Opens(a)
      BY Submits DEF BeginsBy
    <3>2. Opens(a) => kept
      BY DEF Opens, server, network, context
    <3> QED BY <1>0, <1>1, <3>1, <3>2
  <2>2. ASSUME NEW p \in Pages, Open(p) PROVE kept
    BY <2>2 DEF Open, server, network, context
  <2>3. ASSUME NEW n \in Amounts, Review(n) PROVE kept
    BY <2>3 DEF Review, Turn, server, network, context, history
  <2>4. Back \/ Another \/ CloseWindow \/ Verify => kept
    BY DEF Back, Another, Turn, CloseWindow, Verify, server, network, context, history
  <2>5. Reload => OwedInv'
    BY SumsType, OwedStays DEF Reload, server, OwedInv
  <2> QED BY <1>0, <1>2, <2>1, <2>2, <2>3, <2>4, <2>5 DEF Customer, Submit
<1>3. ASSUME NEW v \in verifying, Verified(v) \/ VerifyFails(v) PROVE OwedInv'
  <2>1. VerifyFails(v) => kept
    BY DEF VerifyFails, server, network, context, history
  <2> QED BY <1>0, <1>1, <1>3, <2>1, VerifiedSends
<1>4. ASSUME NEW c \in Calls, Serve(c) PROVE OwedInv'
  <2>1. UNCHANGED <<call, shownOwed, failed>>
    BY <1>4 DEF Serve, ServeDuplicate, ServeRefused, ServePayment, Reply, context, history
  <2>2. owed' <= owed
    BY <1>4, PaymentPosts, SumsType DEF Serve, ServeDuplicate, ServeRefused, server
  <2> QED BY <2>1, <2>2, OwedStays DEF OwedInv
<1>5. ASSUME NEW c \in Calls, Settle(c) PROVE OwedInv'
  <2>1. CASE Fail(c) /\ call[c].action.kind = "loans"
    BY <2>1, OwedFails
  <2>2. CASE ~(Fail(c) /\ call[c].action.kind = "loans")
    <3>1. UNCHANGED <<owed, call>> /\ failed' = IF Fail(c) THEN failed \cup {c} ELSE failed
      BY <1>5, Settles
    <3>2. shownOwed' = shownOwed
      BY <1>5, <2>2 DEF Settle, DeliverPaid, DeliverRepaid, DeliverError, DeliverStepUp, Fail,
                        AddTransaction, context
    <3>3. IsFiniteSet(failed')
      BY <3>1, FS_AddElement DEF OwedInv
    <3> QED BY <3>1, <3>2, <3>3, SumsType, OwedStays
  <2> QED BY <2>1, <2>2
<1>6. ASSUME NEW l \in Loaders, Query(l) PROVE OwedInv'
  BY <1>0, <1>6 DEF Query, server, network, context, history
<1>7. ASSUME NEW l \in Loaders, Arrive(l) PROVE OwedInv'
  <2>1. load[l].stage # "loans" => kept
    <3>1. load[l].stage \in LoadStages
      BY <1>7, LoaderType DEF Arrive
    <3> QED BY <1>7, <3>1 DEF Arrive, LoadStages, server, network
  <2> QED BY <1>0, <1>7, <2>1, OwedArrives
<1>8. ASSUME NEW l \in Loaders, LoadFails(l) PROVE OwedInv'
  <2>1. UNCHANGED <<owed, call>> /\ (shownOwed' = shownOwed \/ shownOwed' = 0)
    BY <1>8 DEF LoadFails, server, network
  <2>2. failed' = failed \/ failed' = failed \cup {l}
    BY <1>8 DEF LoadFails
  <2>3. IsFiniteSet(failed') /\ failed \subseteq failed'
    BY <2>2, FS_AddElement DEF OwedInv
  <2> QED BY <2>1, <2>3, SumsType, OwedStays
<1>9. CASE UNCHANGED vars
  BY <1>0, <1>9 DEF vars, server, network, context, history
<1> QED BY <1>2, <1>3, <1>4, <1>5, <1>6, <1>7, <1>8, <1>9 DEF Next

-----------------------------------------------------------------------------
(* The invariant, and what follows.                                        *)

LEMMA PayInit == Init => PayInv
<1> SUFFICES ASSUME Init PROVE PayInv
  OBVIOUS
<1>1. /\ Sent = {} /\ InWindow = {} /\ Actions = {} /\ ledger = {} /\ wire = {} /\ failed = {}
      /\ \A l \in Loaders : load[l].got = None /\ (l \in Calls => load[l] = Idle)
  BY PaymentPagesAssumption DEF Init, Sent, InWindow, Actions, Idle, Loaders
<1>2. page \in PageState /\ load \in [Loaders -> LoadState]
  BY Beginning DEF Init
<1>3. TypeOK
  <2>1. ledger \subseteq Row /\ wire \subseteq Sent /\ waiting \subseteq Sent /\ failed \subseteq Sent
        /\ overtaken \subseteq Sent /\ ready \in BOOLEAN /\ modal \in Action \cup {None}
        /\ verifying \subseteq [action : Action, from : Wants]
        /\ rows \subseteq [call : Calls \cup {None}, id : Ids, amt : Amounts]
    BY DEF Init
  <2>2. call \in [Calls -> Post \cup {None}] /\ answer \in [Calls -> Answers \cup {None}]
    BY DEF Init
  <2>3. owed \in 0 .. Debt /\ shown \in 0 .. Opening /\ shownOwed \in 0 .. Debt /\ want \in Wants
    BY Bounds DEF Init, Wants
  <2> QED BY <1>2, <2>1, <2>2, <2>3 DEF TypeOK, PageState, LoadState
<1>4. Facts
  <2>1. IsFiniteSet({}) /\ Paid({}) = 0
    <3>1. \A f : DOMAIN f = {} => SumFunction(f) = 0
      BY SumOfNone
    <3> QED BY <3>1, FS_EmptySet DEF Paid
  <2>2. Carried
    BY <1>1 DEF Init, Carried
  <2>3. Posting
    BY <1>1, <2>1, NoneIsNot DEF Init, Posting, Answers
  <2>4. Loading
    <3>1. waiting \cap (failed \cup overtaken) = {}
      BY DEF Init
    <3>2. /\ \A c \in Calls : load[c] = Idle
          /\ \A l \in Loaders : load[l].got = None
      BY <1>1 DEF Loaders
    <3> QED BY <3>1, <3>2, Zenon DEF Loading
  <2> QED BY <1>1, <2>1, <2>2, <2>3, <2>4, Bounds DEF Facts
<1>5. WantInv
  <2>1. page.name = None /\ page.id = None /\ page.from = 0 /\ want = 0
    BY DEF Init, NoPage
  <2> QED BY <1>1, <2>1, NoneIsNot DEF WantInv, Wanted, PageIsOf, Ready, Pairs, Pages
<1>6. ShownWasPosted /\ ShownInv /\ OwedInv
  BY <1>1, FS_EmptySet DEF Init, ShownWasPosted, ShownInv, OwedInv
<1> QED BY <1>3, <1>4, <1>5, <1>6 DEF PayInv

\* All that the pages, the calls and the server keep true of one another.
THEOREM PagesHold == Spec => []PayInv
<1>1. PayInv /\ [Next]_vars => PayInv'
  <2> SUFFICES ASSUME PayInv, [Next]_vars PROVE PayInv'
    OBVIOUS
  <2>1. TypeOK'
    BY TypeStep DEF PayInv, WantInv
  <2>2. Facts' /\ WantInv' /\ ShownWasPosted' /\ ShownInv'
    BY FactsStep, WantStep, RowsStep, ShownStep DEF PayInv, WantInv
  <2>3. OwedInv'
    BY <2>1, OwedStep DEF PayInv, WantInv
  <2> QED BY <2>1, <2>2, <2>3 DEF PayInv
<1> QED BY <1>1, PayInit, PTL DEF Spec

\* What a customer sets out to pay once is posted twice only if the two payments
\* were under way at one time, or one of them was answered with an error.
THEOREM OncePerWant == Spec => []PostedOncePerWant
<1>1. PayInv => PostedOncePerWant
  BY PostedOnceFollows DEF PayInv
<1> QED BY <1>1, PagesHold, PTL

\* A payment is shown as completed only if the server posted it or its call failed.
THEOREM CompletedWasPosted == Spec => []ShownWasPosted
<1>1. PayInv => ShownWasPosted
  BY DEF PayInv
<1> QED BY <1>1, PagesHold, PTL

\* The balance that is shown lacks no payment the tab has been told of.
THEOREM BalanceNotTooHigh == Spec => []NotShownTooHigh
<1>1. PayInv => NotShownTooHigh
  BY NotTooHighFollows DEF PayInv
<1> QED BY <1>1, PagesHold, PTL

\* The debt that is shown is too low by no more than the repayments whose call failed.
THEOREM DebtShown == Spec => []DebtHiddenOnlyByFailure
<1>1. PayInv => DebtHiddenOnlyByFailure
  BY DEF PayInv, OwedInv, DebtHiddenOnlyByFailure, FailedLoans
<1> QED BY <1>1, PagesHold, PTL

-----------------------------------------------------------------------------
(***************************************************************************)
(* The operator's console.                                                 *)
(***************************************************************************)

-----------------------------------------------------------------------------
(* The invariant.                                                          *)

\* How far a job is, and what that says of what it has done.
Progress ==
  /\ kind[Load] = "load"
  /\ \A j \in Jobs : kind[j] # "load"
  /\ \A j \in All :
       /\ kind[j] = Nil => stage[j] = Nil /\ told[j] = Nil
       /\ j \in done => kind[j] # Nil /\ stage[j] \notin {"sent", "published"}
       /\ stage[j] = "audit" \/ result[j] = "OK" => j \in done
       /\ stage[j] = "published" => kind[j] = "replay"
       /\ stage[j] \in {"list", "listed"} => kind[j] = "replay" /\ told[j] = "OK"
       /\ kind[j] = "replay" /\ told[j] = "OK" => stage[j] \in {"list", "listed"}
       /\ told[j] = "OK" => j \in done
       /\ kind[j] = "replay" /\ j \in done => replayed

\* Whom a click is for.
Addressed ==
  \A j \in All :
    /\ kind[j] \in Pays \cup {"freeze", "recover"} => cust[j] \in Customers
    /\ kind[j] = "freeze" => seen[j] # Nil /\ seen[j].cust = cust[j]

\* Every customer record that is displayed, was displayed when a handler that still
\* runs was rendered, or is on its way.
Kept == records \cup ({panel} \ {Nil}) \cup ({seen[j] : j \in All} \ {Nil})
          \cup UNION {got[j] : j \in All}

FreezesOf(u) == {j \in done : kind[j] = "freeze" /\ cust[j] = u}

\* Such a record is of an earlier moment: less money, and fewer freezes unless the
\* status is still that of the account.
Earlier(r) ==
  /\ r.balance <= balance[r.cust]
  /\ r.knows \subseteq FreezesOf(r.cust)
  /\ FreezesOf(r.cust) \subseteq r.knows => r.frozen = frozen[r.cust]

\* What a deposit or a loan adds to the panel that its handler keeps is there.
Credited(j) ==
  kind[j] \in Pays /\ j \in done /\ seen[j] # Nil /\ seen[j].cust = cust[j]
    => seen[j].balance + 1 <= balance[cust[j]]

\* A freeze that found all others done decides the status.
LastFreeze(j) ==
  kind[j] = "freeze" /\ j \in done /\ FreezesOf(cust[j]) \subseteq seen[j].knows \cup {j}
    => frozen[cust[j]] = freeze[j]

RecordsInv ==
  /\ \A r \in Kept : Earlier(r)
  /\ \A j \in All : Credited(j) /\ LastFreeze(j)

\* The replays.  As long as each was told to have succeeded and had its list, there
\* is one at most; the list is on its way, or offers the letter no more.
Replays == {j \in Jobs : kind[j] = "replay"}

AllListed == \A j \in Replays : told[j] # "ERROR" /\ j \notin unlisted

ReplayInv ==
  /\ told[Load] = Nil => Replays = {} /\ ~offered
  /\ published > 0 => \E j \in Replays : stage[j] # "sent"
  /\ AllListed =>
       /\ \A i, j \in Replays : i = j
       /\ published <= 1
       /\ \A j \in Replays : IF told[j] = Nil \/ stage[j] = "list" THEN "replay" \in busy
                                                                ELSE ~offered

\* A recovery that is under way is for the customer the panel shows, as long as it
\* has not gone to another.
LinkInv ==
  /\ \A j \in All : kind[j] = "recover" /\ told[j] = Nil /\ j \notin switched
                      => panel # Nil /\ panel.cust = cust[j]
  /\ link # Nil => kind[link] = "recover"
  /\ LinkIsOfShown

-----------------------------------------------------------------------------
(* Types.                                                                  *)

LEMMA CurrentType ==
  ASSUME DeskTypeOK, NEW u \in Customers
  PROVE  Current(u) \in Record
BY DEF DeskTypeOK, Current, Record

LEMMA ChangedType ==
  ASSUME NEW r \in Record
  PROVE  /\ [r EXCEPT !.balance = @ + 1] \in Record
         /\ \A f \in BOOLEAN, j \in All : [r EXCEPT !.frozen = f, !.knows = @ \cup {j}] \in Record
<1>1. [r EXCEPT !.balance = @ + 1] \in Record
  BY DEF Record
<1>2. ASSUME NEW f \in BOOLEAN, NEW j \in All
      PROVE  [r EXCEPT !.frozen = f, !.knows = @ \cup {j}] \in Record
  <2>1. r.knows \cup {j} \subseteq All
    BY DEF Record
  <2>2. QED
    BY <2>1 DEF Record
<1>3. QED
  BY <1>1, <1>2

LEMMA ShowType ==
  ASSUME DeskTypeOK, NEW p \in Record \cup {Nil}, Show(p)
  PROVE  /\ panel' \in Record \cup {Nil} /\ link' \in All \cup {Nil}
         /\ switched' \subseteq All
BY DEF DeskTypeOK, Show, Switch, RunningJobs

LEMMA ClickType ==
  ASSUME DeskTypeOK, NEW k \in Kinds, NEW u \in Customers \cup {Nil}, NEW s \in BOOLEAN,
         NEW q \in BOOLEAN, Click(k, u, s, q),
         busy' \subseteq Kinds, freezing' \in Customers \cup {Nil}, link' \in All \cup {Nil}
  PROVE  DeskTypeOK'
BY DEF DeskTypeOK, Click, serverVars, All, Stages

LEMMA DeskInitType == DeskInit => DeskTypeOK
<1> SUFFICES ASSUME DeskInit
             PROVE  DeskTypeOK
  OBVIOUS
<1> USE DEF DeskInit
<1>1. balance \in [Customers -> Nat] /\ frozen \in [Customers -> BOOLEAN]
  OBVIOUS
<1>2. kind \in [All -> Kinds \cup {Nil}] /\ stage \in [All -> Stages \cup {Nil}]
  BY DEF Kinds, Stages
<1>3. /\ cust \in [All -> Customers \cup {Nil}] /\ seen \in [All -> Record \cup {Nil}]
      /\ result \in [All -> Results \cup {Nil}] /\ told \in [All -> Results \cup {Nil}]
      /\ got \in [All -> SUBSET Record]
  OBVIOUS
<1>4. freeze \in [All -> BOOLEAN] /\ query \in [All -> BOOLEAN]
  OBVIOUS
<1>5. QED
  BY <1>1, <1>2, <1>3, <1>4 DEF DeskTypeOK

LEMMA OperatorType ==
  ASSUME DeskTypeOK, Operator
  PROVE  DeskTypeOK'
<1> USE DEF Kinds, Pays
<1>1. ASSUME NEW q \in BOOLEAN, Lookup(q)
      PROVE  DeskTypeOK'
  <2>1. Click("search", Nil, FALSE, q) /\ "search" \in Kinds
    BY <1>1 DEF Lookup
  <2>2. busy' \subseteq Kinds /\ freezing' \in Customers \cup {Nil} /\ link' \in All \cup {Nil}
    BY <1>1 DEF Lookup, Busy, DeskTypeOK
  <2>3. QED
    BY <2>1, <2>2, ClickType
<1>2. ASSUME NEW u \in Customers, ExecuteDeposit(u) \/ IssueLoan(u)
      PROVE  DeskTypeOK'
  BY <1>2, ClickType DEF ExecuteDeposit, IssueLoan, Busy, DeskTypeOK
<1>3. CASE ToggleFreeze
  <2>1. panel \in Record
    BY <1>3 DEF ToggleFreeze, DeskTypeOK
  <2>2. panel.cust \in Customers /\ (~panel.frozen) \in BOOLEAN
    <3>1. panel.cust \in Customers /\ panel.frozen \in BOOLEAN
      BY <2>1 DEF Record
    <3>2. QED
      BY <3>1, Zenon
  <2>3. QED
    BY <1>3, <2>2, ClickType DEF ToggleFreeze, DeskTypeOK
<1>4. CASE InitiateRecovery
  <2>1. panel \in Record
    BY <1>4 DEF InitiateRecovery, DeskTypeOK
  <2>2. panel.cust \in Customers
    BY <2>1 DEF Record
  <2>3. QED
    BY <1>4, <2>2, ClickType DEF InitiateRecovery, Busy, DeskTypeOK
<1>5. CASE ReplayDlq
  BY <1>5, ClickType DEF ReplayDlq, Busy, DeskTypeOK
<1>6. ASSUME NEW r \in records, Pick(r)
      PROVE  DeskTypeOK'
  <2>1. r \in Record /\ r \in Record \cup {Nil}
    BY DEF DeskTypeOK
  <2>2. /\ panel' \in Record \cup {Nil} /\ link' \in All \cup {Nil}
        /\ switched' \subseteq All
    BY <1>6, <2>1, ShowType DEF Pick, DeskTypeOK
  <2>3. QED
    BY <1>6, <2>2 DEF Pick, DeskTypeOK, serverVars, click, route
<1>7. QED
  BY <1>1, <1>2, <1>3, <1>4, <1>5, <1>6 DEF Operator

LEMMA RouteType ==
  ASSUME DeskTypeOK, NEW j \in All, Route(j)
  PROVE  DeskTypeOK'
<1> USE DEF serverVars, click, route, screen, deskHistory, Working, Stages, Results
<1>1. stage' \in [All -> Stages \cup {Nil}] /\ result' \in [All -> Results \cup {Nil}]
  BY DEF DeskTypeOK, Route, ReadCustomers, Credit, SetStatus, IssueLink, Publish, SetReplayedAt,
         Audit, RouteFails, Finish, Proceed
<1>2. CASE ReadCustomers(j)
  <2>1. PICK matches \in SUBSET Customers : got' = [got EXCEPT ![j] = {Current(u) : u \in matches}]
    BY <1>2 DEF ReadCustomers
  <2>2. got' \in [All -> SUBSET Record]
    BY <2>1, CurrentType DEF DeskTypeOK
  <2>3. QED
    BY <1>1, <1>2, <2>2 DEF ReadCustomers, DeskTypeOK
<1>3. CASE Credit(j)
  <2>1. balance' \in [Customers -> Nat]
    <3>1. balance' = [balance EXCEPT ![cust[j]] = @ + 1] /\ balance \in [Customers -> Nat]
      BY <1>3 DEF Credit, DeskTypeOK
    <3>2. ASSUME NEW u \in Customers
          PROVE  balance'[u] \in Nat
      BY <3>1
    <3>3. QED
      BY <3>1, <3>2
  <2>2. QED
    BY <1>1, <1>3, <2>1 DEF Credit, DeskTypeOK
<1>4. CASE SetStatus(j)
  BY <1>1, <1>4 DEF SetStatus, DeskTypeOK
<1>5. CASE IssueLink(j) \/ Publish(j) \/ SetReplayedAt(j) \/ Audit(j) \/ RouteFails(j)
  <2>1. published' \in Nat /\ replayed' \in BOOLEAN
    <3>1. published \in Nat /\ replayed \in BOOLEAN
      BY DEF DeskTypeOK
    <3>2. published' = published \/ published' = published + 1
      BY <1>5 DEF IssueLink, Publish, SetReplayedAt, Audit, RouteFails
    <3>3. replayed' = replayed \/ replayed' = TRUE
      BY <1>5 DEF IssueLink, Publish, SetReplayedAt, Audit, RouteFails
    <3>4. published' \in Nat
      BY <3>1, <3>2
    <3>5. QED
      BY <3>1, <3>3, <3>4
  <2>2. done' \subseteq All /\ audited' \subseteq All
    BY <1>5 DEF IssueLink, Publish, SetReplayedAt, Audit, RouteFails, DeskTypeOK
  <2>3. UNCHANGED <<balance, frozen, got, click, told, screen, deskHistory>>
    BY <1>5 DEF IssueLink, Publish, SetReplayedAt, Audit, RouteFails
  <2>4. QED
    BY <1>1, <2>1, <2>2, <2>3 DEF DeskTypeOK
<1>6. QED
  BY <1>2, <1>3, <1>4, <1>5 DEF Route

LEMMA ChangeType ==
  ASSUME DeskTypeOK, NEW j \in All, NEW r, seen[j] # Nil => r \in Record, Change(j, r)
  PROVE  /\ panel' \in Record \cup {Nil} /\ link' \in All \cup {Nil}
         /\ switched' \subseteq All
<1>1. CASE seen[j] = Nil
  BY <1>1 DEF Change, DeskTypeOK
<1>2. CASE seen[j] # Nil
  <2>1. r \in Record \cup {Nil} /\ seen[j] \in Record \cup {Nil}
    BY <1>2 DEF DeskTypeOK
  <2>2. Show(r) \/ Show(seen[j])
    BY <1>2 DEF Change
  <2>3. QED
    BY <2>1, <2>2, ShowType
<1>3. QED
  BY <1>1, <1>2

LEMMA DeliverType ==
  ASSUME DeskTypeOK, NEW j \in All, Deliver(j) \/ (DeliverLoad /\ j = Load)
  PROVE  DeskTypeOK'
<1> USE DEF serverVars, click, route, screen, deskHistory, Working, Stages, Results
<1>1. told' \in [All -> Results \cup {Nil}] /\ busy' \subseteq Kinds /\ freezing' \in Customers \cup {Nil}
  BY DEF Deliver, DeliverLoad, DeliverCustomers, DeliverCredit, DeliverFreeze, DeliverLink, DeliverReplay,
         ListLetters, ListFails, DeliverFailure, Told, Release, DeskTypeOK
<1>2. /\ panel' \in Record \cup {Nil} /\ link' \in All \cup {Nil}
      /\ switched' \subseteq All /\ records' \subseteq Record
  <2>1. CASE DeliverCustomers(j)
    <3>1. got[j] \subseteq Record
      BY DEF DeskTypeOK
    <3>2. PICK p \in Record \cup {Nil} : Show(p)
      BY <2>1, <3>1 DEF DeliverCustomers
    <3>3. QED
      BY <2>1, <3>1, <3>2, ShowType DEF DeliverCustomers
  <2>2. CASE DeliverLoad /\ j = Load
    <3>1. got[Load] \subseteq Record
      BY <2>2 DEF DeskTypeOK
    <3>2. CASE \E r \in got[Load] : Show(r)
      <4>1. PICK p \in Record \cup {Nil} : Show(p)
        BY <3>1, <3>2
      <4>2. QED
        BY <2>2, <3>1, <4>1, ShowType DEF DeliverLoad, DeskTypeOK
    <3>3. CASE UNCHANGED <<records, panel, link, switched>>
      BY <3>3 DEF DeskTypeOK
    <3>4. QED
      BY <2>2, <3>2, <3>3 DEF DeliverLoad
  <2>3. CASE DeliverCredit(j)
    <3>1. seen[j] # Nil => [seen[j] EXCEPT !.balance = @ + 1] \in Record
      BY ChangedType DEF DeskTypeOK
    <3>2. Change(j, [seen[j] EXCEPT !.balance = @ + 1]) /\ records' = records
      BY <2>3 DEF DeliverCredit
    <3>3. QED
      BY <3>1, <3>2, ChangeType DEF DeskTypeOK
  <2>4. CASE DeliverFreeze(j)
    <3>1. seen[j] # Nil => [seen[j] EXCEPT !.frozen = freeze[j], !.knows = @ \cup {j}] \in Record
      BY ChangedType DEF DeskTypeOK
    <3>2. Change(j, [seen[j] EXCEPT !.frozen = freeze[j], !.knows = @ \cup {j}]) /\ records' = records
      BY <2>4 DEF DeliverFreeze
    <3>3. QED
      BY <3>1, <3>2, ChangeType DEF DeskTypeOK
  <2>5. CASE DeliverLink(j)
    BY <2>5 DEF DeliverLink, DeskTypeOK
  <2>6. CASE DeliverReplay(j) \/ ListLetters(j) \/ ListFails(j) \/ DeliverFailure(j)
    BY <2>6 DEF DeliverReplay, ListLetters, ListFails, DeliverFailure, DeskTypeOK
  <2>7. QED
    BY <2>1, <2>2, <2>3, <2>4, <2>5, <2>6 DEF Deliver
<1>3. stage' \in [All -> Stages \cup {Nil}] /\ offered' \in BOOLEAN
  BY DEF Deliver, DeliverLoad, DeliverCustomers, DeliverCredit, DeliverFreeze, DeliverLink, DeliverReplay,
         ListLetters, ListFails, DeliverFailure, DeskTypeOK
<1>4. unlisted' \subseteq All
  BY DEF Deliver, DeliverLoad, DeliverCustomers, DeliverCredit, DeliverFreeze, DeliverLink, DeliverReplay,
         ListLetters, ListFails, DeliverFailure, DeskTypeOK
<1>5. UNCHANGED <<serverVars, click, result, got>>
  BY DEF Deliver, DeliverLoad, DeliverCustomers, DeliverCredit, DeliverFreeze, DeliverLink, DeliverReplay,
         ListLetters, ListFails, DeliverFailure
<1>6. QED
  BY <1>1, <1>2, <1>3, <1>4, <1>5 DEF DeskTypeOK

LEMMA DeskType == DeskTypeOK /\ [DeskNext]_deskVars => DeskTypeOK'
<1>1. CASE UNCHANGED deskVars
  BY <1>1 DEF deskVars, serverVars, click, route, screen, deskHistory, DeskTypeOK
<1>2. QED
  BY <1>1, OperatorType, RouteType, DeliverType DEF DeskNext, All

-----------------------------------------------------------------------------
(* How far the jobs are.                                                   *)

LEMMA ClickProgress ==
  ASSUME DeskTypeOK, Progress, Addressed,
         NEW k \in Kinds \ {"load"}, NEW u \in Customers \cup {Nil}, NEW s, NEW q, Click(k, u, s, q),
         k \in Pays \cup {"freeze", "recover"} => u \in Customers,
         k = "freeze" => panel # Nil /\ panel.cust = u
  PROVE  Progress' /\ Addressed'
<1> USE DeskAssumption DEF Kinds, Pays, Stages, Results
<1>1. PICK i \in Jobs :
        /\ kind[i] = Nil
        /\ kind' = [kind EXCEPT ![i] = k] /\ cust' = [cust EXCEPT ![i] = u]
        /\ seen' = [seen EXCEPT ![i] = panel] /\ stage' = [stage EXCEPT ![i] = "sent"]
        /\ UNCHANGED <<done, replayed, told, result>>
  BY DEF Click, serverVars
<1>2. i \in All /\ i # Load
  BY DEF All
<1>3. /\ kind'[i] = k /\ cust'[i] = u /\ seen'[i] = panel /\ stage'[i] = "sent"
      /\ \A j \in All \ {i} : /\ kind'[j] = kind[j] /\ cust'[j] = cust[j]
                            /\ seen'[j] = seen[j] /\ stage'[j] = stage[j]
  BY <1>1, <1>2 DEF DeskTypeOK
<1>4. i \notin done /\ result[i] # "OK" /\ told[i] = Nil
  BY <1>1, <1>2 DEF Progress
<1>5. Load \in All /\ Jobs \subseteq All
  BY DEF All
<1>6. Progress'
  BY <1>1, <1>2, <1>3, <1>4, <1>5 DEF Progress
<1>7. Addressed'
  BY <1>1, <1>2, <1>3 DEF Addressed
<1>8. QED
  BY <1>6, <1>7

LEMMA OperatorProgress ==
  ASSUME DeskTypeOK, Progress, Addressed, Operator
  PROVE  Progress' /\ Addressed'
<1> USE DEF Kinds, Pays
<1>1. ASSUME NEW q \in BOOLEAN, Lookup(q)
      PROVE  Progress' /\ Addressed'
  BY <1>1, ClickProgress DEF Lookup
<1>2. ASSUME NEW u \in Customers, ExecuteDeposit(u) \/ IssueLoan(u)
      PROVE  Progress' /\ Addressed'
  BY <1>2, ClickProgress DEF ExecuteDeposit, IssueLoan
<1>3. CASE ToggleFreeze \/ InitiateRecovery
  <2>1. panel # Nil /\ panel \in Record
    BY <1>3 DEF ToggleFreeze, InitiateRecovery, DeskTypeOK
  <2>2. panel.cust \in Customers
    BY <2>1 DEF Record
  <2>3. QED
    BY <1>3, <2>1, <2>2, ClickProgress DEF ToggleFreeze, InitiateRecovery
<1>4. CASE ReplayDlq
  BY <1>4, ClickProgress DEF ReplayDlq
<1>5. ASSUME NEW r \in records, Pick(r)
      PROVE  Progress' /\ Addressed'
  BY <1>5 DEF Pick, Progress, Addressed, serverVars, click, route
<1>6. QED
  BY <1>1, <1>2, <1>3, <1>4, <1>5 DEF Operator

LEMMA RouteProgress ==
  ASSUME DeskTypeOK, Progress, Addressed, NEW j \in All, Route(j)
  PROVE  Progress' /\ Addressed'
<1> USE DeskAssumption DEF click, screen, serverVars, deskHistory, Stages, Working
<1>1. UNCHANGED <<kind, cust, freeze, seen, told>>
  BY DEF Route, ReadCustomers, Credit, SetStatus, IssueLink, Publish, SetReplayedAt, Audit, RouteFails
<1>2. \A i \in All \ {j} : stage'[i] = stage[i] /\ result'[i] = result[i] /\ (i \in done' <=> i \in done)
  BY DEF Route, ReadCustomers, Credit, SetStatus, IssueLink, Publish, SetReplayedAt, Audit, RouteFails,
         Finish, Proceed, DeskTypeOK
<1>3. (replayed => replayed') /\ done \subseteq done'
  BY DEF Route, ReadCustomers, Credit, SetStatus, IssueLink, Publish, SetReplayedAt, Audit, RouteFails
<1>4. /\ kind[j] # Nil /\ stage[j] \notin {"list", "listed"}
      /\ stage'[j] \in {"published", "audit", "answered"}
      /\ stage'[j] = "published" => kind[j] = "replay" /\ j \notin done'
      /\ stage'[j] = "audit" \/ result'[j] = "OK" => j \in done'
      /\ kind[j] = "replay" /\ j \in done' => replayed'
  <2>1. kind[j] # Nil /\ stage[j] \in {"sent", "published", "audit"}
    BY DEF Route, ReadCustomers, Credit, SetStatus, IssueLink, Publish, SetReplayedAt, Audit, RouteFails,
           Progress
  <2>2. CASE ReadCustomers(j) \/ Credit(j) \/ SetStatus(j) \/ IssueLink(j)
    BY <2>1, <2>2 DEF ReadCustomers, Credit, SetStatus, IssueLink, Proceed, Finish, DeskTypeOK, Progress, Pays
  <2>3. CASE Publish(j)
    BY <2>1, <2>3 DEF Publish, DeskTypeOK, Progress
  <2>4. CASE SetReplayedAt(j)
    BY <2>1, <2>4 DEF SetReplayedAt, Proceed, Finish, DeskTypeOK, Progress
  <2>5. CASE Audit(j) \/ RouteFails(j)
    BY <2>1, <2>5 DEF Audit, RouteFails, Finish, DeskTypeOK, Progress
  <2>6. QED
    BY <2>1, <2>2, <2>3, <2>4, <2>5 DEF Route
<1>5. Progress'
  <2>1. told[j] # "OK" \/ kind[j] # "replay"
    BY <1>4 DEF Progress
  <2>2. QED
    BY <1>1, <1>2, <1>3, <1>4, <2>1 DEF Progress
<1>6. QED
  BY <1>1, <1>5 DEF Addressed

LEMMA DeliverProgress ==
  ASSUME DeskTypeOK, Progress, Addressed, NEW j \in All, Deliver(j) \/ (DeliverLoad /\ j = Load)
  PROVE  Progress' /\ Addressed'
<1> USE DeskAssumption DEF click, route, serverVars, deskHistory, Stages, Working, Results
<1>1. UNCHANGED <<kind, cust, freeze, seen, done, replayed, result>>
  BY DEF Deliver, DeliverLoad, DeliverCustomers, DeliverCredit, DeliverFreeze, DeliverLink, DeliverReplay,
         ListLetters, ListFails, DeliverFailure
<1>2. \A i \in All \ {j} : stage'[i] = stage[i] /\ told'[i] = told[i]
  BY DEF Deliver, DeliverLoad, DeliverCustomers, DeliverCredit, DeliverFreeze, DeliverLink, DeliverReplay,
         ListLetters, ListFails, DeliverFailure, Told, DeskTypeOK
<1>3. /\ kind[j] # Nil /\ (kind[j] = "replay" /\ told'[j] = "OK" => stage'[j] \in {"list", "listed"})
      /\ stage'[j] \in {"list", "listed"} => kind[j] = "replay" /\ told'[j] = "OK"
      /\ stage'[j] = stage[j] \/ stage'[j] \in {"list", "listed"}
      /\ told'[j] = "OK" => j \in done
  <2>1. CASE DeliverCustomers(j) \/ DeliverCredit(j) \/ DeliverFreeze(j) \/ DeliverLink(j)
    BY <2>1 DEF DeliverCustomers, DeliverCredit, DeliverFreeze, DeliverLink, Due, Told, DeskTypeOK, Progress, Pays
  <2>2. CASE DeliverLoad /\ j = Load
    BY <2>2 DEF DeliverLoad, Due, Told, DeskTypeOK, Progress
  <2>3. CASE DeliverReplay(j)
    BY <2>3 DEF DeliverReplay, Due, Told, DeskTypeOK, Progress
  <2>4. CASE ListLetters(j) \/ ListFails(j)
    BY <2>4 DEF ListLetters, ListFails, DeskTypeOK, Progress
  <2>5. CASE DeliverFailure(j)
    BY <2>5 DEF DeliverFailure, Told, DeskTypeOK, Progress
  <2>6. QED
    BY <2>1, <2>2, <2>3, <2>4, <2>5 DEF Deliver
<1>4. Progress'
  BY <1>1, <1>2, <1>3 DEF Progress
<1>5. QED
  BY <1>1, <1>4 DEF Addressed

LEMMA DeskProgress ==
  DeskTypeOK /\ Progress /\ Addressed /\ [DeskNext]_deskVars => Progress' /\ Addressed'
<1>1. ASSUME Progress, Addressed, UNCHANGED deskVars
      PROVE  Progress' /\ Addressed'
  BY <1>1 DEF deskVars, serverVars, click, route, Progress, Addressed
<1>2. QED
  BY <1>1, OperatorProgress, RouteProgress, DeliverProgress DEF DeskNext, All

-----------------------------------------------------------------------------
(* The records.                                                            *)

LEMMA KeptType ==
  ASSUME DeskTypeOK
  PROVE  /\ Kept \subseteq Record
         /\ \A r \in Kept : r.cust \in Customers /\ r.balance \in Nat
<1>1. Kept \subseteq Record
  <2>1. \A j \in All : seen[j] \in Record \cup {Nil} /\ got[j] \subseteq Record
    BY DEF DeskTypeOK
  <2>2. records \subseteq Record /\ panel \in Record \cup {Nil}
    BY DEF DeskTypeOK
  <2>3. QED
    BY <2>1, <2>2 DEF Kept
<1>2. QED
  BY <1>1 DEF Record

\* What leaves the account alone, and does not finish a freeze of it.
LEMMA EarlierStays ==
  ASSUME DeskTypeOK, DeskTypeOK', NEW r \in Record, Earlier(r),
         balance[r.cust] <= balance'[r.cust], frozen'[r.cust] = frozen[r.cust],
         FreezesOf(r.cust)' = FreezesOf(r.cust)
  PROVE  Earlier(r)'
<1>1. r.cust \in Customers /\ r.balance \in Nat
  BY DEF Record
<1>2. balance[r.cust] \in Nat /\ balance'[r.cust] \in Nat
  BY <1>1 DEF DeskTypeOK
<1>3. r.balance <= balance'[r.cust]
  BY <1>1, <1>2 DEF Earlier
<1>4. QED
  BY <1>3 DEF Earlier

\* A step after which no deposit, loan or freeze is done that was not.
LEMMA RecordsStay ==
  ASSUME DeskTypeOK, DeskTypeOK', RecordsInv,
         UNCHANGED <<balance, frozen>>,
         \A r \in Kept' : r \in Kept \/ Earlier(r),
         \A j \in done : j \in done' /\ kind'[j] = kind[j] /\ cust'[j] = cust[j]
                          /\ seen'[j] = seen[j] /\ freeze'[j] = freeze[j],
         \A j \in done' \ done : kind'[j] \notin Pays \cup {"freeze"}
  PROVE  RecordsInv'
<1>1. \A u \in Customers : FreezesOf(u)' = FreezesOf(u)
  BY DEF FreezesOf
<1>2. \A r \in Kept' : r \in Record /\ r.cust \in Customers
  <2>1. \A j \in All : seen'[j] \in Record \cup {Nil} /\ got'[j] \subseteq Record
    BY DEF DeskTypeOK
  <2>2. records' \subseteq Record /\ panel' \in Record \cup {Nil}
    BY DEF DeskTypeOK
  <2>3. Kept' \subseteq Record
    BY <2>1, <2>2 DEF Kept
  <2>4. QED
    BY <2>3 DEF Record
<1>3. ASSUME NEW r \in Kept'
      PROVE  Earlier(r)'
  <2>1. Earlier(r) /\ r \in Record /\ r.cust \in Customers
    BY <1>2 DEF RecordsInv
  <2>2. balance[r.cust] \in Nat
    BY <2>1 DEF DeskTypeOK
  <2>3. QED
    BY <1>1, <2>1, <2>2, EarlierStays
<1>4. ASSUME NEW j \in All
      PROVE  Credited(j)' /\ LastFreeze(j)'
  <2>1. Credited(j) /\ LastFreeze(j)
    BY DEF RecordsInv
  <2>2. j \in done' /\ kind'[j] \in Pays \cup {"freeze"} =>
          /\ j \in done /\ kind'[j] = kind[j] /\ cust'[j] = cust[j]
          /\ seen'[j] = seen[j] /\ freeze'[j] = freeze[j]
    OBVIOUS
  <2>3. Credited(j)'
    BY <2>1, <2>2 DEF Credited
  <2>4. \A u : FreezesOf(u)' = FreezesOf(u)
    BY DEF FreezesOf
  <2>5. LastFreeze(j)'
    BY <2>1, <2>2, <2>4 DEF LastFreeze
  <2>6. QED
    BY <2>3, <2>5
<1>5. QED
  BY <1>3, <1>4 DEF RecordsInv

LEMMA OperatorRecords ==
  ASSUME DeskTypeOK, DeskTypeOK', Progress, RecordsInv, Operator
  PROVE  RecordsInv'
<1>1. ASSUME NEW k, NEW u, NEW s, NEW q, Click(k, u, s, q)
      PROVE  RecordsInv'
  <2>1. PICK i \in Jobs :
          /\ kind[i] = Nil
          /\ kind' = [kind EXCEPT ![i] = k] /\ cust' = [cust EXCEPT ![i] = u]
          /\ freeze' = [freeze EXCEPT ![i] = s] /\ seen' = [seen EXCEPT ![i] = panel]
          /\ UNCHANGED <<balance, frozen, done, got, panel, records>>
    BY <1>1 DEF Click, serverVars
  <2>2. i \in All /\ i \notin done
    BY <2>1 DEF Progress, All
  <2>3. \A j \in done : j \in done' /\ kind'[j] = kind[j] /\ cust'[j] = cust[j]
                          /\ seen'[j] = seen[j] /\ freeze'[j] = freeze[j]
    BY <2>1, <2>2 DEF DeskTypeOK
  <2>4. \A j \in All : seen'[j] = panel \/ seen'[j] = seen[j]
    BY <2>1 DEF DeskTypeOK
  <2>5. \A r \in Kept' : r \in Kept
    BY <2>1, <2>4 DEF Kept
  <2>6. QED
    BY <2>1, <2>3, <2>5, RecordsStay
<1>2. ASSUME NEW r \in records, Pick(r)
      PROVE  RecordsInv'
  <2>1. /\ panel' \in {r, panel}
        /\ UNCHANGED <<balance, frozen, done, got, records, kind, cust, freeze, seen>>
    BY <1>2 DEF Pick, Show, serverVars, click, route
  <2>2. \A p \in Kept' : p \in Kept
    BY <2>1 DEF Kept
  <2>3. QED
    BY <2>1, <2>2, RecordsStay
<1>3. QED
  BY <1>1, <1>2 DEF Operator, Lookup, ExecuteDeposit, IssueLoan, ToggleFreeze, InitiateRecovery, ReplayDlq

LEMMA RouteRecords ==
  ASSUME DeskTypeOK, DeskTypeOK', Progress, Addressed, RecordsInv, NEW j \in All, Route(j)
  PROVE  RecordsInv'
<1> USE DEF click, screen
<1>1. CASE ReadCustomers(j)
  <2>1. /\ UNCHANGED <<balance, frozen, kind, cust, freeze, seen, panel, records>>
        /\ done' = done \cup {j} /\ kind[j] \in {"search", "load"}
    BY <1>1 DEF ReadCustomers
  <2>2. PICK matches \in SUBSET Customers : got' = [got EXCEPT ![j] = {Current(u) : u \in matches}]
    BY <1>1 DEF ReadCustomers
  <2>3. \A u \in Customers : Earlier(Current(u))
    <3>1. TAKE u \in Customers
    <3>2. balance[u] \in Nat
      BY DEF DeskTypeOK
    <3>3. QED
      BY <3>2 DEF Earlier, Current, FreezesOf
  <2>4. \A i \in All : got'[i] = got[i] \/ got'[i] = {Current(u) : u \in matches}
    BY <2>2 DEF DeskTypeOK
  <2>5. \A r \in Kept' : r \in Kept \/ Earlier(r)
    BY <2>1, <2>3, <2>4 DEF Kept
  <2>6. QED
    BY <2>1, <2>5, RecordsStay DEF Pays
<1>2. CASE Credit(j)
  <2>1. /\ UNCHANGED <<frozen, kind, cust, freeze, seen, panel, records, got>>
        /\ balance' = [balance EXCEPT ![cust[j]] = @ + 1]
        /\ done' = done \cup {j} /\ kind[j] \in Pays
    BY <1>2 DEF Credit
  <2>2. cust[j] \in Customers
    BY <2>1 DEF Addressed
  <2>3. \A u \in Customers : /\ balance[u] \in Nat /\ balance'[u] \in Nat /\ balance[u] <= balance'[u]
                            /\ u = cust[j] => balance'[u] = balance[u] + 1
    BY <2>1 DEF DeskTypeOK
  <2>4. \A u : FreezesOf(u)' = FreezesOf(u)
    BY <2>1 DEF FreezesOf, Pays
  <2>5. Kept' = Kept
    BY <2>1 DEF Kept
  <2>6. ASSUME NEW r \in Kept'
        PROVE  Earlier(r)'
    <3>1. r \in Record /\ r.cust \in Customers /\ Earlier(r)
      BY <2>5, KeptType DEF RecordsInv
    <3>2. balance[r.cust] <= balance'[r.cust] /\ frozen'[r.cust] = frozen[r.cust]
      <4>1. PICK b \in Nat : b = balance[r.cust]
        BY <3>1 DEF DeskTypeOK
      <4>2. balance'[r.cust] = b \/ balance'[r.cust] = b + 1
        BY <2>1, <3>1, <4>1 DEF DeskTypeOK
      <4>3. QED
        BY <2>1, <4>1, <4>2
    <3>3. FreezesOf(r.cust)' = FreezesOf(r.cust)
      BY <2>4
    <3>4. QED
      BY <3>1, <3>2, <3>3, EarlierStays
  <2>7. ASSUME NEW i \in All, kind[i] \in Pays, i \in done', seen[i] # Nil, seen[i].cust = cust[i]
        PROVE  seen[i].balance + 1 <= balance'[cust[i]]
    <3>1. seen[i] \in Kept
      BY <2>7 DEF Kept
    <3>2. seen[i].balance \in Nat /\ cust[i] \in Customers /\ seen[i].balance <= balance[cust[i]]
      BY <2>7, <3>1, KeptType DEF RecordsInv, Earlier
    <3>3. PICK b \in Nat : b = balance[cust[i]]
      BY <3>2 DEF DeskTypeOK
    <3>4. CASE i = j
      <4>1. balance'[cust[i]] = b + 1
        BY <2>1, <3>2, <3>3, <3>4 DEF DeskTypeOK
      <4>2. QED
        BY <3>2, <3>3, <4>1
    <3>5. CASE i # j
      <4>1. seen[i].balance + 1 <= b
        BY <2>1, <2>7, <3>3, <3>5 DEF RecordsInv, Credited
      <4>2. balance'[cust[i]] = b \/ balance'[cust[i]] = b + 1
        BY <2>1, <3>2, <3>3 DEF DeskTypeOK
      <4>3. QED
        BY <3>2, <3>3, <4>1, <4>2
    <3>6. QED
      BY <3>4, <3>5
  <2>8. \A i \in All : Credited(i)'
    BY <2>1, <2>7 DEF Credited
  <2>9. \A i \in All : LastFreeze(i)'
    BY <2>1, <2>4 DEF LastFreeze, RecordsInv, Pays
  <2>10. QED
    BY <2>6, <2>8, <2>9 DEF RecordsInv
<1>3. CASE SetStatus(j)
  <2>1. /\ UNCHANGED <<balance, kind, cust, freeze, seen, panel, records, got>>
        /\ frozen' = [frozen EXCEPT ![cust[j]] = freeze[j]]
        /\ done' = done \cup {j} /\ kind[j] = "freeze" /\ j \notin done
    BY <1>3 DEF SetStatus, Working, Progress
  <2>2. PICK c \in Customers : c = cust[j]
    BY <2>1 DEF Addressed
  <2>3. /\ frozen'[c] = freeze[j]
        /\ \A u \in Customers \ {c} : frozen'[u] = frozen[u] /\ FreezesOf(u)' = FreezesOf(u)
    BY <2>1, <2>2 DEF DeskTypeOK, FreezesOf
  <2>4. j \in FreezesOf(c)' /\ \A u : FreezesOf(u) \subseteq FreezesOf(u)'
    BY <2>1, <2>2 DEF FreezesOf
  <2>5. Kept' = Kept
    BY <2>1 DEF Kept
  <2>6. \A r \in Kept : j \notin r.knows
    BY <2>1 DEF RecordsInv, Earlier, FreezesOf
  <2>7. ASSUME NEW r \in Kept'
        PROVE  Earlier(r)'
    <3>1. r \in Kept /\ r.cust \in Customers /\ Earlier(r)
      BY <2>5, KeptType DEF RecordsInv
    <3>2. r.balance <= balance'[r.cust] /\ r.knows \subseteq FreezesOf(r.cust)'
      BY <2>1, <2>4, <3>1 DEF Earlier
    <3>3. CASE r.cust = c
      BY <2>4, <2>6, <3>1, <3>2, <3>3 DEF Earlier
    <3>4. CASE r.cust # c
      <4>1. frozen'[r.cust] = frozen[r.cust] /\ FreezesOf(r.cust)' = FreezesOf(r.cust)
        BY <2>3, <3>1, <3>4
      <4>2. QED
        BY <3>1, <3>2, <4>1 DEF Earlier
    <3>5. QED
      BY <3>3, <3>4
  <2>8. ASSUME NEW i \in All
        PROVE  LastFreeze(i)'
    <3>1. SUFFICES ASSUME NEW d \in Customers, d = cust[i], kind[i] = "freeze", i \in done',
                          FreezesOf(d)' \subseteq seen[i].knows \cup {i}
                   PROVE  frozen'[d] = freeze[i]
      BY <2>1 DEF LastFreeze, Addressed, FreezesOf
    <3>2. CASE i = j
      BY <2>2, <2>3, <3>1, <3>2
    <3>3. CASE i # j
      <4>1. seen[i] \in Kept
        BY <3>1 DEF Addressed, Kept
      <4>2. d # c
        BY <2>4, <2>6, <3>1, <3>3, <4>1
      <4>3. frozen'[d] = frozen[d] /\ FreezesOf(d)' = FreezesOf(d)
        BY <2>3, <4>2
      <4>4. i \in done /\ FreezesOf(d) \subseteq seen[i].knows \cup {i}
        BY <2>1, <3>1, <3>3, <4>3
      <4>5. FreezesOf(cust[i]) \subseteq seen[i].knows \cup {i}
        BY <3>1, <4>4
      <4>6. QED
        BY <3>1, <4>3, <4>4, <4>5 DEF RecordsInv, LastFreeze
    <3>4. QED
      BY <3>2, <3>3
  <2>9. \A i \in All : Credited(i)'
    BY <2>1 DEF RecordsInv, Credited, Pays
  <2>10. QED
    BY <2>7, <2>8, <2>9 DEF RecordsInv
<1>4. CASE IssueLink(j) \/ Publish(j) \/ SetReplayedAt(j) \/ Audit(j) \/ RouteFails(j)
  <2>1. /\ UNCHANGED <<balance, frozen, kind, cust, freeze, seen, panel, records, got>>
        /\ done' = done \/ (done' = done \cup {j} /\ kind[j] \in {"recover", "replay"})
    BY <1>4 DEF IssueLink, Publish, SetReplayedAt, Audit, RouteFails, serverVars, Working, Progress
  <2>2. Kept' = Kept
    BY <2>1 DEF Kept
  <2>3. QED
    BY <2>1, <2>2, RecordsStay DEF Pays
<1>5. QED
  BY <1>1, <1>2, <1>3, <1>4 DEF Route

\* What an answer displays is kept already, or is the panel of a handler with what
\* its deposit or its freeze has done to the account.
LEMMA DeliverKept ==
  ASSUME DeskTypeOK, Progress, Addressed, RecordsInv, NEW j \in All,
         Deliver(j) \/ (DeliverLoad /\ j = Load)
  PROVE  \A r \in Kept' : r \in Kept \/ Earlier(r)
<1> USE DEF route, click, screen
<1>1. UNCHANGED <<seen, got>>
  BY DEF Deliver, DeliverLoad, DeliverCustomers, DeliverCredit, DeliverFreeze, DeliverLink, DeliverReplay,
         ListLetters, ListFails, DeliverFailure
<1>2. seen[j] # Nil => seen[j] \in Record /\ seen[j] \in Kept
  BY DEF DeskTypeOK, Kept
<1>3. ASSUME records' \subseteq Kept, panel' # Nil => panel' \in Kept \/ Earlier(panel')
      PROVE  \A r \in Kept' : r \in Kept \/ Earlier(r)
  <2>1. TAKE r \in Kept'
  <2>2. r \in records' \/ (r = panel' /\ r # Nil) \/ r \in Kept
    BY <1>1 DEF Kept
  <2>3. QED
    BY <1>3, <2>2
<1>4. records \subseteq Kept /\ got[j] \subseteq Kept /\ (panel # Nil => panel \in Kept)
  BY DEF Kept
<1>5. CASE DeliverCustomers(j) \/ (DeliverLoad /\ j = Load)
  <2>1. records' \in {records, got[j]} /\ (panel' \in got[j] \cup {Nil, panel})
    BY <1>5 DEF DeliverCustomers, DeliverLoad, Show
  <2>2. QED
    BY <1>3, <1>4, <2>1
<1>6. ASSUME NEW r, records' = records, Change(j, r),
             seen[j] # Nil /\ seen[j].cust = cust[j] => Earlier(r)
      PROVE  records' \subseteq Kept /\ (panel' # Nil => panel' \in Kept \/ Earlier(panel'))
  BY <1>2, <1>4, <1>6 DEF Change, Show
<1>7. CASE DeliverCredit(j)
  <2>1. kind[j] \in Pays /\ j \in done /\ Change(j, [seen[j] EXCEPT !.balance = @ + 1]) /\ records' = records
    BY <1>7 DEF DeliverCredit, Due, Progress
  <2>2. ASSUME seen[j] # Nil, seen[j].cust = cust[j]
        PROVE  Earlier([seen[j] EXCEPT !.balance = @ + 1])
    <3> DEFINE r == [seen[j] EXCEPT !.balance = @ + 1]
    <3>1. r.balance = seen[j].balance + 1 /\ r.cust = seen[j].cust /\ r.knows = seen[j].knows
          /\ r.frozen = seen[j].frozen
      BY <1>2, <2>2 DEF Record
    <3>2. seen[j].balance + 1 <= balance[cust[j]] /\ Earlier(seen[j])
      BY <1>2, <2>1, <2>2 DEF RecordsInv, Credited
    <3> HIDE DEF r
    <3>3. QED
      BY <2>2, <3>1, <3>2 DEF Earlier, r
  <2>3. QED
    BY <1>3, <1>6, <2>1, <2>2
<1>8. CASE DeliverFreeze(j)
  <2> DEFINE r == [seen[j] EXCEPT !.frozen = freeze[j], !.knows = @ \cup {j}]
  <2>1. kind[j] = "freeze" /\ j \in done /\ Change(j, r) /\ records' = records
    BY <1>8 DEF DeliverFreeze, Due, Progress
  <2>2. ASSUME seen[j] # Nil, seen[j].cust = cust[j]
        PROVE  Earlier(r)
    <3>1. r.balance = seen[j].balance /\ r.cust = cust[j] /\ r.knows = seen[j].knows \cup {j}
          /\ r.frozen = freeze[j]
      BY <1>2, <2>2 DEF Record
    <3>2. Earlier(seen[j]) /\ LastFreeze(j)
      BY <1>2, <2>2 DEF RecordsInv
    <3>3. j \in FreezesOf(cust[j])
      BY <2>1 DEF FreezesOf
    <3> HIDE DEF r
    <3>4. r.balance <= balance[r.cust] /\ r.knows \subseteq FreezesOf(r.cust)
      BY <2>2, <3>1, <3>2, <3>3 DEF Earlier
    <3>5. FreezesOf(r.cust) \subseteq r.knows => r.frozen = frozen[r.cust]
      BY <2>1, <3>1, <3>2 DEF LastFreeze
    <3>6. QED
      BY <3>4, <3>5 DEF Earlier
  <2>3. QED
    BY <1>3, <1>6, <2>1, <2>2
<1>9. CASE DeliverLink(j) \/ DeliverReplay(j) \/ ListLetters(j) \/ ListFails(j) \/ DeliverFailure(j)
  <2>1. records' = records /\ panel' = panel
    BY <1>9 DEF DeliverLink, DeliverReplay, ListLetters, ListFails, DeliverFailure
  <2>2. QED
    BY <1>3, <1>4, <2>1
<1>10. QED
  BY <1>5, <1>7, <1>8, <1>9 DEF Deliver

LEMMA DeliverRecords ==
  ASSUME DeskTypeOK, DeskTypeOK', Progress, Addressed, RecordsInv, NEW j \in All,
         Deliver(j) \/ (DeliverLoad /\ j = Load)
  PROVE  RecordsInv'
<1>1. UNCHANGED <<balance, frozen, done, kind, cust, seen, freeze>>
  BY DEF Deliver, DeliverLoad, DeliverCustomers, DeliverCredit, DeliverFreeze, DeliverLink, DeliverReplay,
         ListLetters, ListFails, DeliverFailure, serverVars, click
<1>2. QED
  BY <1>1, DeliverKept, RecordsStay

LEMMA DeskRecords ==
  DeskTypeOK /\ DeskTypeOK' /\ Progress /\ Addressed /\ RecordsInv /\ [DeskNext]_deskVars => RecordsInv'
<1>1. ASSUME DeskTypeOK, DeskTypeOK', RecordsInv, UNCHANGED deskVars
      PROVE  RecordsInv'
  <2>1. Kept' = Kept
    BY <1>1 DEF deskVars, serverVars, click, route, screen, Kept
  <2>2. QED
    BY <1>1, <2>1, RecordsStay DEF deskVars, serverVars, click, route
<1>2. QED
  BY <1>1, OperatorRecords, RouteRecords, DeliverRecords DEF DeskNext, All

-----------------------------------------------------------------------------
(* The replays.                                                            *)

LEMMA OperatorReplays ==
  ASSUME DeskTypeOK, Progress, ReplayInv, Operator
  PROVE  ReplayInv'
<1> USE DeskAssumption
<1>1. ASSUME NEW k \in Kinds, NEW u, NEW s, NEW q, Click(k, u, s, q), busy \subseteq busy',
             k = "replay" => offered /\ "replay" \notin busy /\ "replay" \in busy'
      PROVE  ReplayInv'
  <2>1. PICK i \in Jobs :
          /\ kind[i] = Nil
          /\ kind' = [kind EXCEPT ![i] = k] /\ stage' = [stage EXCEPT ![i] = "sent"]
          /\ UNCHANGED <<told, offered, unlisted, published>>
    BY <1>1 DEF Click, serverVars
  <2>2. i \in All /\ told[i] = Nil /\ i \notin Replays
    BY <2>1 DEF Progress, All, Replays, Kinds
  <2>3. /\ kind'[i] = k /\ stage'[i] = "sent"
        /\ \A j \in All \ {i} : kind'[j] = kind[j] /\ stage'[j] = stage[j]
    BY <2>1, <2>2 DEF DeskTypeOK
  <2>4. Replays' = IF k = "replay" THEN Replays \cup {i} ELSE Replays
    BY <2>1, <2>2, <2>3 DEF Replays, All
  <2>5. \A j \in Replays : stage'[j] = stage[j]
    BY <2>2, <2>3 DEF Replays, All
  <2>6. AllListed' => AllListed
    BY <2>1, <2>4 DEF AllListed
  <2>7. CASE k # "replay"
    BY <1>1, <2>1, <2>4, <2>5, <2>6, <2>7 DEF ReplayInv
  <2>8. CASE k = "replay"
    <3>1. told[Load] # Nil
      BY <1>1, <2>8 DEF ReplayInv
    <3>2. published > 0 => \E j \in Replays' : stage'[j] # "sent"
      BY <2>4, <2>5 DEF ReplayInv
    <3>3. AllListed => Replays = {}
      BY <1>1, <2>8 DEF ReplayInv
    <3>4. QED
      BY <1>1, <2>1, <2>2, <2>4, <2>6, <2>8, <3>1, <3>2, <3>3 DEF ReplayInv
  <2>9. QED
    BY <2>7, <2>8
<1>2. CASE \E q \in BOOLEAN : Lookup(q)
  BY <1>1, <1>2 DEF Lookup, Busy, Kinds
<1>3. CASE \E u \in Customers : ExecuteDeposit(u) \/ IssueLoan(u)
  BY <1>1, <1>3 DEF ExecuteDeposit, IssueLoan, Busy, Kinds, Pays
<1>4. CASE ToggleFreeze
  BY <1>1, <1>4 DEF ToggleFreeze, Kinds
<1>5. CASE InitiateRecovery
  BY <1>1, <1>5 DEF InitiateRecovery, Busy, Kinds
<1>6. CASE ReplayDlq
  BY <1>1, <1>6 DEF ReplayDlq, Busy, Kinds
<1>7. ASSUME NEW r \in records, Pick(r)
      PROVE  ReplayInv'
  BY <1>7 DEF Pick, ReplayInv, Replays, AllListed, serverVars, click, route
<1>8. QED
  BY <1>2, <1>3, <1>4, <1>5, <1>6, <1>7 DEF Operator

LEMMA RouteReplays ==
  ASSUME DeskTypeOK, Progress, ReplayInv, NEW j \in All, Route(j)
  PROVE  ReplayInv'
<1> USE DeskAssumption DEF click, screen, serverVars, deskHistory, Working
<1>1. UNCHANGED <<kind, told, offered, unlisted, busy>>
  BY DEF Route, ReadCustomers, Credit, SetStatus, IssueLink, Publish, SetReplayedAt, Audit, RouteFails
<1>2. Replays' = Replays /\ AllListed' = AllListed
  BY <1>1 DEF Replays, AllListed
<1>3. /\ \A i \in All : stage'[i] = "list" <=> stage[i] = "list"
      /\ \A i \in All : stage[i] # "sent" => stage'[i] # "sent"
  <2>1. stage[j] \notin {"list", "listed"} /\ stage'[j] \in {"published", "audit", "answered"}
        /\ \A i \in All \ {j} : stage'[i] = stage[i]
    BY DEF Route, ReadCustomers, Credit, SetStatus, IssueLink, Publish, SetReplayedAt, Audit, RouteFails,
           Finish, Proceed, DeskTypeOK
  <2>2. QED
    BY <2>1
<1>4. Replays \subseteq All
  BY DEF Replays, All
<1>5. CASE Publish(j)
  <2>1. j \in Replays /\ stage[j] = "sent" /\ stage'[j] # "sent" /\ published' = published + 1
    BY <1>5 DEF Publish, Replays, Progress, All, DeskTypeOK
  <2>2. AllListed => published = 0
    <3>1. published \in Nat
      BY DEF DeskTypeOK
    <3>2. SUFFICES ASSUME AllListed, published > 0
                   PROVE  FALSE
      BY <3>1
    <3>3. QED
      BY <2>1, <3>2 DEF ReplayInv
  <2>3. QED
    BY <1>1, <1>2, <1>3, <1>4, <2>1, <2>2 DEF ReplayInv
<1>6. CASE ~Publish(j)
  <2>1. published' = published
    BY <1>6 DEF Route, ReadCustomers, Credit, SetStatus, IssueLink, SetReplayedAt, Audit, RouteFails
  <2>2. QED
    BY <1>1, <1>2, <1>3, <1>4, <2>1 DEF ReplayInv
<1>7. QED
  BY <1>5, <1>6

LEMMA DeliverReplays ==
  ASSUME DeskTypeOK, Progress, ReplayInv, NEW j \in All, Deliver(j) \/ (DeliverLoad /\ j = Load)
  PROVE  ReplayInv'
<1> USE DeskAssumption DEF click, route, serverVars, deskHistory, Working, Results
<1>1. UNCHANGED <<kind, published>> /\ unlisted \subseteq unlisted'
  BY DEF Deliver, DeliverLoad, DeliverCustomers, DeliverCredit, DeliverFreeze, DeliverLink, DeliverReplay,
         ListLetters, ListFails, DeliverFailure
<1>2. Replays' = Replays /\ Replays \subseteq All \ {Load} /\ Load \in All
  BY <1>1 DEF Replays, All
<1>3. \A i \in All : told[i] # Nil => told'[i] = told[i]
  BY DEF Deliver, DeliverLoad, DeliverCustomers, DeliverCredit, DeliverFreeze, DeliverLink, DeliverReplay,
         ListLetters, ListFails, DeliverFailure, Due, Told, DeskTypeOK
<1>4. \A i \in All \ {j} : told'[i] = told[i] /\ stage'[i] = stage[i]
  BY DEF Deliver, DeliverLoad, DeliverCustomers, DeliverCredit, DeliverFreeze, DeliverLink, DeliverReplay,
         ListLetters, ListFails, DeliverFailure, Told, DeskTypeOK
<1>5. AllListed' => AllListed
  BY <1>1, <1>2, <1>3 DEF AllListed
<1>6. CASE j \notin Replays
  <2>1. kind[j] # "replay"
    BY <1>6 DEF Replays, Progress, All
  <2>2. busy' = busy \ {kind[j]} /\ stage' = stage /\ (offered' = offered \/ (DeliverLoad /\ j = Load))
    BY <2>1 DEF Deliver, DeliverLoad, DeliverCustomers, DeliverCredit, DeliverFreeze, DeliverLink, DeliverReplay,
         ListLetters, ListFails, DeliverFailure, Release, Progress
  <2>3. CASE j # Load
    BY <1>1, <1>2, <1>4, <1>5, <1>6, <2>1, <2>2, <2>3 DEF ReplayInv
  <2>4. CASE j = Load
    <3>1. told[Load] = Nil /\ told'[Load] # Nil
      <4>1. DeliverLoad \/ DeliverFailure(j)
        BY <2>4 DEF Deliver, DeliverCustomers, DeliverCredit, DeliverFreeze, DeliverLink, DeliverReplay,
                    ListLetters, ListFails, Progress, Pays
      <4>2. QED
        BY <1>2, <2>4, <4>1 DEF DeliverLoad, DeliverFailure, Due, Told, DeskTypeOK
    <3>2. Replays = {}
      BY <3>1 DEF ReplayInv
    <3>3. QED
      BY <1>1, <1>2, <1>5, <3>1, <3>2 DEF ReplayInv
  <2>5. QED
    BY <2>3, <2>4
<1>7. CASE j \in Replays
  <2>1. kind[j] = "replay" /\ j # Load /\ told[Load] # Nil /\ told'[Load] # Nil /\ j \in All
    BY <1>2, <1>3, <1>7 DEF Replays, ReplayInv
  <2>2. CASE DeliverReplay(j)
    <3>1. /\ stage[j] = "answered" /\ stage'[j] = "list" /\ busy' = busy /\ offered' = offered
          /\ told[j] = Nil
      BY <2>1, <2>2 DEF DeliverReplay, Due, DeskTypeOK, screen
    <3>2. QED
      BY <1>1, <1>2, <1>4, <1>5, <2>1, <3>1 DEF ReplayInv
  <2>3. CASE ListLetters(j)
    <3>1. stage[j] = "list" /\ stage'[j] = "listed" /\ offered' = ~replayed /\ told' = told
      BY <2>1, <2>3 DEF ListLetters, DeskTypeOK
    <3>2. told[j] = "OK" /\ replayed /\ ~offered'
      BY <2>1, <3>1 DEF Progress
    <3>3. \A i \in Replays' : (told'[i] = Nil \/ stage'[i] = "list") /\ AllListed' => i = j
      BY <1>2, <1>5, <1>7 DEF ReplayInv
    <3>4. told'[j] # Nil /\ stage'[j] # "list"
      BY <3>1, <3>2
    <3>5. AllListed' => \A i \in Replays' : ~(told'[i] = Nil \/ stage'[i] = "list") /\ ~offered'
      BY <3>2, <3>3, <3>4
    <3>6. published' > 0 => \E i \in Replays' : stage'[i] # "sent"
      BY <1>1, <1>2, <1>4, <1>7, <3>1 DEF ReplayInv
    <3>7. QED
      BY <1>1, <1>2, <1>5, <2>1, <3>5, <3>6 DEF ReplayInv
  <2>4. CASE ListFails(j)
    <3>1. stage[j] = "list" /\ stage'[j] = "listed" /\ j \in unlisted'
      BY <2>1, <2>4 DEF ListFails, DeskTypeOK
    <3>2. ~AllListed'
      BY <1>2, <1>7, <3>1 DEF AllListed
    <3>3. QED
      BY <1>1, <1>2, <1>4, <2>1, <3>1, <3>2 DEF ReplayInv
  <2>5. CASE DeliverFailure(j)
    <3>1. told'[j] = "ERROR" /\ stage' = stage
      BY <2>1, <2>5 DEF DeliverFailure, Told, DeskTypeOK
    <3>2. ~AllListed'
      BY <1>2, <1>7, <3>1 DEF AllListed
    <3>3. QED
      BY <1>1, <1>2, <2>1, <3>1, <3>2 DEF ReplayInv
  <2>6. QED
    BY <2>1, <2>2, <2>3, <2>4, <2>5
       DEF Deliver, DeliverCustomers, DeliverCredit, DeliverFreeze, DeliverLink, Pays
<1>8. QED
  BY <1>6, <1>7

LEMMA DeskReplays ==
  DeskTypeOK /\ Progress /\ ReplayInv /\ [DeskNext]_deskVars => ReplayInv'
<1>1. ASSUME ReplayInv, UNCHANGED deskVars
      PROVE  ReplayInv'
  BY <1>1 DEF deskVars, serverVars, click, route, screen, deskHistory, ReplayInv, Replays, AllListed
<1>2. QED
  BY <1>1, OperatorReplays, RouteReplays, DeliverReplays DEF DeskNext, All

-----------------------------------------------------------------------------
(* The recovery link.                                                      *)

\* The panel goes to another customer, or stays with the one it shows.
LEMMA ShowLink ==
  ASSUME DeskTypeOK, Progress, LinkInv, NEW p, Show(p), UNCHANGED <<kind, cust>>,
         \A j \in All : told[j] # Nil => told'[j] # Nil
  PROVE  LinkInv'
<1> USE DeskAssumption
<1>1. ASSUME NEW j \in All, kind[j] = "recover", told'[j] = Nil, j \notin switched'
      PROVE  panel' # Nil /\ panel'.cust = cust[j]
  <2>1. told[j] = Nil /\ j \in RunningJobs
    BY <1>1 DEF RunningJobs, Kinds
  <2>2. p # Nil /\ panel # Nil /\ p.cust = panel.cust /\ j \notin switched
    BY <1>1, <2>1 DEF Show, Switch
  <2>3. QED
    BY <1>1, <2>1, <2>2 DEF LinkInv, Show
<1>2. link' # Nil => link' = link /\ panel' = Nil
  BY DEF Show
<1>3. QED
  BY <1>1, <1>2 DEF LinkInv, LinkIsOfShown

\* Or it does not change.
LEMMA SameLink ==
  ASSUME DeskTypeOK, LinkInv, UNCHANGED <<kind, cust, panel, link, switched>>,
         \A j \in All : told[j] # Nil => told'[j] # Nil
  PROVE  LinkInv'
BY DEF LinkInv, LinkIsOfShown

LEMMA OperatorLink ==
  ASSUME DeskTypeOK, Progress, LinkInv, Operator
  PROVE  LinkInv'
<1> USE DeskAssumption DEF serverVars, click, route
<1>1. ASSUME NEW k \in Kinds, NEW u, NEW s, NEW q, Click(k, u, s, q),
             link' = link \/ link' = Nil,
             k = "recover" => panel # Nil /\ u = panel.cust
      PROVE  LinkInv'
  <2>1. PICK i \in Jobs :
          /\ kind[i] = Nil
          /\ kind' = [kind EXCEPT ![i] = k] /\ cust' = [cust EXCEPT ![i] = u]
          /\ UNCHANGED <<told, panel, switched>>
    BY <1>1 DEF Click
  <2>2. i \in All /\ i # link
    BY <2>1 DEF All, LinkInv, Kinds
  <2>3. /\ kind'[i] = k /\ cust'[i] = u
        /\ \A j \in All \ {i} : kind'[j] = kind[j] /\ cust'[j] = cust[j]
    BY <2>1, <2>2 DEF DeskTypeOK
  <2>4. \A j \in All : kind'[j] = "recover" /\ told'[j] = Nil /\ j \notin switched'
                         => panel' # Nil /\ panel'.cust = cust'[j]
    BY <1>1, <2>1, <2>2, <2>3 DEF LinkInv
  <2>5. link' # Nil => link' = link /\ link \in All /\ kind'[link] = kind[link] /\ cust'[link] = cust[link]
    BY <1>1, <2>2, <2>3 DEF DeskTypeOK
  <2>6. QED
    BY <2>1, <2>4, <2>5 DEF LinkInv, LinkIsOfShown
<1>2. CASE \E q \in BOOLEAN : Lookup(q)
  BY <1>1, <1>2 DEF Lookup, Kinds
<1>3. CASE \E u \in Customers : ExecuteDeposit(u) \/ IssueLoan(u)
  BY <1>1, <1>3 DEF ExecuteDeposit, IssueLoan, Kinds, Pays
<1>4. CASE ToggleFreeze
  BY <1>1, <1>4 DEF ToggleFreeze, Kinds
<1>5. CASE InitiateRecovery
  BY <1>1, <1>5 DEF InitiateRecovery, Kinds
<1>6. CASE ReplayDlq
  BY <1>1, <1>6 DEF ReplayDlq, Kinds
<1>7. ASSUME NEW r \in records, Pick(r)
      PROVE  LinkInv'
  <2>1. UNCHANGED <<kind, cust, told>>
    BY <1>7 DEF Pick
  <2>2. CASE Show(r)
    BY <2>1, <2>2, ShowLink
  <2>3. CASE UNCHANGED <<panel, link, switched>>
    BY <2>1, <2>3, SameLink
  <2>4. QED
    BY <1>7, <2>2, <2>3 DEF Pick
<1>8. QED
  BY <1>2, <1>3, <1>4, <1>5, <1>6, <1>7 DEF Operator

LEMMA RouteLink ==
  ASSUME DeskTypeOK, LinkInv, NEW j \in All, Route(j)
  PROVE  LinkInv'
<1>1. UNCHANGED <<kind, cust, told, panel, link, switched>>
  BY DEF Route, ReadCustomers, Credit, SetStatus, IssueLink, Publish, SetReplayedAt, Audit, RouteFails,
         click, screen, deskHistory
<1>2. QED
  BY <1>1, SameLink

LEMMA DeliverLinkInv ==
  ASSUME DeskTypeOK, Progress, LinkInv, NEW j \in All, Deliver(j) \/ (DeliverLoad /\ j = Load)
  PROVE  LinkInv'
<1> USE DeskAssumption DEF click, route, serverVars, deskHistory, Results
<1>1. UNCHANGED <<kind, cust>>
  BY DEF Deliver, DeliverLoad, DeliverCustomers, DeliverCredit, DeliverFreeze, DeliverLink, DeliverReplay,
         ListLetters, ListFails, DeliverFailure
<1>2. \A i \in All : told[i] # Nil => told'[i] # Nil
  BY DEF Deliver, DeliverLoad, DeliverCustomers, DeliverCredit, DeliverFreeze, DeliverLink, DeliverReplay,
         ListLetters, ListFails, DeliverFailure, Told, DeskTypeOK
<1>3. CASE DeliverLink(j)
  <2>1. /\ link' = j /\ kind[j] = "recover" /\ told[j] = Nil
        /\ UNCHANGED <<panel, switched>>
    BY <1>3 DEF DeliverLink, Due
  <2>2. QED
    BY <1>1, <1>2, <2>1 DEF LinkInv, LinkIsOfShown
<1>4. CASE ~DeliverLink(j)
  <2>1. (\E p : Show(p)) \/ UNCHANGED <<panel, link, switched>>
    <3>1. CASE DeliverCustomers(j)
      BY <3>1 DEF DeliverCustomers
    <3>2. CASE DeliverLoad
      BY <3>2 DEF DeliverLoad
    <3>3. CASE DeliverCredit(j) \/ DeliverFreeze(j)
      BY <3>3 DEF DeliverCredit, DeliverFreeze, Change
    <3>4. CASE DeliverReplay(j) \/ ListLetters(j) \/ ListFails(j) \/ DeliverFailure(j)
      BY <3>4 DEF DeliverReplay, ListLetters, ListFails, DeliverFailure, screen
    <3>5. QED
      BY <1>4, <3>1, <3>2, <3>3, <3>4 DEF Deliver
  <2>2. QED
    BY <1>1, <1>2, <2>1, ShowLink, SameLink
<1>5. QED
  BY <1>3, <1>4

LEMMA DeskLink == DeskTypeOK /\ Progress /\ LinkInv /\ [DeskNext]_deskVars => LinkInv'
<1>1. ASSUME DeskTypeOK, LinkInv, UNCHANGED deskVars
      PROVE  LinkInv'
  BY <1>1, SameLink DEF deskVars, click, screen, deskHistory
<1>2. QED
  BY <1>1, OperatorLink, RouteLink, DeliverLinkInv DEF DeskNext, All

-----------------------------------------------------------------------------
(* The theorems, for any number of clicks and customers.                   *)

DeskInv == DeskTypeOK /\ Progress /\ Addressed /\ RecordsInv /\ ReplayInv /\ LinkInv

LEMMA DeskInitInv == DeskInit => DeskInv
<1> SUFFICES ASSUME DeskInit
             PROVE  DeskInv
  OBVIOUS
<1> USE DeskAssumption DEF DeskInit
<1>1. DeskTypeOK
  BY DeskInitType
<1>2. Load \in All /\ Jobs \subseteq All /\ Load \notin Jobs
  BY DEF All
<1>3. Progress /\ Addressed
  BY <1>2 DEF Progress, Addressed, Pays, Kinds, Stages, Results
<1>4. RecordsInv
  BY DEF RecordsInv, Kept, Credited, LastFreeze
<1>5. Replays = {}
  BY <1>2 DEF Replays, Kinds
<1>6. ReplayInv
  BY <1>5 DEF ReplayInv
<1>7. LinkInv
  BY DEF LinkInv, LinkIsOfShown, Kinds
<1>8. QED
  BY <1>1, <1>3, <1>4, <1>6, <1>7 DEF DeskInv

THEOREM DeskHolds == DeskSpec => []DeskInv
<1>1. DeskInv /\ [DeskNext]_deskVars => DeskInv'
  BY DeskType, DeskProgress, DeskRecords, DeskReplays, DeskLink DEF DeskInv
<1>2. QED
  BY <1>1, DeskInitInv, PTL DEF DeskSpec

\* Nothing on the console is ahead of the database.
THEOREM NeverAhead == DeskSpec => []PanelNeverAhead
<1>1. DeskInv => PanelNeverAhead
  BY DEF DeskInv, RecordsInv, Kept, Earlier, PanelNeverAhead
<1>2. QED
  BY <1>1, DeskHolds, PTL

\* A wrong status is always one freeze behind, at least.
THEOREM StatusOnlyBehind == DeskSpec => []FrozenAsShown
<1>1. DeskInv => FrozenAsShown
  <2> SUFFICES ASSUME DeskInv, panel # Nil, panel.frozen # frozen[panel.cust]
               PROVE  \E j \in done : kind[j] = "freeze" /\ cust[j] = panel.cust /\ j \notin panel.knows
    BY DEF FrozenAsShown
  <2>1. Earlier(panel)
    BY DEF DeskInv, RecordsInv, Kept
  <2>2. QED
    BY <2>1 DEF Earlier, FreezesOf
<1>2. QED
  BY <1>1, DeskHolds, PTL

\* A letter goes out twice only if the operator could not know that it went.
THEOREM SecondReplayUntold == DeskSpec => []ReplayedOnce
<1>1. DeskInv => ReplayedOnce
  <2> SUFFICES ASSUME DeskInv, published > 1,
                      \A j \in Jobs : kind[j] = "replay" => told[j] # "ERROR" /\ j \notin unlisted
               PROVE  FALSE
    BY DEF ReplayedOnce
  <2>1. AllListed
    BY DEF AllListed, Replays
  <2>2. published <= 1 /\ published \in Nat
    BY <2>1 DEF DeskInv, ReplayInv, DeskTypeOK
  <2>3. QED
    BY <2>2
<1>2. QED
  BY <1>1, DeskHolds, PTL

\* A link stands under the customer it was made for.
THEOREM LinkUnderItsCustomer == DeskSpec => []LinkIsOfShown
<1>1. DeskInv => LinkIsOfShown
  BY DEF DeskInv, LinkInv
<1>2. QED
  BY <1>1, DeskHolds, PTL

-----------------------------------------------------------------------------
(***************************************************************************)
(* The pages of a statement.                                               *)
(***************************************************************************)

\* What a page is found to be was so when its count was read, or a row appeared in
\* between; and the rows of the beginning that are not yet read come later than
\* the page being asked for, or on it.
Unread == old \ read

PageIsNext ==
  /\ pageNo > 0 /\ found = {} => \A r \in Unread : Rank(r) >= (pageNo - 1) * Limit
  /\ \A rs \in found : /\ rs \subseteq committed
                     /\ \A r \in Unread \ rs : Rank(r) >= pageNo * Limit

CountIsTrue == between = {} => \A n \in total : n = Cardinality(committed)

ReadingOver ==
  pageNo = 0 => found = {} /\ total = {} /\ (old # {} /\ between = {} => old \subseteq read)

ReaderInv == PageIsNext /\ CountIsTrue /\ ReadingOver

\* The pages of Limit rows.
LEMMA PageBounds ==
  ASSUME NEW k \in Nat
  PROVE  /\ k \div Limit \in Nat
         /\ (k \div Limit) * Limit <= k /\ k < (k \div Limit + 1) * Limit
BY StatementsAssumption

LEMMA TimesGrows ==
  ASSUME NEW m \in Nat, NEW n \in Nat, m <= n
  PROVE  m * Limit <= n * Limit
BY StatementsAssumption

LEMMA LastPage ==
  ASSUME NEW n \in Nat
  PROVE  TotalPages(n) \in Nat \ {0} /\ n <= TotalPages(n) * Limit /\ TotalPages(n) <= n + 1
<1>1. n + Limit - 1 \in Nat /\ Limit \in Nat \ {0}
  BY StatementsAssumption
<1> DEFINE p == (n + Limit - 1) \div Limit
<1>2. p \in Nat /\ p * Limit <= n + Limit - 1 /\ n + Limit - 1 < (p + 1) * Limit
  BY <1>1, PageBounds
<1>3. TotalPages(n) = IF p = 0 THEN 1 ELSE p
  BY DEF TotalPages
<1> HIDE DEF p
<1>4. n <= p * Limit /\ (p + 1) * Limit = p * Limit + Limit
  BY <1>1, <1>2
<1>5. p <= n + 1
  <2>1. SUFFICES ASSUME p > n + 1
                 PROVE  FALSE
    BY <1>2
  <2>2. p * Limit >= (n + 2) * Limit
    BY <1>2, <2>1, TimesGrows
  <2>3. (n + 2) * Limit >= n + 2 * Limit
    BY <1>1
  <2>4. QED
    BY <1>1, <1>2, <2>2, <2>3
<1>6. QED
  BY <1>1, <1>2, <1>3, <1>4, <1>5

-----------------------------------------------------------------------------
(* Ranks.                                                                  *)

LEMMA CommittedFinite ==
  ASSUME StatementsTypeOK
  PROVE  /\ committed \subseteq Rows /\ IsFiniteSet(committed)
         /\ Cardinality(committed) \in 0 .. Cardinality(Rows)
         /\ Cardinality(Rows) \in Nat
<1>1. committed \subseteq Rows
  BY DEF StatementsTypeOK, Begun
<1>2. QED
  BY <1>1, StatementsAssumption, FS_Subset, FS_CardinalityType

\* A row has fewer rows before it than there are.
LEMMA RankBelow ==
  ASSUME StatementsTypeOK, NEW r \in committed
  PROVE  Rank(r) \in Nat /\ Rank(r) < Cardinality(committed)
<1> DEFINE above == {s \in committed : created[s] > created[r]}
<1>1. IsFiniteSet(committed) /\ r \in Rows /\ created[r] \in Int
  BY CommittedFinite DEF StatementsTypeOK
<1>2. above \subseteq committed /\ r \notin above
  BY <1>1
<1>3. IsFiniteSet(above) /\ Cardinality(above) \in Nat
  BY <1>1, <1>2, FS_Subset, FS_CardinalityType
<1>4. Cardinality(above) < Cardinality(committed)
  <2>1. above # committed /\ Cardinality(committed) \in Nat
    BY <1>2, CommittedFinite
  <2>2. Cardinality(above) <= Cardinality(committed) /\ Cardinality(above) # Cardinality(committed)
    BY <1>1, <1>2, <2>1, FS_Subset
  <2>3. QED
    BY <1>3, <2>1, <2>2
<1>5. QED
  BY <1>3, <1>4 DEF Rank

\* Rows that appear only push others back.
LEMMA RankGrows ==
  ASSUME StatementsTypeOK, StatementsTypeOK', committed \subseteq committed',
         \A s \in committed : created'[s] = created[s],
         NEW r \in committed
  PROVE  Rank(r) \in Nat /\ Rank(r)' \in Nat /\ Rank(r) <= Rank(r)'
<1>1. IsFiniteSet(committed')
  <2>1. committed' \subseteq Rows
    BY DEF StatementsTypeOK, Begun
  <2>2. QED
    BY <2>1, StatementsAssumption, FS_Subset
<1>2. {s \in committed : created[s] > created[r]} \subseteq
        {s \in committed' : created'[s] > created'[r]}
  OBVIOUS
<1>3. IsFiniteSet({s \in committed' : created'[s] > created'[r]})
  BY <1>1, FS_Subset
<1>4. QED
  BY <1>2, <1>3, FS_Subset, FS_CardinalityType DEF Rank

\* So what is said of the rows that are not yet read stays true.
LEMMA ReaderUntouched ==
  ASSUME StatementsTypeOK, StatementsTypeOK', ReaderInv, committed \subseteq committed',
         \A s \in committed : created'[s] = created[s],
         UNCHANGED <<pageNo, found, read, old>>
  PROVE  PageIsNext'
<1>1. \A r \in Unread : r \in committed /\ Rank(r) \in Nat /\ Rank(r)' \in Nat /\ Rank(r) <= Rank(r)'
  BY RankGrows DEF Unread, StatementsTypeOK
<1>2. Unread' = Unread
  BY DEF Unread
<1>3. pageNo \in Nat /\ Limit \in Nat /\ (pageNo - 1) * Limit \in Int /\ pageNo * Limit \in Int
  BY CommittedFinite, StatementsAssumption DEF StatementsTypeOK
<1>4. ASSUME pageNo > 0, found = {}, NEW r \in Unread
      PROVE  Rank(r)' >= (pageNo - 1) * Limit
  BY <1>1, <1>3, <1>4 DEF ReaderInv, PageIsNext
<1>5. ASSUME NEW rs \in found, NEW r \in Unread \ rs
      PROVE  rs \subseteq committed' /\ Rank(r)' >= pageNo * Limit
  BY <1>1, <1>3, <1>5 DEF ReaderInv, PageIsNext
<1>6. \A rs \in found : rs \subseteq committed'
  BY DEF ReaderInv, PageIsNext
<1>7. QED
  BY <1>2, <1>4, <1>5, <1>6 DEF PageIsNext

-----------------------------------------------------------------------------
(* The types.                                                              *)

LEMMA StatementsInitInv == StatementsInit => StatementsTypeOK /\ ReaderInv
<1>1. Cardinality(Rows) \in Nat
  BY StatementsAssumption, FS_CardinalityType
<1>2. QED
  BY <1>1 DEF StatementsInit, StatementsTypeOK, Begun, ReaderInv, PageIsNext, CountIsTrue, ReadingOver, Unread

LEMMA StatementsType == StatementsTypeOK /\ ReaderInv /\ [StatementsNext]_stvars => StatementsTypeOK'
<1> SUFFICES ASSUME StatementsTypeOK, ReaderInv, [StatementsNext]_stvars
             PROVE  StatementsTypeOK'
  OBVIOUS
<1>1. /\ IsFiniteSet(Rows) /\ Cardinality(Rows) \in Nat
      /\ Cardinality(committed) \in 0 .. Cardinality(Rows)
  BY CommittedFinite, StatementsAssumption
<1>2. ASSUME NEW r \in Rows, BeginTransaction(r)
      PROVE  StatementsTypeOK'
  <2>1. Begun \subseteq Rows /\ r \notin Begun
    BY <1>2 DEF Begun, BeginTransaction
  <2>2. Cardinality(Begun) \in Nat /\ Cardinality(Begun) < Cardinality(Rows)
    BY <1>1, <2>1, FS_Subset, FS_CardinalityType
  <2>3. Cardinality(Begun) + 1 \in 0 .. Cardinality(Rows)
    BY <1>1, <2>2
  <2>4. created' \in [Rows -> 0 .. Cardinality(Rows)] /\ created' = [created EXCEPT ![r] = Cardinality(Begun) + 1]
    BY <1>2, <2>3 DEF BeginTransaction, StatementsTypeOK
  <2>5. Begun \subseteq Begun'
    <3>1. SUFFICES ASSUME NEW q \in Begun
                   PROVE  created'[q] > 0
      BY DEF Begun
    <3>2. q # r /\ q \in Rows /\ created[q] > 0
      BY <2>1 DEF Begun
    <3>3. created'[q] = created[q]
      BY <2>4, <3>2 DEF StatementsTypeOK
    <3>4. QED
      BY <3>2, <3>3
  <2>6. QED
    BY <1>2, <2>4, <2>5 DEF BeginTransaction, StatementsTypeOK
<1>3. ASSUME NEW r \in Rows, CommitTransaction(r)
      PROVE  StatementsTypeOK'
  <2>1. Begun' = Begun
    BY <1>3 DEF CommitTransaction, Begun
  <2>2. QED
    BY <1>3, <2>1 DEF CommitTransaction, StatementsTypeOK
<1>4. CASE AskFirst
  <2>1. Begun' = Begun
    BY <1>4 DEF AskFirst, Begun
  <2>2. QED
    BY <1>1, <1>4, <2>1 DEF AskFirst, StatementsTypeOK
<1>5. CASE FindPage
  <2>1. Begun' = Begun
    BY <1>5 DEF FindPage, Begun
  <2>2. found' \subseteq SUBSET Rows
    BY <1>5, CommittedFinite DEF FindPage
  <2>3. QED
    BY <1>5, <2>1, <2>2 DEF FindPage, StatementsTypeOK
<1>6. CASE CountRows
  <2>1. Begun' = Begun
    BY <1>6 DEF CountRows, Begun
  <2>2. QED
    BY <1>1, <1>6, <2>1 DEF CountRows, StatementsTypeOK
<1>7. CASE AnswerPage
  <2>1. Begun' = Begun /\ created' = created /\ committed' = committed /\ old' = old
    BY <1>7 DEF AnswerPage, Begun
  <2>2. PICK rs \in found, n \in total :
          /\ read' = read \cup rs
          /\ pageNo' = IF pageNo < TotalPages(n) THEN pageNo + 1 ELSE 0
          /\ found' = {} /\ total' = {}
          /\ between' = IF pageNo < TotalPages(n) THEN {} ELSE between
    BY <1>7 DEF AnswerPage
  <2>3. n \in Nat /\ n <= Cardinality(Rows) /\ pageNo \in Nat
    BY <1>1 DEF StatementsTypeOK
  <2>4. TotalPages(n) \in Nat /\ TotalPages(n) <= n + 1
    BY <2>3, LastPage
  <2>5. pageNo' \in 0 .. Cardinality(Rows) + 1
    BY <1>1, <2>2, <2>3, <2>4
  <2>6. read' \subseteq committed'
    BY <2>1, <2>2 DEF StatementsTypeOK, ReaderInv, PageIsNext
  <2>7. QED
    BY <2>1, <2>2, <2>5, <2>6 DEF StatementsTypeOK
<1>8. CASE UNCHANGED stvars
  BY <1>8 DEF stvars, StatementsTypeOK, Begun
<1>9. QED
  BY <1>2, <1>3, <1>4, <1>5, <1>6, <1>7, <1>8 DEF StatementsNext

-----------------------------------------------------------------------------
(* The reader.                                                             *)

LEMMA ReaderNext == StatementsTypeOK /\ ReaderInv /\ [StatementsNext]_stvars => ReaderInv'
<1> SUFFICES ASSUME StatementsTypeOK, ReaderInv, [StatementsNext]_stvars
             PROVE  ReaderInv'
  OBVIOUS
<1>t. StatementsTypeOK'
  BY StatementsType
<1>n. /\ pageNo \in Nat /\ Limit \in Nat \ {0} /\ Cardinality(committed) \in Nat
      /\ \A r \in Unread : r \in committed /\ Rank(r) \in Nat /\ Rank(r) < Cardinality(committed)
  BY CommittedFinite, RankBelow, StatementsAssumption DEF StatementsTypeOK, Unread
<1>1. ASSUME NEW r \in Rows, BeginTransaction(r)
      PROVE  ReaderInv'
  <2>1. \A s \in committed : created'[s] = created[s]
    BY <1>1 DEF BeginTransaction, StatementsTypeOK, Begun
  <2>2. PageIsNext'
    BY <1>1, <1>t, <2>1, ReaderUntouched DEF BeginTransaction
  <2>3. QED
    BY <1>1, <2>2 DEF BeginTransaction, ReaderInv, CountIsTrue, ReadingOver
<1>2. ASSUME NEW r \in Rows, CommitTransaction(r)
      PROVE  ReaderInv'
  <2>1. PageIsNext'
    BY <1>2, <1>t, ReaderUntouched DEF CommitTransaction
  <2>2. CountIsTrue'
    BY <1>2 DEF CommitTransaction, ReaderInv, CountIsTrue
  <2>3. ReadingOver'
    BY <1>2 DEF CommitTransaction, ReaderInv, ReadingOver
  <2>4. QED
    BY <2>1, <2>2, <2>3 DEF ReaderInv
<1>3. CASE AskFirst
  <2>1. found = {} /\ total = {} /\ found' = {} /\ total' = {} /\ pageNo' = 1
    BY <1>3 DEF AskFirst, ReaderInv, ReadingOver
  <2>2. (pageNo' - 1) * Limit = 0
    BY <1>n, <2>1
  <2>3. Unread' \subseteq committed /\ \A r \in committed : Rank(r)' = Rank(r)
    BY <1>3 DEF AskFirst, Unread, Rank
  <2>4. \A r \in Unread' : Rank(r)' \in Nat
    BY <2>3, RankBelow
  <2>5. PageIsNext'
    BY <2>1, <2>2, <2>4 DEF PageIsNext
  <2>6. QED
    BY <2>1, <2>5 DEF ReaderInv, CountIsTrue, ReadingOver
<1>4. CASE FindPage
  <2> DEFINE rs == {r \in committed : Rank(r) \div Limit = pageNo - 1}
  <2>1. /\ found' = {rs} /\ Unread' = Unread /\ pageNo' = pageNo /\ committed' = committed
        /\ found = {} /\ pageNo > 0
    BY <1>4 DEF FindPage, Unread
  <2>2. \A r \in Unread : Rank(r)' = Rank(r)
    BY <1>4 DEF FindPage, Rank
  <2>3. ASSUME NEW r \in Unread \ rs
        PROVE  Rank(r) >= pageNo * Limit
    <3> DEFINE k == Rank(r) \div Limit
    <3>1. Rank(r) \in Nat /\ k # pageNo - 1
      BY <1>n
    <3>2. k \in Nat /\ k * Limit <= Rank(r) /\ Rank(r) < (k + 1) * Limit
      BY <3>1, PageBounds
    <3>3. Rank(r) >= (pageNo - 1) * Limit
      BY <2>1 DEF ReaderInv, PageIsNext
    <3> HIDE DEF k
    <3>4. k >= pageNo - 1
      <4>1. SUFFICES ASSUME k + 1 <= pageNo - 1
                     PROVE  FALSE
        BY <1>n, <3>2
      <4>2. (k + 1) * Limit <= (pageNo - 1) * Limit
        BY <1>n, <2>1, <3>2, <4>1, TimesGrows
      <4>3. (k + 1) * Limit \in Nat /\ (pageNo - 1) * Limit \in Nat
        BY <1>n, <2>1, <3>2
      <4>4. QED
        BY <3>1, <3>2, <3>3, <4>2, <4>3
    <3>5. pageNo * Limit <= k * Limit
      BY <1>n, <3>1, <3>2, <3>4, TimesGrows
    <3>6. pageNo * Limit \in Nat /\ k * Limit \in Nat
      BY <1>n, <3>2
    <3>7. QED
      BY <3>1, <3>2, <3>5, <3>6
  <2> HIDE DEF rs
  <2>4. rs \subseteq committed
    BY DEF rs
  <2>5. PageIsNext'
    BY <2>1, <2>2, <2>3, <2>4 DEF PageIsNext
  <2>6. CountIsTrue' /\ ReadingOver'
    BY <1>4 DEF FindPage, ReaderInv, CountIsTrue, ReadingOver
  <2>7. QED
    BY <2>5, <2>6 DEF ReaderInv
<1>5. CASE CountRows
  <2>1. Unread' = Unread /\ \A r \in Unread : Rank(r)' = Rank(r)
    BY <1>5 DEF CountRows, Unread, Rank
  <2>2. PageIsNext'
    BY <1>5, <2>1 DEF CountRows, ReaderInv, PageIsNext
  <2>3. CountIsTrue' /\ ReadingOver'
    BY <1>5 DEF CountRows, ReaderInv, CountIsTrue, ReadingOver
  <2>4. QED
    BY <2>2, <2>3 DEF ReaderInv
<1>6. CASE AnswerPage
  <2>1. PICK rs \in found, n \in total :
          /\ read' = read \cup rs
          /\ pageNo' = IF pageNo < TotalPages(n) THEN pageNo + 1 ELSE 0
          /\ found' = {} /\ total' = {}
          /\ between' = IF pageNo < TotalPages(n) THEN {} ELSE between
          /\ UNCHANGED <<created, committed, old>>
    BY <1>6 DEF AnswerPage
  <2>2. Unread' = Unread \ rs /\ \A r \in Unread : Rank(r)' = Rank(r)
    BY <2>1 DEF Unread, Rank
  <2>3. n \in Nat /\ pageNo > 0
    BY <1>n, CommittedFinite DEF StatementsTypeOK, ReaderInv, ReadingOver
  <2>4. \A r \in Unread \ rs : Rank(r) >= pageNo * Limit
    BY DEF ReaderInv, PageIsNext
  <2>5. TotalPages(n) \in Nat /\ n <= TotalPages(n) * Limit
    BY <2>3, LastPage
  <2>6. CASE pageNo < TotalPages(n)
    <3>1. pageNo' = pageNo + 1 /\ pageNo' - 1 = pageNo
      BY <1>n, <2>1, <2>6
    <3>2. PageIsNext'
      BY <2>1, <2>2, <2>4, <3>1 DEF PageIsNext
    <3>3. pageNo' # 0
      BY <1>n, <3>1
    <3>4. QED
      BY <2>1, <3>2, <3>3 DEF ReaderInv, CountIsTrue, ReadingOver
  <2>7. CASE ~(pageNo < TotalPages(n))
    <3>1. pageNo' = 0 /\ between' = between
      BY <2>1, <2>7
    <3>2. ASSUME between = {}, NEW r \in Unread \ rs
          PROVE  FALSE
      <4>1. n = Cardinality(committed)
        BY <3>2 DEF ReaderInv, CountIsTrue
      <4>2. TotalPages(n) * Limit <= pageNo * Limit
        BY <1>n, <2>5, <2>7, TimesGrows
      <4>3. Rank(r) >= pageNo * Limit /\ Rank(r) < n /\ Rank(r) \in Nat
        BY <1>n, <2>4, <4>1
      <4>4. pageNo * Limit \in Nat /\ TotalPages(n) * Limit \in Nat
        BY <1>n, <2>5
      <4>5. QED
        BY <2>3, <2>5, <4>2, <4>3, <4>4
    <3>3. between' = {} => old' \subseteq read'
      BY <2>1, <3>1, <3>2 DEF Unread
    <3>4. PageIsNext'
      BY <2>1, <3>1 DEF PageIsNext
    <3>5. QED
      BY <2>1, <3>3, <3>4 DEF ReaderInv, CountIsTrue, ReadingOver
  <2>8. QED
    BY <2>6, <2>7
<1>7. CASE UNCHANGED stvars
  <2>1. Unread' = Unread /\ \A r \in Unread : Rank(r)' = Rank(r)
    BY <1>7 DEF stvars, Unread, Rank
  <2>2. PageIsNext'
    BY <1>7, <2>1 DEF stvars, ReaderInv, PageIsNext
  <2>3. QED
    BY <1>7, <2>2 DEF stvars, ReaderInv, CountIsTrue, ReadingOver
<1>8. QED
  BY <1>1, <1>2, <1>3, <1>4, <1>5, <1>6, <1>7 DEF StatementsNext

\* For any number of rows and rows per page.
THEOREM NothingSkipped == StatementsSpec => []OldRowsAreRead
<1>1. ReaderInv => OldRowsAreRead
  BY DEF ReaderInv, ReadingOver, OldRowsAreRead
<1>2. QED
  BY <1>1, StatementsInitInv, StatementsType, ReaderNext, PTL DEF StatementsSpec

-----------------------------------------------------------------------------
(***************************************************************************)
(* The history page.                                                       *)
(***************************************************************************)

\* The request that was sent last is for what the controls say, as long as no
\* timer runs: it is in flight and nothing has overtaken it, or it has come back,
\* and then whatever is in flight still is overtaken.
LatestIsOfFilter ==
  /\ timer # NoFilter => timer = filter
  /\ timer = NoFilter =>
       \/ asked # <<>> /\ asked[Len(asked)] = [filter |-> filter, overtaken |-> FALSE]
       \/ (\A k \in DOMAIN asked : asked[k].overtaken) /\ (behind \/ list = filter)

\* RemoveAt closes the gap.
LEMMA RemoveAtIs ==
  ASSUME NEW S, NEW s \in Seq(S), NEW i \in 1 .. Len(s)
  PROVE  /\ RemoveAt(s, i) \in Seq(S)
         /\ Len(RemoveAt(s, i)) = Len(s) - 1
         /\ \A k \in 1 .. Len(s) - 1 : RemoveAt(s, i)[k] = IF k < i THEN s[k] ELSE s[k + 1]
<1> DEFINE a == SubSeq(s, 1, i - 1)
           b == SubSeq(s, i + 1, Len(s))
<1>1. /\ a \in Seq(S) /\ Len(a) = i - 1 /\ \A k \in 1 .. i - 1 : a[k] = s[k]
  OBVIOUS
<1>2. /\ b \in Seq(S) /\ Len(b) = Len(s) - i
      /\ \A k \in 1 .. Len(s) - i : b[k] = s[k + i]
  OBVIOUS
<1>3. RemoveAt(s, i) = a \o b
  BY DEF RemoveAt
<1> HIDE DEF a, b
<1>4. a \o b \in Seq(S) /\ Len(a \o b) = Len(s) - 1
  <2>1. a \o b \in Seq(S) /\ Len(a \o b) = Len(a) + Len(b)
    BY <1>1, <1>2, ConcatProperties
  <2>2. Len(a) + Len(b) = Len(s) - 1
    BY <1>1, <1>2
  <2>3. QED
    BY <2>1, <2>2
<1>5. ASSUME NEW k \in 1 .. Len(s) - 1
      PROVE  (a \o b)[k] = IF k < i THEN s[k] ELSE s[k + 1]
  <2>1. CASE k < i
    <3>1. k \in 1 .. Len(a) /\ k \in 1 .. i - 1
      BY <1>1, <2>1
    <3>2. (a \o b)[k] = a[k]
      BY <1>1, <1>2, <3>1
    <3>3. QED
      BY <1>1, <2>1, <3>1, <3>2
  <2>2. CASE ~(k < i)
    <3>1. k - Len(a) \in 1 .. Len(s) - i /\ k - Len(a) + i = k + 1
      BY <1>1, <2>2
    <3>2. (a \o b)[k] = b[k - Len(a)]
      BY <1>1, <1>2, <2>2
    <3>3. QED
      BY <1>2, <2>2, <3>1, <3>2
  <2>3. QED
    BY <2>1, <2>2
<1>6. QED
  BY <1>3, <1>4, <1>5

\* What is left in flight when a request has come back.
LEMMA RestIs ==
  ASSUME asked \in Seq(Asked), NEW i \in DOMAIN asked
  PROVE  /\ Rest(i) \in Seq(Asked)
         /\ Len(Rest(i)) = Len(asked) - 1
         /\ \A k \in 1 .. Len(asked) - 1 :
              Rest(i)[k] = IF k < i THEN [asked[k] EXCEPT !.overtaken = TRUE] ELSE asked[k + 1]
<1> DEFINE s == [k \in DOMAIN asked |-> IF k < i THEN [asked[k] EXCEPT !.overtaken = TRUE]
                                                ELSE asked[k]]
<1>1. s \in Seq(Asked) /\ Len(s) = Len(asked) /\ DOMAIN s = 1 .. Len(asked)
  <2>1. DOMAIN asked = 1 .. Len(asked) /\ Len(asked) \in Nat
    OBVIOUS
  <2>2. ASSUME NEW k \in DOMAIN asked
        PROVE  s[k] \in Asked
    <3>1. asked[k] \in Asked
      OBVIOUS
    <3>2. [asked[k] EXCEPT !.overtaken = TRUE] \in Asked
      BY <3>1 DEF Asked
    <3>3. QED
      BY <3>1, <3>2
  <2>3. s \in [1 .. Len(asked) -> Asked]
    BY <2>1, <2>2
  <2>4. QED
    BY <2>1, <2>3
<1>2. i \in 1 .. Len(s)
  BY <1>1
<1>3. \A k \in DOMAIN asked : s[k] = IF k < i THEN [asked[k] EXCEPT !.overtaken = TRUE]
                                              ELSE asked[k]
  OBVIOUS
<1>4. Rest(i) = RemoveAt(s, i)
  BY DEF Rest
<1> HIDE DEF s
<1>5. /\ RemoveAt(s, i) \in Seq(Asked)
      /\ Len(RemoveAt(s, i)) = Len(s) - 1
      /\ \A k \in 1 .. Len(s) - 1 : RemoveAt(s, i)[k] = IF k < i THEN s[k] ELSE s[k + 1]
  BY <1>1, <1>2, RemoveAtIs
<1>6. ASSUME NEW k \in 1 .. Len(asked) - 1
      PROVE  Rest(i)[k] = IF k < i THEN [asked[k] EXCEPT !.overtaken = TRUE] ELSE asked[k + 1]
  <2>1. k \in DOMAIN asked /\ k + 1 \in DOMAIN asked
    BY <1>1
  <2>2. k >= i => ~(k + 1 < i) /\ ~(k < i)
    BY <1>1, <1>2
  <2>3. Rest(i)[k] = IF k < i THEN s[k] ELSE s[k + 1]
    BY <1>1, <1>4, <1>5
  <2>4. CASE k < i
    BY <1>3, <2>1, <2>3, <2>4
  <2>5. CASE ~(k < i)
    <3>1. ~(k + 1 < i)
      BY <1>2, <1>1, <2>5
    <3>2. QED
      BY <1>3, <2>1, <2>3, <2>5, <3>1
  <2>6. QED
    BY <2>4, <2>5
<1>7. QED
  BY <1>1, <1>4, <1>5, <1>6

LEMMA HistoryPageInitInv ==
  HistoryPageInit => HistoryPageTypeOK /\ LatestIsOfFilter
<1> SUFFICES ASSUME HistoryPageInit
             PROVE  HistoryPageTypeOK /\ LatestIsOfFilter
  OBVIOUS
<1>1. asked \in Seq(Asked) /\ Len(asked) = 0
  BY DEF HistoryPageInit
<1>2. timer # NoFilter /\ timer = filter /\ filter \in Filters
  BY HistoryPageAssumption DEF HistoryPageInit
<1>3. Len(asked) <= MaxAsked
  BY <1>1, HistoryPageAssumption
<1>4. list \in Filters \cup {NoFilter} /\ behind \in BOOLEAN
  BY DEF HistoryPageInit
<1>5. HistoryPageTypeOK
  BY <1>1, <1>2, <1>3, <1>4 DEF HistoryPageTypeOK
<1>6. QED
  BY <1>2, <1>5 DEF LatestIsOfFilter

LEMMA HistoryPageNextInv ==
  HistoryPageTypeOK /\ LatestIsOfFilter /\ [HistoryPageNext]_hpvars
    => HistoryPageTypeOK' /\ LatestIsOfFilter'
<1> SUFFICES ASSUME HistoryPageTypeOK, LatestIsOfFilter, [HistoryPageNext]_hpvars
             PROVE  HistoryPageTypeOK' /\ LatestIsOfFilter'
  OBVIOUS
<1> USE HistoryPageAssumption
<1>1. ASSUME NEW f \in Filters, ChangeFilter(f)
      PROVE  HistoryPageTypeOK' /\ LatestIsOfFilter'
  BY <1>1 DEF ChangeFilter, Restart, HistoryPageTypeOK, LatestIsOfFilter
<1>2. ASSUME Fetch
      PROVE  HistoryPageTypeOK' /\ LatestIsOfFilter'
  <2> DEFINE q == [filter |-> timer, overtaken |-> FALSE]
  <2>1. q \in Asked /\ timer = filter /\ asked' = Append(asked, q)
    BY <1>2 DEF Fetch, HistoryPageTypeOK, LatestIsOfFilter, Asked
  <2>2. asked' \in Seq(Asked) /\ asked' # <<>> /\ Len(asked') = Len(asked) + 1 /\ asked'[Len(asked')] = q
    BY <2>1 DEF HistoryPageTypeOK
  <2>3. QED
    BY <1>2, <2>1, <2>2 DEF Fetch, HistoryPageTypeOK, LatestIsOfFilter
<1>3. ASSUME NEW i \in DOMAIN asked, Answer(i) \/ AnswerFails(i)
      PROVE  HistoryPageTypeOK' /\ LatestIsOfFilter'
  <2>1. /\ asked \in Seq(Asked) /\ asked' = Rest(i) /\ Len(asked) \in Nat /\ i \in 1 .. Len(asked)
        /\ asked[i] \in Asked
    BY <1>3 DEF Answer, AnswerFails, HistoryPageTypeOK
  <2>2. /\ asked' \in Seq(Asked) /\ Len(asked') = Len(asked) - 1 /\ DOMAIN asked' = 1 .. Len(asked) - 1
        /\ \A k \in 1 .. Len(asked) - 1 :
             asked'[k] = IF k < i THEN [asked[k] EXCEPT !.overtaken = TRUE] ELSE asked[k + 1]
    <3>1. DOMAIN Rest(i) = 1 .. Len(Rest(i))
      BY <2>1, RestIs
    <3>2. QED
      BY <2>1, <3>1, RestIs
  <2>3. HistoryPageTypeOK'
    <3>1. asked[i].filter \in Filters /\ asked[i].overtaken \in BOOLEAN
      BY <2>1 DEF Asked
    <3>2. /\ list' \in Filters \cup {NoFilter} /\ behind' \in BOOLEAN
          /\ filter' = filter /\ timer' = timer
      BY <1>3, <3>1 DEF Answer, AnswerFails, HistoryPageTypeOK
    <3>3. Len(asked') <= MaxAsked
      BY <2>1, <2>2 DEF HistoryPageTypeOK
    <3>4. QED
      BY <2>2, <3>2, <3>3 DEF HistoryPageTypeOK
  <2>4. ASSUME timer = NoFilter
        PROVE  \/ /\ asked' # <<>>
                  /\ asked'[Len(asked')] = [filter |-> filter, overtaken |-> FALSE]
               \/ /\ \A k \in DOMAIN asked' : asked'[k].overtaken
                  /\ behind' \/ list' = filter
    <3>1. CASE i < Len(asked) /\ asked[Len(asked)] = [filter |-> filter, overtaken |-> FALSE]
      BY <2>1, <2>2, <3>1
    <3>2. CASE i = Len(asked) /\ asked[Len(asked)] = [filter |-> filter, overtaken |-> FALSE]
      <4>1. \A k \in 1 .. Len(asked) - 1 : asked'[k].overtaken
        <5> TAKE k \in 1 .. Len(asked) - 1
        <5>1. asked[k] \in Asked /\ asked'[k] = [asked[k] EXCEPT !.overtaken = TRUE]
          BY <2>1, <2>2, <3>2
        <5>2. QED
          BY <5>1 DEF Asked
      <4>2. behind' \/ list' = filter
        <5>1. asked[i].filter = filter /\ ~asked[i].overtaken
          BY <3>2
        <5>2. QED
          BY <1>3, <5>1 DEF Answer, AnswerFails
      <4>3. QED
        BY <2>2, <4>1, <4>2
    <3>3. CASE (\A k \in DOMAIN asked : asked[k].overtaken) /\ (behind \/ list = filter)
      <4>1. \A k \in 1 .. Len(asked) - 1 : asked'[k].overtaken
        <5> TAKE k \in 1 .. Len(asked) - 1
        <5>1. k \in 1 .. Len(asked) /\ k + 1 \in 1 .. Len(asked)
          BY <2>1
        <5>2. asked[k] \in Asked
          BY <2>1, <5>1
        <5>3. QED
          BY <2>1, <2>2, <3>3, <5>1, <5>2 DEF Asked
      <4>2. behind' \/ list' = filter
        BY <1>3, <2>1, <3>3 DEF Answer, AnswerFails
      <4>3. QED
        BY <2>2, <4>1, <4>2
    <3>4. QED
      BY <2>1, <2>4, <3>1, <3>2, <3>3 DEF LatestIsOfFilter
  <2>5. timer' = timer /\ filter' = filter
    BY <1>3 DEF Answer, AnswerFails
  <2>6. QED
    BY <2>3, <2>4, <2>5 DEF LatestIsOfFilter
<1>4. CASE UNCHANGED hpvars
  BY <1>4 DEF hpvars, HistoryPageTypeOK, LatestIsOfFilter
<1>5. QED
  BY <1>1, <1>2, <1>3, <1>4 DEF HistoryPageNext

\* For any filters and any number of requests in flight.
THEOREM ListIsCurrent == HistoryPageSpec => []ListIsOfFilter
<1>1. HistoryPageTypeOK /\ LatestIsOfFilter => ListIsOfFilter
  BY DEF HistoryPageTypeOK, LatestIsOfFilter, ListIsOfFilter
<1>2. QED
  BY <1>1, HistoryPageInitInv, HistoryPageNextInv, PTL DEF HistoryPageSpec
=============================================================================
