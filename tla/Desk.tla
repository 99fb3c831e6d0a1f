-------------------------------- MODULE Desk --------------------------------
(***************************************************************************)
(* The console of a support operator (operator/page.tsx) and the routes it *)
(* calls: search, deposit, loan, freeze, recovery link, dead letters.      *)
(*                                                                         *)
(* A job is one click.  Its handler keeps the panel it was rendered with   *)
(* and waits for the route, which reads or commits, then audits, then      *)
(* answers; the answer may be lost.  A customer has one account, and what  *)
(* a deposit or a loan puts on it is one unit.                             *)
(***************************************************************************)
EXTENDS Integers, FiniteSets

CONSTANTS
  Jobs,       \* the clicks of the operator
  Load,       \* the job that loads the page
  Customers,
  Nil

All     == Jobs \cup {Load}
Pays    == {"deposit", "loan"}
Kinds   == Pays \cup {"search", "freeze", "recover", "replay", "load"}
Stages  == {"sent", "published", "audit", "answered", "list", "listed"}
Results == {"OK", "ERROR"}

ASSUME DeskAssumption ==
  /\ Load \notin Jobs
  /\ Nil \notin Customers \cup All \cup Kinds \cup Stages \cup Results

VARIABLES
  \* the server
  balance, frozen, \* of the account of each customer
  done,        \* jobs whose reading or whose change is made
  audited,     \* jobs with an audit entry
  published,   \* how often the dead letter was published again
  replayed,    \* its replayedAt is set
  \* the jobs
  kind,        \* None until the click
  cust,        \* the customer it is for
  freeze,      \* the status a freeze asks for
  query,       \* a search has a query
  seen,        \* the panel when it was clicked
  stage,       \* of the route: "sent", "audit", "answered"
  result,      \* what it answers
  got,         \* what it has read
  told,        \* what the operator is told
  \* the page
  panel,       \* selectedCustomer
  records,     \* customerRecords
  offered,     \* the list offers to replay the dead letter
  busy,        \* kinds of handler whose button is disabled
  freezing,    \* isFreezing
  link,        \* the recovery job whose link is displayed
  \* history, for the properties
  switched,    \* jobs that ran while the panel went to another customer
  unlisted     \* replays after which no list arrived

serverVars  == <<balance, frozen, done, audited, published, replayed>>
click       == <<kind, cust, freeze, query, seen>>
route       == <<stage, result, got>>
screen      == <<panel, records, offered, busy, freezing, link>>
deskHistory == <<switched, unlisted>>
deskVars    == <<serverVars, click, route, told, screen, deskHistory>>

\* A customer as the page keeps him; "knows" is history: the freezes that were
\* done when he was read, or that were added since.
Record == [cust : Customers, balance : Nat, frozen : BOOLEAN, knows : SUBSET All]

Current(u) == [cust |-> u, balance |-> balance[u], frozen |-> frozen[u],
               knows |-> {j \in done : kind[j] = "freeze" /\ cust[j] = u}]

DeskInit ==
  /\ balance = [u \in Customers |-> 0]
  /\ frozen = [u \in Customers |-> FALSE]
  /\ done = {} /\ audited = {} /\ published = 0 /\ replayed = FALSE
  /\ kind = [j \in All |-> IF j = Load THEN "load" ELSE Nil]
  /\ cust = [j \in All |-> Nil]
  /\ freeze = [j \in All |-> FALSE] /\ query = [j \in All |-> FALSE]
  /\ seen = [j \in All |-> Nil]
  /\ stage = [j \in All |-> IF j = Load THEN "sent" ELSE Nil]
  /\ result = [j \in All |-> Nil] /\ got = [j \in All |-> {}]
  /\ told = [j \in All |-> Nil]
  /\ panel = Nil /\ records = {} /\ offered = FALSE
  /\ busy = {} /\ freezing = Nil /\ link = Nil
  /\ switched = {} /\ unlisted = {}

\* The handlers that still run, those of replays until their list is there.
RunningJobs == {j \in All : kind[j] # Nil /\ (told[j] = Nil \/ stage[j] = "list")}

-----------------------------------------------------------------------------
(* Clicks.                                                                 *)

Click(k, u, s, q) ==
  \E j \in {i \in Jobs : kind[i] = Nil} :
    /\ kind' = [kind EXCEPT ![j] = k]
    /\ cust' = [cust EXCEPT ![j] = u]
    /\ freeze' = [freeze EXCEPT ![j] = s]
    /\ query' = [query EXCEPT ![j] = q]
    /\ seen' = [seen EXCEPT ![j] = panel]
    /\ stage' = [stage EXCEPT ![j] = "sent"]
    /\ UNCHANGED <<serverVars, result, got, told, panel, records, offered, switched, unlisted>>

Busy(k) == /\ k \notin busy
           /\ busy' = busy \cup {k}
           /\ UNCHANGED freezing

\* handleLookup: the query may be left empty, the reason may not.
Lookup(q) == Busy("search") /\ Click("search", Nil, FALSE, q) /\ UNCHANGED link

\* handleExecuteDeposit and handleIssueLoan: the account is what the field says,
\* whoever the panel shows.
ExecuteDeposit(u) == Busy("deposit") /\ Click("deposit", u, FALSE, FALSE) /\ UNCHANGED link
IssueLoan(u)      == Busy("loan") /\ Click("loan", u, FALSE, FALSE) /\ UNCHANGED link

\* handleToggleFreezeAccount: one account at a time has its button disabled.
ToggleFreeze ==
  /\ panel # Nil /\ freezing # panel.cust
  /\ freezing' = panel.cust
  /\ Click("freeze", panel.cust, ~panel.frozen, FALSE)
  /\ UNCHANGED <<busy, link>>

\* handleInitiateRecovery, with the fields as the panel has filled them.
InitiateRecovery ==
  /\ panel # Nil
  /\ Busy("recover") /\ Click("recover", panel.cust, FALSE, FALSE)
  /\ link' = Nil

\* handleReplayDlq
ReplayDlq ==
  /\ offered
  /\ Busy("replay") /\ Click("replay", Nil, FALSE, FALSE)
  /\ UNCHANGED link

-----------------------------------------------------------------------------
(* The panel.  Whenever it changes, the link is cleared.                   *)

Switch(p) ==
  switched' = IF p # Nil /\ panel # Nil /\ p.cust = panel.cust
                THEN switched ELSE switched \cup RunningJobs

\* Mutant of Show: the link stays.
ShowLinked(p) == panel' = p /\ Switch(p) /\ UNCHANGED link

Show(p) ==
  /\ panel' = p
  /\ Switch(p)
  /\ link' = IF p = Nil THEN link ELSE Nil

\* A search result is clicked, which changes nothing if the panel shows it.
Pick(r) ==
  /\ r \in records
  /\ \/ Show(r)
     \/ r = panel /\ UNCHANGED <<panel, link, switched>>
  /\ UNCHANGED <<serverVars, click, route, told, records, offered, busy, freezing, unlisted>>

-----------------------------------------------------------------------------
(* The routes.                                                             *)

Working(j, s) == stage[j] = s

Finish(j, a) == /\ stage' = [stage EXCEPT ![j] = "answered"]
                /\ result' = [result EXCEPT ![j] = a]

\* Without a query the customers are not audited, nor are they when the page is
\* loaded.
NeedsAudit(j) == kind[j] # "load" /\ (kind[j] = "search" => query[j])

Proceed(j) == IF NeedsAudit(j)
              THEN stage' = [stage EXCEPT ![j] = "audit"] /\ UNCHANGED result
              ELSE Finish(j, "OK")

\* GET customers: those the query finds.
ReadCustomers(j) ==
  /\ Working(j, "sent") /\ kind[j] \in {"search", "load"}
  /\ \E matches \in IF query[j] THEN SUBSET Customers ELSE {Customers} :
       got' = [got EXCEPT ![j] = {Current(u) : u \in matches}]
  /\ done' = done \cup {j}
  /\ Proceed(j)
  /\ UNCHANGED <<balance, frozen, audited, published, replayed, click, told, screen, deskHistory>>

\* POST deposit and loans/issue: one transaction.
Credit(j) ==
  /\ Working(j, "sent") /\ kind[j] \in Pays
  /\ balance' = [balance EXCEPT ![cust[j]] = @ + 1]
  /\ done' = done \cup {j}
  /\ Proceed(j)
  /\ UNCHANGED <<frozen, audited, published, replayed, click, got, told, screen, deskHistory>>

\* POST accounts/freeze
SetStatus(j) ==
  /\ Working(j, "sent") /\ kind[j] = "freeze"
  /\ frozen' = [frozen EXCEPT ![cust[j]] = freeze[j]]
  /\ done' = done \cup {j}
  /\ Proceed(j)
  /\ UNCHANGED <<balance, audited, published, replayed, click, got, told, screen, deskHistory>>

\* POST recover (the token is modelled in Credentials).
IssueLink(j) ==
  /\ Working(j, "sent") /\ kind[j] = "recover"
  /\ done' = done \cup {j}
  /\ Proceed(j)
  /\ UNCHANGED <<balance, frozen, audited, published, replayed, click, got, told, screen, deskHistory>>

\* POST dlq/replay: the event goes to the bus first, and replayedAt is not looked at.
Publish(j) ==
  /\ Working(j, "sent") /\ kind[j] = "replay"
  /\ published' = published + 1
  /\ stage' = [stage EXCEPT ![j] = "published"]
  /\ UNCHANGED <<balance, frozen, done, audited, replayed, result, got, click, told, screen, deskHistory>>

SetReplayedAt(j) ==
  /\ Working(j, "published")
  /\ replayed' = TRUE
  /\ done' = done \cup {j}
  /\ Proceed(j)
  /\ UNCHANGED <<balance, frozen, audited, published, click, got, told, screen, deskHistory>>

\* recordAuditEvent and auditEvent.create
Audit(j) ==
  /\ Working(j, "audit")
  /\ audited' = audited \cup {j}
  /\ Finish(j, "OK")
  /\ UNCHANGED <<balance, frozen, done, published, replayed, got, click, told, screen, deskHistory>>

\* Any statement may throw, and the request may be refused.
RouteFails(j) ==
  /\ stage[j] \in {"sent", "published", "audit"}
  /\ Finish(j, "ERROR")
  /\ UNCHANGED <<serverVars, click, got, told, screen, deskHistory>>

-----------------------------------------------------------------------------
(* The answers.                                                            *)

\* The button is enabled again, and so is that of every account.
Release(j) == /\ busy' = busy \ {kind[j]}
              /\ freezing' = IF kind[j] = "freeze" THEN Nil ELSE freezing

Told(j, a) == told' = [told EXCEPT ![j] = a]

Due(j) == /\ Working(j, "answered") /\ result[j] = "OK" /\ told[j] = Nil

\* The results are listed, and the first of them is shown.
DeliverCustomers(j) ==
  /\ Due(j) /\ kind[j] = "search"
  /\ records' = got[j]
  /\ IF got[j] = {} THEN Show(Nil) ELSE \E r \in got[j] : Show(r)
  /\ Told(j, "OK") /\ Release(j)
  /\ UNCHANGED <<serverVars, click, route, offered, unlisted>>

\* loadData: the dead letters, the customers, or both are there.
DeliverLoad ==
  /\ Due(Load)
  /\ offered' \in BOOLEAN
  /\ \/ records' = got[Load] /\ \E r \in got[Load] : Show(r)
     \/ UNCHANGED <<records, panel, link, switched>>
  /\ Told(Load, "OK") /\ Release(Load)
  /\ UNCHANGED <<serverVars, click, route, unlisted>>

\* setSelectedCustomer with the panel the handler has kept, changed if it is his.
Change(j, r) ==
  IF seen[j] = Nil
    THEN UNCHANGED <<panel, link, switched>>
    ELSE Show(IF seen[j].cust = cust[j] THEN r ELSE seen[j])

\* Mutant of DeliverCredit: the panel of the moment is changed.
DeliverCreditLate(j) ==
  /\ Due(j) /\ kind[j] \in Pays
  /\ IF panel # Nil /\ panel.cust = cust[j]
       THEN Show([panel EXCEPT !.balance = @ + 1])
       ELSE UNCHANGED <<panel, link, switched>>
  /\ Told(j, "OK") /\ Release(j)
  /\ UNCHANGED <<serverVars, click, route, records, offered, unlisted>>

DeliverCredit(j) ==
  /\ Due(j) /\ kind[j] \in Pays
  /\ Change(j, [seen[j] EXCEPT !.balance = @ + 1])
  /\ Told(j, "OK") /\ Release(j)
  /\ UNCHANGED <<serverVars, click, route, records, offered, unlisted>>

DeliverFreeze(j) ==
  /\ Due(j) /\ kind[j] = "freeze"
  /\ Change(j, [seen[j] EXCEPT !.frozen = freeze[j], !.knows = @ \cup {j}])
  /\ Told(j, "OK") /\ Release(j)
  /\ UNCHANGED <<serverVars, click, route, records, offered, unlisted>>

DeliverLink(j) ==
  /\ Due(j) /\ kind[j] = "recover"
  /\ link' = j
  /\ Told(j, "OK") /\ Release(j)
  /\ UNCHANGED <<serverVars, click, route, panel, records, offered, deskHistory>>

\* The list is fetched before the button is enabled.
DeliverReplay(j) ==
  /\ Due(j) /\ kind[j] = "replay"
  /\ stage' = [stage EXCEPT ![j] = "list"]
  /\ Told(j, "OK")
  /\ UNCHANGED <<serverVars, click, result, got, screen, deskHistory>>

\* Mutant of ListLetters: a letter is offered whether it was replayed or not.
ListLettersAll(j) ==
  /\ Working(j, "list")
  /\ offered' = TRUE
  /\ stage' = [stage EXCEPT ![j] = "listed"]
  /\ Release(j)
  /\ UNCHANGED <<serverVars, click, result, got, told, panel, records, link, deskHistory>>

ListLetters(j) ==
  /\ Working(j, "list")
  /\ offered' = ~replayed
  /\ stage' = [stage EXCEPT ![j] = "listed"]
  /\ Release(j)
  /\ UNCHANGED <<serverVars, click, result, got, told, panel, records, link, deskHistory>>

ListFails(j) ==
  /\ Working(j, "list")
  /\ stage' = [stage EXCEPT ![j] = "listed"]
  /\ unlisted' = unlisted \cup {j}
  /\ Release(j)
  /\ UNCHANGED <<serverVars, click, result, got, told, panel, records, offered, link, switched>>

\* Mutant of DeliverError: a freeze is shown whatever the answer.
DeliverFailureFrozen(j) ==
  /\ kind[j] # Nil /\ told[j] = Nil
  /\ IF kind[j] = "freeze"
       THEN Change(j, [seen[j] EXCEPT !.frozen = freeze[j]])
       ELSE UNCHANGED <<panel, link, switched>>
  /\ Told(j, "ERROR") /\ Release(j)
  /\ UNCHANGED <<serverVars, click, route, records, offered, unlisted>>

\* The route refuses, or its answer is lost, while it goes on perhaps.
DeliverFailure(j) ==
  /\ kind[j] # Nil /\ told[j] = Nil
  /\ Told(j, "ERROR") /\ Release(j)
  /\ UNCHANGED <<serverVars, click, route, panel, records, offered, link, deskHistory>>

-----------------------------------------------------------------------------

Operator ==
  \/ \E q \in BOOLEAN : Lookup(q)
  \/ \E u \in Customers : ExecuteDeposit(u) \/ IssueLoan(u)
  \/ ToggleFreeze \/ InitiateRecovery \/ ReplayDlq
  \/ \E r \in records : Pick(r)

Route(j) ==
  \/ ReadCustomers(j) \/ Credit(j) \/ SetStatus(j) \/ IssueLink(j)
  \/ Publish(j) \/ SetReplayedAt(j)
  \/ Audit(j) \/ RouteFails(j)

Deliver(j) ==
  \/ DeliverCustomers(j) \/ DeliverCredit(j) \/ DeliverFreeze(j) \/ DeliverLink(j)
  \/ DeliverReplay(j) \/ ListLetters(j) \/ ListFails(j)
  \/ DeliverFailure(j)

DeskNext == Operator \/ DeliverLoad \/ \E j \in All : Route(j) \/ Deliver(j)

DeskSpec == DeskInit /\ [][DeskNext]_deskVars
-----------------------------------------------------------------------------
(* Properties.                                                             *)

\* Every variable has its type.
DeskTypeOK ==
  /\ balance \in [Customers -> Nat]
  /\ frozen \in [Customers -> BOOLEAN]
  /\ done \subseteq All /\ audited \subseteq All
  /\ published \in Nat /\ replayed \in BOOLEAN
  /\ kind \in [All -> Kinds \cup {Nil}]
  /\ cust \in [All -> Customers \cup {Nil}]
  /\ freeze \in [All -> BOOLEAN]
  /\ query \in [All -> BOOLEAN]
  /\ seen \in [All -> Record \cup {Nil}]
  /\ stage \in [All -> Stages \cup {Nil}]
  /\ result \in [All -> Results \cup {Nil}]
  /\ got \in [All -> SUBSET Record]
  /\ told \in [All -> Results \cup {Nil}]
  /\ panel \in Record \cup {Nil}
  /\ records \subseteq Record
  /\ offered \in BOOLEAN
  /\ busy \subseteq Kinds
  /\ freezing \in Customers \cup {Nil}
  /\ link \in All \cup {Nil}
  /\ switched \subseteq All /\ unlisted \subseteq All

\* However the answers of searches, deposits, loans and freezes overtake each
\* other, the panel and the results never show more than is on the account.
PanelNeverAhead ==
  \A r \in records \cup ({panel} \ {Nil}) : r.balance <= balance[r.cust]

\* The panel shows a status that is not that of the account only if a freeze was
\* made that it does not include: its answer was an error or is to come, or an
\* older panel came back.
FrozenAsShown ==
  panel # Nil /\ panel.frozen # frozen[panel.cust] =>
    \E j \in done : kind[j] = "freeze" /\ cust[j] = panel.cust /\ j \notin panel.knows

\* A dead letter is published again only once, unless a replay was told to have
\* failed or the list after it did not arrive.
ReplayedOnce ==
  published > 1 => \E j \in Jobs : /\ kind[j] = "replay"
                                   /\ (told[j] = "ERROR" \/ j \in unlisted)

\* The link that is displayed is of the customer the panel shows, unless the
\* panel went to another one before the link arrived.
LinkIsOfShown ==
  link # Nil /\ panel # Nil /\ link \notin switched => cust[link] = panel.cust
=============================================================================
