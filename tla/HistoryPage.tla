------------------------------ MODULE HistoryPage ------------------------------
(***************************************************************************)
(* The transaction ledger as an operator sees it (history/page.tsx): the   *)
(* filters are controls, a change of them starts a timer, the timer sends  *)
(* a request, and every answer replaces the list.  A newer change stops    *)
(* the timer of an older one, but not its request once that is sent.       *)
(***************************************************************************)
EXTENDS Naturals, Sequences, SequencesExt

CONSTANTS
  Filters,   \* what the search field and the two menus can say
  First,     \* what they say when the page opens
  MaxAsked,  \* bound: requests in flight at one time
  NoFilter

ASSUME HistoryPageAssumption ==
  /\ First \in Filters /\ MaxAsked \in Nat \ {0} /\ NoFilter \notin Filters

VARIABLES
  filter,  \* what the controls say
  timer,   \* what the running timer will ask for, NoFilter without one
  asked,   \* requests in flight, in the order they were sent
  list,    \* the filter that the list displayed answers
  behind   \* history: the last word on the list was an older answer's, or a failure

hpvars == <<filter, timer, asked, list, behind>>

\* overtaken: a newer request has been answered, or has failed.
Asked == [filter : Filters, overtaken : BOOLEAN]

HistoryPageInit ==
  /\ filter = First /\ timer = First
  /\ asked = <<>> /\ list = NoFilter /\ behind = FALSE

-----------------------------------------------------------------------------

\* Mutant of Restart: a timer that runs is left to run.
RestartLeading(f) == timer' = IF timer = NoFilter THEN f ELSE timer

\* The effect of the new filter, after the cleanup of the one before.
Restart(f) == timer' = f

ChangeFilter(f) ==
  /\ f # filter
  /\ filter' = f
  /\ Restart(f)
  /\ UNCHANGED <<asked, list, behind>>

\* 300 ms later: fetchOperatorHistory.
Fetch ==
  /\ timer # NoFilter /\ Len(asked) < MaxAsked
  /\ asked' = Append(asked, [filter |-> timer, overtaken |-> FALSE])
  /\ timer' = NoFilter
  /\ UNCHANGED <<filter, list, behind>>

\* The requests that are left once the i-th has come back.
Rest(i) ==
  RemoveAt([k \in DOMAIN asked |-> IF k < i THEN [asked[k] EXCEPT !.overtaken = TRUE]
                                   ELSE asked[k]], i)

\* The query of the route: rows of the customers and accounts that match, of this
\* status and type, the newest first; the page puts them in place of its list.
Answer(i) ==
  /\ list' = asked[i].filter
  /\ behind' = asked[i].overtaken
  /\ asked' = Rest(i)
  /\ UNCHANGED <<filter, timer>>

\* An error is logged; the list stays.
AnswerFails(i) ==
  /\ behind' = (behind \/ ~asked[i].overtaken)
  /\ asked' = Rest(i)
  /\ UNCHANGED <<filter, timer, list>>

HistoryPageNext ==
  \/ \E f \in Filters : ChangeFilter(f)
  \/ Fetch
  \/ \E i \in DOMAIN asked : Answer(i) \/ AnswerFails(i)

HistoryPageSpec == HistoryPageInit /\ [][HistoryPageNext]_hpvars

-----------------------------------------------------------------------------
(* Properties.                                                             *)

HistoryPageTypeOK ==
  /\ filter \in Filters /\ timer \in Filters \cup {NoFilter}
  /\ asked \in Seq(Asked) /\ Len(asked) <= MaxAsked
  /\ list \in Filters \cup {NoFilter} /\ behind \in BOOLEAN

\* When no timer runs and nothing is in flight, the list is what the controls ask
\* for, unless an answer that was overtaken came last or a request failed: an
\* answer is not compared with the filter it is for.
ListIsOfFilter == timer = NoFilter /\ asked = <<>> /\ ~behind => list = filter
=============================================================================
