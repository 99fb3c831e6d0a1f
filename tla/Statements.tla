------------------------------ MODULE Statements ------------------------------
(***************************************************************************)
(* A client of accounts-service reads the statements of one account page   *)
(* by page (getStatements) while payments go on.                           *)
(*                                                                         *)
(* A row has the time at which it was inserted and is seen once its        *)
(* transaction has committed, so rows can appear anywhere in the order (no *)
(* two have one time).  A page and its count are read side by side.        *)
(***************************************************************************)
EXTENDS Integers, FiniteSets

CONSTANTS
  Rows,    \* the transactions of the account
  Limit    \* rows per page

ASSUME StatementsAssumption == IsFiniteSet(Rows) /\ Limit \in Nat \ {0}

VARIABLES
  created,    \* createdAt of each row, 0 before it is inserted
  committed,  \* rows that can be seen
  pageNo,     \* the page being asked for, 0 once the last was read
  found,      \* its rows, a set of at most one set until the answer
  total,      \* its count, likewise
  read,       \* rows the client has been given
  old,        \* history: rows committed before the first page was asked for
  between     \* history: rows committed between the two statements of a page

stvars == <<created, committed, pageNo, found, total, read, old, between>>

StatementsInit ==
  /\ created = [r \in Rows |-> 0] /\ committed = {}
  /\ pageNo = 0 /\ found = {} /\ total = {} /\ read = {}
  /\ old = {} /\ between = {}

-----------------------------------------------------------------------------
(* Payments.                                                               *)

Begun == {r \in Rows : created[r] > 0}

BeginTransaction(r) ==
  /\ created[r] = 0
  /\ created' = [created EXCEPT ![r] = Cardinality(Begun) + 1]
  /\ UNCHANGED <<committed, pageNo, found, total, read, old, between>>

CommitTransaction(r) ==
  /\ r \in Begun \ committed
  /\ committed' = committed \cup {r}
  /\ between' = IF found = {} /\ total = {} THEN between ELSE between \cup {r}
  /\ UNCHANGED <<created, pageNo, found, total, read, old>>

-----------------------------------------------------------------------------
(* The reader.                                                             *)

\* The client begins to read, once in a behaviour.
AskFirst ==
  /\ pageNo = 0 /\ read = {} /\ old = {} /\ committed # {}
  /\ pageNo' = 1
  /\ old' = committed
  /\ UNCHANGED <<created, committed, found, total, read, between>>

\* The place of a row in orderBy createdAt desc.
Rank(r) == Cardinality({s \in committed : created[s] > created[r]})

\* Mutant of FindPage: skip is page * limit.
FindPageSkipped ==
  /\ pageNo > 0 /\ found = {}
  /\ found' = {{r \in committed : Rank(r) \div Limit = pageNo}}
  /\ UNCHANGED <<created, committed, pageNo, total, read, old, between>>

FindPage ==
  /\ pageNo > 0 /\ found = {}
  /\ found' = {{r \in committed : Rank(r) \div Limit = pageNo - 1}}
  /\ UNCHANGED <<created, committed, pageNo, total, read, old, between>>

CountRows ==
  /\ pageNo > 0 /\ total = {}
  /\ total' = {Cardinality(committed)}
  /\ UNCHANGED <<created, committed, pageNo, found, read, old, between>>

TotalPages(n) == LET pages == (n + Limit - 1) \div Limit
                 IN  IF pages = 0 THEN 1 ELSE pages

\* The answer: the client asks for the next page unless this is the last.
AnswerPage ==
  \E rs \in found, n \in total :
    /\ read' = read \cup rs
    /\ pageNo' = IF pageNo < TotalPages(n) THEN pageNo + 1 ELSE 0
    /\ found' = {} /\ total' = {}
    /\ between' = IF pageNo < TotalPages(n) THEN {} ELSE between
    /\ UNCHANGED <<created, committed, old>>

StatementsNext ==
  \/ \E r \in Rows : BeginTransaction(r) \/ CommitTransaction(r)
  \/ AskFirst \/ FindPage \/ CountRows \/ AnswerPage

StatementsSpec == StatementsInit /\ [][StatementsNext]_stvars

-----------------------------------------------------------------------------
(* Properties.                                                             *)

StatementsTypeOK ==
  /\ created \in [Rows -> 0 .. Cardinality(Rows)] /\ committed \subseteq Begun
  /\ pageNo \in 0 .. Cardinality(Rows) + 1
  /\ found \subseteq SUBSET Rows /\ total \subseteq 0 .. Cardinality(Rows)
  /\ read \subseteq committed /\ old \subseteq committed /\ between \subseteq committed

\* A client that has read up to the last page has been given every row that was
\* there when it began, whatever was added in the meantime, unless a row appeared
\* between the count and the rows of the last page, which may end it too early.
OldRowsAreRead == pageNo = 0 /\ old # {} /\ between = {} => old \subseteq read
=============================================================================
