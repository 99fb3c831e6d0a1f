---------------------------- MODULE LoansProofs ----------------------------
(***************************************************************************)
(* Theorems about Loans for any loans, accounts, handlers, requests and    *)
(* schedules: a request id is posted once, repayments that race never mark *)
(* one schedule entry twice, and they never wait for each other in a cycle.*)
(*                                                                         *)
(* The schedule needs the invariant: an entry is found in one statement    *)
(* and marked in the next, so that it is still the first unpaid one when   *)
(* the transaction commits follows from the loan's row being locked since. *)
(***************************************************************************)
EXTENDS Loans, Sums, FiniteSetTheorems, TLAPS

Pcs == {"arrive", "validate", "account", "create", "debit", "reduce",
        "schedule", "commit", "respond", "done"}
Writing == {"debit", "reduce", "schedule", "commit"}   \* its key is inserted
Locking == {"schedule", "commit"}                      \* its loan is updated
Over    == {"respond", "done"}

RowsOf(l) == {r \in rows : r.loan = l}

Typed == TypeOK /\ pc \in [Handlers -> Pcs]

\* An inserted key is nobody else's, open or committed.
KeysHeld ==
  \A h \in Handlers : pc[h] \in Writing =>
    /\ req[h].rid \notin CommittedIds
    /\ \A g \in Handlers : (g # h /\ pc[g] \in Writing) => req[g].rid # req[h].rid

LoansHeld ==
  \A g, h \in Handlers :
    (g # h /\ pc[g] \in Locking /\ pc[h] \in Locking) => req[g].loan # req[h].loan

\* The entry that was found is still the first unpaid one.
EntryFound == \A h \in Handlers : pc[h] = "commit" => next[h] = NextEntry(req[h].loan)

RowsCommitted == /\ IsFiniteSet(rows)
                 /\ \A r \in rows : pc[r.id] \in Over

IInv == /\ Typed
        /\ KeysHeld
        /\ LoansHeld
        /\ EntryFound
        /\ RowsCommitted
        /\ OneRowPerRequest
        /\ EntryPerRepayment

-----------------------------------------------------------------------------
(* The schedule.                                                           *)

LEMMA MinOfTwo ==
  ASSUME NEW m \in Nat, NEW n \in Nat
  PROVE  Min({m, n}) = IF m <= n THEN m ELSE n
<1> DEFINE k == IF m <= n THEN m ELSE n
<1>1. k \in {m, n} /\ \A y \in {m, n} : k <= y
  OBVIOUS
<1>2. \A j \in {m, n} : (\A y \in {m, n} : j <= y) => j = k
  OBVIOUS
<1> QED BY <1>1, <1>2 DEF Min

LEMMA MaxOfTwo ==
  ASSUME NEW n \in Int
  PROVE  Max({0, n}) = IF n >= 0 THEN n ELSE 0
<1> DEFINE k == IF n >= 0 THEN n ELSE 0
<1>1. k \in {0, n} /\ \A y \in {0, n} : k >= y
  OBVIOUS
<1>2. \A j \in {0, n} : (\A y \in {0, n} : j >= y) => j = k
  OBVIOUS
<1> QED BY <1>1, <1>2 DEF Max

\* The schedule is paid in order, so the first unpaid entry is the next one.
LEMMA NextAfter ==
  ASSUME NEW l \in Loans, NEW k \in 0 .. Entries, paid[l] = 1 .. k
  PROVE  NextEntry(l) = IF k = Entries THEN 0 ELSE k + 1
<1> DEFINE unpaid == (1 .. Entries) \ paid[l]
<1>0. Entries \in Nat
  BY LoansAssumption
<1>1. unpaid = (k + 1) .. Entries
  BY <1>0
<1>2. CASE k = Entries
  <2>1. unpaid = {}
    BY <1>0, <1>1, <1>2
  <2> QED BY <1>2, <2>1 DEF NextEntry
<1>3. CASE k # Entries
  <2>1. k + 1 \in unpaid /\ \A y \in unpaid : k + 1 <= y
    BY <1>0, <1>1, <1>3
  <2>2. \A j \in unpaid : (\A y \in unpaid : j <= y) => j = k + 1
    BY <1>0, <1>1, <2>1
  <2>3. Min(unpaid) = k + 1
    BY <2>1, <2>2 DEF Min
  <2> QED BY <1>3, <2>1, <2>3 DEF NextEntry
<1> QED BY <1>2, <1>3

\* How much of the schedule of l is marked.
LEMMA Marked ==
  ASSUME IInv, NEW l \in Loans
  PROVE  LET n == Cardinality(RowsOf(l))
             k == IF Entries <= n THEN Entries ELSE n
         IN /\ IsFiniteSet(RowsOf(l))
            /\ n \in Nat
            /\ k \in 0 .. Entries
            /\ paid[l] = 1 .. k
            /\ NextEntry(l) = IF k = Entries THEN 0 ELSE k + 1
<1> DEFINE n == Cardinality(RowsOf(l))
           k == IF Entries <= n THEN Entries ELSE n
<1>1. IsFiniteSet(RowsOf(l))
  BY FS_Subset DEF IInv, RowsCommitted, RowsOf
<1>2. n \in Nat
  BY <1>1, FS_CardinalityType
<1>3. Entries \in Nat
  BY LoansAssumption
<1>4. k \in 0 .. Entries
  BY <1>2, <1>3
<1>5. paid[l] = 1 .. k
  BY <1>2, <1>3, MinOfTwo DEF IInv, EntryPerRepayment, RowsOf
<1> HIDE DEF k
<1>6. NextEntry(l) = IF k = Entries THEN 0 ELSE k + 1
  BY <1>4, <1>5, NextAfter
<1> QED BY <1>1, <1>2, <1>4, <1>5, <1>6 DEF k

-----------------------------------------------------------------------------
(* Steps that post nothing.                                                *)

\* h goes on, or ends, without a change to rows or schedule.
LEMMA Move ==
  ASSUME IInv, Typed', NEW h \in Handlers, NEW p \in Pcs, Goto(h, p),
         UNCHANGED <<paid, rows, req>>,
         \A g \in Handlers : g # h => next'[g] = next[g],
         p \in Writing => \/ pc[h] \in Writing
                          \/ /\ req[h].rid \notin CommittedIds
                             /\ \A g \in Handlers : ~HoldsKey(g, req[h].rid),
         p \in Locking => \/ pc[h] \in Locking
                          \/ \A g \in Handlers : ~HoldsLoan(g, req[h].loan),
         p = "commit" => next'[h] = NextEntry(req[h].loan),
         pc[h] \in Over => p \in Over
  PROVE  IInv'
<1>1. \A g \in Handlers : pc'[g] = IF g = h THEN p ELSE pc[g]
  BY DEF Goto, IInv, Typed
<1>2. KeysHeld'
  BY <1>1 DEF IInv, KeysHeld, CommittedIds, HoldsKey, Writing
<1>3. LoansHeld'
  BY <1>1 DEF IInv, LoansHeld, HoldsLoan, Locking
<1>4. EntryFound'
  BY <1>1 DEF IInv, EntryFound, NextEntry
<1>5. RowsCommitted'
  BY <1>1 DEF IInv, RowsCommitted, Typed, TypeOK
<1>6. OneRowPerRequest' /\ EntryPerRepayment'
  BY DEF IInv, OneRowPerRequest, EntryPerRepayment
<1> QED BY <1>2, <1>3, <1>4, <1>5, <1>6 DEF IInv

LEMMA EndInv ==
  ASSUME IInv, NEW h \in Handlers, NEW code, End(h, code)
  PROVE  IInv'
<1>1. Typed'
  BY DEF IInv, Typed, TypeOK, End, Goto, Pcs, dbVars
<1>2. /\ "done" \in Pcs /\ "done" \in Over /\ "done" \notin Writing
      /\ "done" \notin Locking
  BY DEF Pcs, Over, Writing, Locking
<1> QED BY <1>1, <1>2, Move DEF End, dbVars

LEMMA ArriveInv ==
  ASSUME IInv, NEW h \in Handlers, Arrive(h)
  PROVE  IInv'
<1>1. Typed'
  BY DEF IInv, Typed, TypeOK, Arrive, Goto, Pcs, dbVars
<1>2. "validate" \in Pcs /\ "validate" \notin Writing /\ "validate" \notin Locking
  BY DEF Pcs, Writing, Locking
<1>3. pc[h] \notin Over
  BY DEF Arrive, Over
<1> QED BY <1>1, <1>2, <1>3, Move DEF Arrive, dbVars

LEMMA ValidateLoanInv ==
  ASSUME IInv, NEW h \in Handlers, ValidateLoan(h)
  PROVE  IInv'
<1>1. CASE End(h, LoanRefusal(h))
  BY <1>1, EndInv
<1>2. CASE /\ seen' = [seen EXCEPT ![h] = outstanding[req[h].loan]]
           /\ Goto(h, "account")
           /\ UNCHANGED <<dbVars, req, next, answer>>
  <2>1. outstanding[req[h].loan] \in Nat
    BY InputsAssumption DEF IInv, Typed, TypeOK, Repayment
  <2>2. Typed'
    BY <1>2, <2>1 DEF IInv, Typed, TypeOK, Goto, Pcs, dbVars
  <2>3. "account" \in Pcs /\ "account" \notin Writing /\ "account" \notin Locking
    BY DEF Pcs, Writing, Locking
  <2>4. pc[h] \notin Over
    BY DEF ValidateLoan, Over
  <2> QED BY <1>2, <2>2, <2>3, <2>4, Move DEF dbVars
<1> QED BY <1>1, <1>2 DEF ValidateLoan

LEMMA ValidateAccountInv ==
  ASSUME IInv, NEW h \in Handlers, ValidateAccount(h)
  PROVE  IInv'
<1>1. CASE End(h, AccountRefusal(h))
  BY <1>1, EndInv
<1>2. CASE Goto(h, "create") /\ UNCHANGED <<dbVars, req, seen, next, answer>>
  <2>1. Typed'
    BY <1>2 DEF IInv, Typed, TypeOK, Goto, Pcs, dbVars
  <2>2. "create" \in Pcs /\ "create" \notin Writing /\ "create" \notin Locking
    BY DEF Pcs, Writing, Locking
  <2>3. pc[h] \notin Over
    BY DEF ValidateAccount, Over
  <2> QED BY <1>2, <2>1, <2>2, <2>3, Move DEF dbVars
<1> QED BY <1>1, <1>2 DEF ValidateAccount

\* The key is inserted: the unique index excludes all others.
LEMMA CreateRecordInv ==
  ASSUME IInv, NEW h \in Handlers, CreateRecord(h)
  PROVE  IInv'
<1>1. CASE End(h, "DUPLICATE_ENTRY")
  BY <1>1, EndInv
<1>2. CASE /\ req[h].rid \notin CommittedIds
           /\ Goto(h, "debit")
           /\ UNCHANGED <<dbVars, req, seen, next, answer>>
  <2>1. Typed'
    BY <1>2 DEF IInv, Typed, TypeOK, Goto, Pcs, dbVars
  <2>2. "debit" \in Pcs /\ "debit" \notin Locking /\ pc[h] \notin Over
    BY DEF CreateRecord, Pcs, Locking, Over
  <2>3. \A g \in Handlers : ~HoldsKey(g, req[h].rid)
    BY DEF CreateRecord
  <2> QED BY <1>2, <2>1, <2>2, <2>3, Move DEF dbVars
<1> QED BY <1>1, <1>2 DEF CreateRecord

LEMMA DebitAccountInv ==
  ASSUME IInv, NEW h \in Handlers, DebitAccount(h)
  PROVE  IInv'
<1>1. Typed'
  BY DEF IInv, Typed, TypeOK, DebitAccount, Goto, Pcs, dbVars
<1>2. /\ "reduce" \in Pcs /\ "reduce" \notin Locking
      /\ pc[h] \in Writing /\ pc[h] \notin Over
  BY DEF DebitAccount, Pcs, Locking, Writing, Over
<1> QED BY <1>1, <1>2, Move DEF DebitAccount, dbVars

\* The loan's row is locked.
LEMMA ReduceLoanInv ==
  ASSUME IInv, NEW h \in Handlers, ReduceLoan(h)
  PROVE  IInv'
<1>1. Typed'
  BY DEF IInv, Typed, TypeOK, ReduceLoan, Goto, Pcs, dbVars
<1>2. "schedule" \in Pcs /\ pc[h] \in Writing /\ pc[h] \notin Over
  BY DEF ReduceLoan, Pcs, Writing, Over
<1>3. \A g \in Handlers : ~HoldsLoan(g, req[h].loan)
  BY DEF ReduceLoan
<1> QED BY <1>1, <1>2, <1>3, Move DEF ReduceLoan, dbVars

LEMMA FindEntryInv ==
  ASSUME IInv, NEW h \in Handlers, FindEntry(h)
  PROVE  IInv'
<1>1. req[h].loan \in Loans
  BY InputsAssumption DEF IInv, Typed, TypeOK, Repayment
<1>2. NextEntry(req[h].loan) \in 0 .. Entries
  <2>1. Entries \in Nat
    BY LoansAssumption
  <2> QED BY <1>1, <2>1, Marked
<1>3. Typed'
  BY <1>2 DEF IInv, Typed, TypeOK, FindEntry, Goto, Pcs, dbVars
<1>4. /\ "commit" \in Pcs /\ pc[h] \in Writing /\ pc[h] \in Locking
      /\ pc[h] \notin Over
  BY DEF FindEntry, Pcs, Locking, Writing, Over
<1>5. /\ next'[h] = NextEntry(req[h].loan)
      /\ \A g \in Handlers : g # h => next'[g] = next[g]
  BY DEF FindEntry, IInv, Typed, TypeOK
<1> QED BY <1>3, <1>4, <1>5, Move DEF FindEntry, dbVars

-----------------------------------------------------------------------------
(* The commit.                                                             *)

LEMMA StoredType ==
  ASSUME NEW x \in Nat
  PROVE  Stored(x) \subseteq Nat
  BY DEF Stored

LEMMA ToCentsType ==
  ASSUME NEW x \in Int
  PROVE  ToCents(x) \in Int /\ (x >= 0 => ToCents(x) >= 0)
  BY DEF ToCents

LEMMA CommitTyped ==
  ASSUME IInv, NEW h \in Handlers, Commit(h)
  PROVE  Typed'
<1> DEFINE l == req[h].loan
           a == req[h].from
           n == NewOutstanding(h)
<1>1. /\ l \in Loans /\ a \in Accounts
      /\ req[h].rid \in RequestIds /\ req[h].amt \in Nat
      /\ balance[a] \in Int /\ seen[h] \in Nat
  BY InputsAssumption DEF IInv, Typed, TypeOK, Repayment
<1>2. n \in Int
  BY <1>1 DEF NewOutstanding
<1>3. Max({0, n}) \in Nat
  BY <1>2, MaxOfTwo
<1>4. outstanding' \in [Loans -> Nat]
  BY <1>3, StoredType DEF Commit, WriteLoan, IInv, Typed, TypeOK
<1>5. status' \in [Loans -> LoanStatus]
  BY DEF Commit, WriteLoan, Settled, LoanStatus, IInv, Typed, TypeOK
<1>6. balance' \in [Accounts -> Int]
  <2>1. ToCents(balance[a] - req[h].amt) \in Int
    BY <1>1, ToCentsType
  <2> QED BY <2>1 DEF Commit, IInv, Typed, TypeOK
<1>7. paid' \in [Loans -> SUBSET (1 .. Entries)]
  <2>1. {next[h]} \ {0} \subseteq 1 .. Entries
    BY LoansAssumption DEF IInv, Typed, TypeOK
  <2>2. paid[l] \cup ({next[h]} \ {0}) \in SUBSET (1 .. Entries)
    BY <1>1, <2>1 DEF IInv, Typed, TypeOK
  <2> QED BY <2>2 DEF Commit, IInv, Typed, TypeOK
<1>8. rows' \subseteq [id : Handlers, rid : RequestIds, loan : Loans,
                       from : Accounts, amt : Nat]
  <2>1. ToCents(req[h].amt) \in Nat
    BY <1>1, ToCentsType
  <2>2. RowOf(h) \in [id : Handlers, rid : RequestIds, loan : Loans,
                      from : Accounts, amt : Nat]
    BY <1>1, <2>1 DEF RowOf
  <2> QED BY <2>2 DEF Commit, IInv, Typed, TypeOK
<1>9. /\ pc' \in [Handlers -> Pcs]
      /\ UNCHANGED <<frozen, spent, req, seen, next>>
  BY DEF Commit, Goto, IInv, Typed, Pcs
<1> QED BY <1>4, <1>5, <1>6, <1>7, <1>8, <1>9 DEF IInv, Typed, TypeOK

\* The row is new, and the entry found is the one after those marked.
LEMMA CommitInv ==
  ASSUME IInv, NEW h \in Handlers, Commit(h)
  PROVE  IInv'
<1> DEFINE l == req[h].loan
           n == Cardinality(RowsOf(l))
           k == IF Entries <= n THEN Entries ELSE n
<1>1. l \in Loans
  BY InputsAssumption DEF IInv, Typed, TypeOK, Repayment
<1>2. /\ pc[h] = "commit" /\ pc[h] \in Writing /\ pc[h] \in Locking
      /\ "respond" \in Over /\ "respond" \notin Writing /\ "respond" \notin Locking
      /\ "commit" \notin Over
  BY DEF Commit, Writing, Locking, Over
<1>3. \A g \in Handlers : pc'[g] = IF g = h THEN "respond" ELSE pc[g]
  BY DEF Commit, Goto, IInv, Typed
<1>4. /\ RowOf(h) \notin rows
      /\ rows' = rows \cup {RowOf(h)}
      /\ RowOf(h).id = h /\ RowOf(h).rid = req[h].rid /\ RowOf(h).loan = l
      /\ req[h].rid \notin CommittedIds
  BY <1>2 DEF Commit, RowOf, IInv, RowsCommitted, KeysHeld
<1>5. Typed'
  BY CommitTyped
<1>6. KeysHeld'
  <2> SUFFICES ASSUME NEW g \in Handlers, pc'[g] \in Writing
               PROVE  /\ req[g].rid \notin CommittedIds'
                      /\ \A f \in Handlers : (f # g /\ pc'[f] \in Writing)
                                               => req[f].rid # req[g].rid
    BY DEF Commit, KeysHeld
  <2>1. g # h /\ pc[g] \in Writing
    BY <1>2, <1>3
  <2>2. req[g].rid \notin CommittedIds /\ req[g].rid # req[h].rid
    BY <1>2, <2>1 DEF IInv, KeysHeld
  <2>3. req[g].rid \notin CommittedIds'
    BY <1>4, <2>2 DEF CommittedIds
  <2>4. \A f \in Handlers : (f # g /\ pc'[f] \in Writing) => req[f].rid # req[g].rid
    BY <1>2, <1>3, <2>1 DEF IInv, KeysHeld
  <2> QED BY <2>3, <2>4
<1>7. LoansHeld'
  BY <1>2, <1>3 DEF Commit, IInv, LoansHeld
<1>8. EntryFound'
  <2> SUFFICES ASSUME NEW g \in Handlers, pc'[g] = "commit"
               PROVE  next[g] = NextEntry(req[g].loan)'
    BY DEF Commit, EntryFound
  <2>1. g # h /\ pc[g] = "commit" /\ pc[g] \in Locking
    BY <1>3 DEF Locking
  <2>2. next[g] = NextEntry(req[g].loan)
    BY <2>1 DEF IInv, EntryFound
  <2>3. req[g].loan # l
    BY <1>2, <2>1 DEF IInv, LoansHeld
  <2>4. req[g].loan \in Loans
    BY InputsAssumption DEF IInv, Typed, TypeOK, Repayment
  <2>5. paid'[req[g].loan] = paid[req[g].loan] /\ req' = req
    BY <2>3, <2>4 DEF Commit, IInv, Typed, TypeOK
  <2> QED BY <2>2, <2>5 DEF NextEntry
<1>9. RowsCommitted'
  <2>1. IsFiniteSet(rows')
    BY <1>4, FS_AddElement DEF IInv, RowsCommitted
  <2>2. ASSUME NEW r \in rows' PROVE pc'[r.id] \in Over
    <3>1. CASE r = RowOf(h)
      BY <1>2, <1>3, <1>4, <3>1
    <3>2. CASE r \in rows
      <4>1. r.id \in Handlers /\ pc[r.id] \in Over
        BY <3>2 DEF IInv, RowsCommitted, Typed, TypeOK
      <4> QED BY <1>2, <1>3, <4>1
    <3> QED BY <1>4, <3>1, <3>2
  <2> QED BY <2>1, <2>2 DEF RowsCommitted
<1>10. OneRowPerRequest'
  BY <1>4 DEF IInv, OneRowPerRequest, CommittedIds
<1>11. EntryPerRepayment'
  <2> SUFFICES ASSUME NEW m \in Loans
               PROVE  paid'[m] = 1 .. Min({Entries, Cardinality(RowsOf(m)')})
    BY DEF EntryPerRepayment, RowsOf
  <2>1. CASE m # l
    <3>1. RowsOf(m)' = RowsOf(m)
      BY <1>4, <2>1 DEF RowsOf
    <3>2. paid'[m] = paid[m]
      BY <2>1 DEF Commit, IInv, Typed, TypeOK
    <3> QED BY <3>1, <3>2 DEF IInv, EntryPerRepayment, RowsOf
  <2>2. CASE m = l
    <3>1. /\ IsFiniteSet(RowsOf(l)) /\ n \in Nat /\ k \in 0 .. Entries
          /\ paid[l] = 1 .. k
          /\ NextEntry(l) = IF k = Entries THEN 0 ELSE k + 1
      BY <1>1, Marked
    <3>2. RowsOf(m)' = RowsOf(l) \cup {RowOf(h)} /\ RowOf(h) \notin RowsOf(l)
      BY <1>4, <2>2 DEF RowsOf
    <3>3. Cardinality(RowsOf(m)') = n + 1
      BY <3>1, <3>2, FS_AddElement
    <3>4. Entries \in Nat
      BY LoansAssumption
    <3>5. Min({Entries, n + 1}) = IF k = Entries THEN k ELSE k + 1
      <4>1. n + 1 \in Nat
        BY <3>1
      <4>2. Min({Entries, n + 1}) = IF Entries <= n + 1 THEN Entries ELSE n + 1
        BY <3>4, <4>1, MinOfTwo
      <4> QED BY <3>1, <3>4, <4>2
    <3>6. paid'[l] = paid[l] \cup ({NextEntry(l)} \ {0})
      BY <1>1, <1>2 DEF Commit, IInv, Typed, TypeOK, EntryFound
    <3> HIDE DEF k, n
    <3>7. paid'[l] = 1 .. (IF k = Entries THEN k ELSE k + 1)
      <4>1. CASE k = Entries
        <5>1. {NextEntry(l)} \ {0} = {}
          BY <3>1, <4>1
        <5> QED BY <3>1, <3>6, <4>1, <5>1
      <4>2. CASE k # Entries
        <5>1. {NextEntry(l)} \ {0} = {k + 1} /\ k \in Nat
          BY <3>1, <4>2
        <5>2. (1 .. k) \cup {k + 1} = 1 .. (k + 1)
          BY <5>1
        <5> QED BY <3>1, <3>6, <4>2, <5>1, <5>2
      <4> QED BY <4>1, <4>2
    <3> QED BY <2>2, <3>3, <3>5, <3>7
  <2> QED BY <2>1, <2>2
<1> QED BY <1>5, <1>6, <1>7, <1>8, <1>9, <1>10, <1>11 DEF IInv

-----------------------------------------------------------------------------
(* The operator, and the payments of Ledger.                               *)

\* A step that leaves the handlers, the rows and the schedule alone.
LEMMA OutsideInv ==
  ASSUME IInv, Typed', UNCHANGED <<paid, rows, procVars>>
  PROVE  IInv'
  BY DEF IInv, KeysHeld, CommittedIds, LoansHeld, EntryFound, NextEntry,
         RowsCommitted, OneRowPerRequest, EntryPerRepayment, procVars

LEMMA IssueInv ==
  ASSUME IInv, NEW l \in Loans, Issue(l)
  PROVE  IInv'
<1>1. /\ LoanAccount[l] \in Accounts /\ Principal[l] \in Nat
      /\ balance[LoanAccount[l]] \in Int
  BY LoansAssumption DEF IInv, Typed, TypeOK
<1>2. /\ ToCents(Principal[l]) \in Nat
      /\ ToCents(balance[LoanAccount[l]] + Principal[l]) \in Int
  BY <1>1, ToCentsType
<1>3. Typed'
  BY <1>2 DEF Issue, LoanStatus, IInv, Typed, TypeOK, procVars
<1> QED BY <1>3, OutsideInv DEF Issue

LEMMA SetStatusInv ==
  ASSUME IInv, NEW a \in Accounts, SetStatus(a)
  PROVE  IInv'
<1>1. Typed'
  BY DEF SetStatus, IInv, Typed, TypeOK, procVars
<1> QED BY <1>1, OutsideInv DEF SetStatus

LEMMA SpendInv ==
  ASSUME IInv, NEW a \in Accounts, Spend(a)
  PROVE  IInv'
<1>1. Typed'
  BY DEF Spend, IInv, Typed, TypeOK, procVars
<1> QED BY <1>1, OutsideInv DEF Spend

-----------------------------------------------------------------------------

LEMMA InitInv == Init => IInv
<1> SUFFICES ASSUME Init PROVE IInv
  OBVIOUS
<1>1. Typed
  BY LoansAssumption DEF Init, Typed, TypeOK, Pcs, LoanStatus
<1>2. KeysHeld /\ LoansHeld /\ EntryFound
  BY DEF Init, KeysHeld, LoansHeld, EntryFound, Writing, Locking
<1>3. RowsCommitted /\ OneRowPerRequest
  BY FS_EmptySet DEF Init, RowsCommitted, OneRowPerRequest
<1>4. EntryPerRepayment
  <2> SUFFICES ASSUME NEW l \in Loans
               PROVE  paid[l] = 1 .. Min({Entries, Cardinality(RowsOf(l))})
    BY DEF EntryPerRepayment, RowsOf
  <2>1. RowsOf(l) = {}
    BY DEF Init, RowsOf
  <2>2. Min({Entries, 0}) = 0
    <3>1. Entries \in Nat /\ 0 \in Nat
      BY LoansAssumption
    <3>2. Min({Entries, 0}) = IF Entries <= 0 THEN Entries ELSE 0
      BY <3>1, MinOfTwo
    <3> QED BY <3>1, <3>2
  <2>3. Cardinality(RowsOf(l)) = 0
    BY <2>1, FS_EmptySet
  <2>4. paid[l] = {} /\ 1 .. 0 = {}
    BY DEF Init
  <2> QED BY <2>2, <2>3, <2>4
<1> QED BY <1>1, <1>2, <1>3, <1>4 DEF IInv

LEMMA NextInv == IInv /\ [Next]_vars => IInv'
<1> SUFFICES ASSUME IInv, [Next]_vars PROVE IInv'
  OBVIOUS
<1>1. CASE UNCHANGED vars
  <2>1. Typed'
    BY <1>1 DEF vars, dbVars, procVars, IInv, Typed, TypeOK
  <2> QED BY <1>1, <2>1, OutsideInv DEF vars, dbVars
<1>2. ASSUME NEW h \in Handlers, Step(h) \/ Interrupt(h) PROVE IInv'
  BY <1>2, ArriveInv, ValidateLoanInv, ValidateAccountInv, CreateRecordInv,
     DebitAccountInv, ReduceLoanInv, FindEntryInv, CommitInv, EndInv
     DEF Step, Respond, Interrupt
<1>3. ASSUME NEW l \in Loans, Issue(l) PROVE IInv'
  BY <1>3, IssueInv
<1>4. ASSUME NEW a \in Accounts, SetStatus(a) \/ Spend(a) PROVE IInv'
  BY <1>4, SetStatusInv, SpendInv
<1> QED BY <1>1, <1>2, <1>3, <1>4 DEF Next

\* Keys, locks, found entries, rows and schedules always agree.
THEOREM InductiveInvariant == Spec => []IInv
BY InitInv, NextInv, PTL DEF Spec

\* The state always has its shape, for any loans, handlers and requests.
THEOREM TypeCorrect == Spec => []TypeOK
<1>1. IInv => TypeOK
  BY DEF IInv, Typed
<1> QED BY <1>1, InductiveInvariant, PTL

\* However often a repayment is retried, its request id is posted once.
THEOREM PostedOnce == Spec => []OneRowPerRequest
<1>1. IInv => OneRowPerRequest
  BY DEF IInv
<1> QED BY <1>1, InductiveInvariant, PTL

\* However repayments of a loan race, each marks an entry of its own, in order.
THEOREM MarkedOnce == Spec => []EntryPerRepayment
<1>1. IInv => EntryPerRepayment
  BY DEF IInv
<1> QED BY <1>1, InductiveInvariant, PTL

\* A repayment waits only for one that is further on, so any group of waiting
\* repayments has one that waits for nobody in it.
LEMMA WaitsForwards == NoWaitCycle
<1> SUFFICES ASSUME NEW S \in (SUBSET Handlers) \ {{}}
             PROVE  \E h \in S : \A g \in S : ~WaitsFor(h, g)
  BY DEF NoWaitCycle
<1>1. CASE \E h \in S : pc[h] \in Locking
  BY <1>1 DEF WaitsFor, Locking
<1>2. CASE (\A g \in S : pc[g] \notin Locking) /\ \E h \in S : pc[h] = "reduce"
  BY <1>2 DEF WaitsFor, HoldsLoan, Locking
<1>3. CASE /\ \A g \in S : pc[g] \notin Locking /\ pc[g] # "reduce"
           /\ \E h \in S : pc[h] = "debit"
  BY <1>3 DEF WaitsFor, HoldsAccount, Locking
<1>4. CASE \A g \in S : pc[g] \notin Writing
  <2>0. S # {}
    OBVIOUS
  <2>1. PICK h \in S : TRUE
    BY <2>0
  <2>2. \A g \in S : ~WaitsFor(h, g)
    BY <1>4 DEF WaitsFor, HoldsKey, Writing
  <2> QED BY <2>2
<1> QED BY <1>1, <1>2, <1>3, <1>4 DEF Writing, Locking

\* Repayments never wait for each other in a cycle, however many there are.
THEOREM NobodyDeadlocks == Spec => []NoWaitCycle
BY WaitsForwards, PTL

-----------------------------------------------------------------------------
(* The money: what is owed and what is charged.                            *)

\* A repayment that has read what is owed and has not written it yet.
Owing == {"account", "create", "debit", "reduce", "schedule", "commit"}

IsIssued(l) == status[l] # "NONE"

\* Columns hold whole cents.
Whole == /\ \A a \in Accounts : IsWhole(balance[a])
         /\ \A l \in Loans : IsWhole(outstanding[l])
         /\ \A h \in Handlers : IsWhole(seen[h])

\* What a repayment has read, however stale, was not too little.
SeenOwed ==
  \A h \in Handlers : pc[h] \in Owing =>
    LET l == req[h].loan
    IN  IsIssued(l) /\ seen[h] >= ToCents(Principal[l]) - Repaid(l)

Books == /\ IsFiniteSet({l \in Loans : IsIssued(l)})
         /\ Whole /\ SeenOwed /\ DebtNeverUnderstated /\ NeverOvercharged

\* Money is rounded to whole cents; what a row says covers what is taken.
LEMMA CentsAreWhole ==
  ASSUME NEW x \in Int
  PROVE  ToCents(x) \in Int /\ IsWhole(ToCents(x))
  BY DEF ToCents, IsWhole

LEMMA RowCoversDebit ==
  ASSUME NEW x \in Int, IsWhole(x), NEW y \in Nat
  PROVE  ToCents(x - y) >= x - ToCents(y)
  BY DEF ToCents, IsWhole

LEMMA CreditCoversWhole ==
  ASSUME NEW x \in Int, IsWhole(x), NEW y \in Nat
  PROVE  ToCents(x + y) >= x + WholeCents(y)
  BY DEF ToCents, IsWhole, WholeCents

LEMMA RowCoversReduction ==
  ASSUME NEW x \in Nat, IsWhole(x), NEW y \in Nat, NEW z \in Stored(Max({0, x - y}))
  PROVE  /\ z \in Nat /\ IsWhole(z)
         /\ z >= x - ToCents(y)
         /\ x - y <= 1 => z <= 2
<1>1. Max({0, x - y}) = IF x - y >= 0 THEN x - y ELSE 0
  BY MaxOfTwo
<1>2. CASE x - y >= 0
  <2>1. z \in Stored(x - y)
    BY <1>1, <1>2
  <2> QED BY <1>2, <2>1 DEF Stored, ToCents, IsWhole
<1>3. CASE x - y < 0
  <2>1. z \in Stored(0)
    BY <1>1, <1>3
  <2> QED BY <1>3, <2>1 DEF Stored, ToCents, IsWhole
<1> QED BY <1>2, <1>3

\* Records with an amount.
Amounts(S) == \A q \in S : q.amt \in Nat

\* What rows add up to; a row more adds its amount.
LEMMA TotalType ==
  ASSUME NEW S, IsFiniteSet(S), Amounts(S)
  PROVE  Total(S) \in Nat
<1> DEFINE f == [q \in S |-> q.amt]
<1>1. f \in [S -> Nat]
  BY DEF Amounts
<1>2. Total(S) = SumFunction(f)
  BY DEF Total
<1> HIDE DEF f
<1> QED BY <1>1, <1>2, SumInSet

LEMMA TotalGrows ==
  ASSUME NEW S, IsFiniteSet(S), NEW r, r \notin S, Amounts(S \cup {r})
  PROVE  Total(S \cup {r}) = Total(S) + r.amt
<1> DEFINE f == [q \in S |-> q.amt]
           g == [q \in S \cup {r} |-> q.amt]
<1>1. f \in [S -> Int] /\ g \in [S \cup {r} -> Int]
  BY DEF Amounts
<1>2. \A q \in S : g[q] = f[q]
  OBVIOUS
<1>3. g[r] = r.amt
  OBVIOUS
<1>4. Total(S) = SumFunction(f) /\ Total(S \cup {r}) = SumFunction(g)
  BY DEF Total
<1> HIDE DEF f, g
<1>5. SumFunction(g) = SumFunction(f) + g[r]
  BY <1>1, <1>2, SumGrows
<1> QED BY <1>3, <1>4, <1>5

\* What has been repaid of a loan, and from an account.
LEMMA Repayments ==
  ASSUME IInv
  PROVE  /\ \A l \in Loans : Repaid(l) \in Nat
         /\ \A a \in Accounts : Total({r \in rows : r.from = a}) \in Nat
<1>1. IsFiniteSet(rows) /\ \A S \in SUBSET rows : Amounts(S)
  BY DEF IInv, RowsCommitted, Typed, TypeOK, Amounts
<1>2. ASSUME NEW S \in SUBSET rows PROVE Total(S) \in Nat
  BY <1>1, FS_Subset, TotalType
<1> QED BY <1>2 DEF Repaid

\* What the loans issued to an account pay in whole cents.
Paid(a) == SumFunction([l \in Issued(a) |-> WholeCents(Principal[l])])

LEMMA PaidType ==
  ASSUME Books, NEW a \in Accounts
  PROVE  Paid(a) \in Int /\ IsFiniteSet(Issued(a))
<1> DEFINE f == [l \in Issued(a) |-> WholeCents(Principal[l])]
<1>1. IsFiniteSet(Issued(a))
  <2>1. Issued(a) \subseteq {l \in Loans : IsIssued(l)}
    BY DEF Issued, IsIssued
  <2> QED BY <2>1, FS_Subset DEF Books
<1>2. f \in [Issued(a) -> Int]
  BY LoansAssumption DEF Issued, WholeCents
<1>3. Paid(a) = SumFunction(f)
  BY DEF Paid
<1> HIDE DEF f
<1> QED BY <1>1, <1>2, <1>3, SumInSet

-----------------------------------------------------------------------------

\* A step that writes neither money nor rows, and after which nobody owes who
\* did not before.
LEMMA BooksKept ==
  ASSUME IInv, Books, UNCHANGED <<balance, spent, outstanding, status, rows, req>>,
         \A h \in Handlers : IsWhole(seen'[h]),
         \A h \in Handlers : pc'[h] \in Owing => pc[h] \in Owing /\ seen'[h] = seen[h]
  PROVE  Books'
<1>1. SeenOwed' /\ Whole'
  BY DEF Books, SeenOwed, Whole, Repaid, Total, IsIssued
<1>2. DebtNeverUnderstated' /\ NeverOvercharged'
  BY DEF Books, DebtNeverUnderstated, NeverOvercharged, Repaid, Total, Issued
<1>3. {l \in Loans : IsIssued(l)}' = {l \in Loans : IsIssued(l)}
  BY DEF IsIssued
<1> QED BY <1>1, <1>2, <1>3 DEF Books

\* A repayment that goes on or ends.
LEMMA BooksMove ==
  ASSUME IInv, Books, NEW h \in Handlers, NEW p, Goto(h, p),
         UNCHANGED <<balance, spent, outstanding, status, rows, req, seen>>,
         p \in Owing => pc[h] \in Owing
  PROVE  Books'
<1>1. \A g \in Handlers : pc'[g] = IF g = h THEN p ELSE pc[g]
  BY DEF Goto, IInv, Typed
<1>2. \A g \in Handlers : IsWhole(seen'[g])
  BY DEF Books, Whole
<1> QED BY <1>1, <1>2, BooksKept

\* A repayment reads what is owed.
LEMMA ReadBooks ==
  ASSUME IInv, Books, NEW h \in Handlers, ValidateLoan(h)
  PROVE  Books'
<1> DEFINE l == req[h].loan
<1>1. CASE End(h, LoanRefusal(h))
  BY <1>1, BooksMove DEF End, dbVars, Owing
<1>2. CASE /\ LoanRefusal(h) = "NONE"
           /\ seen' = [seen EXCEPT ![h] = outstanding[l]]
           /\ Goto(h, "account")
           /\ UNCHANGED <<dbVars, req, next, answer>>
  <2>1. l \in Loans
    BY InputsAssumption DEF IInv, Typed, TypeOK, Repayment
  <2>2. IsIssued(l)
    BY <1>2 DEF LoanRefusal, IsIssued
  <2>3. /\ IsWhole(outstanding[l])
        /\ outstanding[l] >= ToCents(Principal[l]) - Repaid(l)
    BY <2>1, <2>2 DEF Books, Whole, DebtNeverUnderstated, IsIssued
  <2>4. /\ seen'[h] = outstanding[l]
        /\ \A g \in Handlers : g # h => seen'[g] = seen[g] /\ pc'[g] = pc[g]
    BY <1>2 DEF Goto, IInv, Typed, TypeOK
  <2>5. Whole'
    BY <1>2, <2>3, <2>4 DEF Books, Whole, dbVars
  <2>6. SeenOwed'
    BY <1>2, <2>2, <2>3, <2>4 DEF Books, SeenOwed, IsIssued, Repaid, Total, dbVars
  <2>7. DebtNeverUnderstated' /\ NeverOvercharged'
    BY <1>2 DEF Books, DebtNeverUnderstated, NeverOvercharged, Repaid, Total, Issued, dbVars
  <2>8. {m \in Loans : IsIssued(m)}' = {m \in Loans : IsIssued(m)}
    BY <1>2 DEF IsIssued, dbVars
  <2> QED BY <2>5, <2>6, <2>7, <2>8 DEF Books
<1> QED BY <1>1, <1>2 DEF ValidateLoan

\* A commit takes from what is owed and from the account no more than its row
\* says, although it computes what is owed from what it has read.
LEMMA CommitBooks ==
  ASSUME IInv, Books, NEW h \in Handlers, Commit(h)
  PROVE  Books'
<1> DEFINE l == req[h].loan
           a == req[h].from
           r == RowOf(h)
<1>1. /\ l \in Loans /\ a \in Accounts
      /\ req[h].amt \in Nat /\ seen[h] \in Nat /\ balance[a] \in Int
      /\ IsWhole(seen[h]) /\ IsWhole(balance[a])
      /\ Principal[l] \in Nat
  BY InputsAssumption, LoansAssumption DEF IInv, Typed, TypeOK, Repayment, Books, Whole
<1>2. IsIssued(l) /\ seen[h] >= ToCents(Principal[l]) - Repaid(l)
  BY DEF Commit, Owing, Books, SeenOwed
<1>3. /\ r.amt = ToCents(req[h].amt) /\ r.loan = l /\ r.from = a
      /\ r \notin rows /\ rows' = rows \cup {r}
  BY DEF Commit, RowOf, IInv, RowsCommitted, Over
<1>4. r.amt \in Nat
  BY <1>1, <1>3, ToCentsType
<1>5. IsFiniteSet(rows) /\ \A S \in SUBSET rows : Amounts(S \cup {r})
  BY <1>4 DEF IInv, RowsCommitted, Typed, TypeOK, Amounts
<1>6. PICK owed \in Stored(Max({0, NewOutstanding(h)})) :
        /\ outstanding' = [outstanding EXCEPT ![l] = owed]
        /\ \E s \in Settled(NewOutstanding(h), owed) : status' = [status EXCEPT ![l] = s]
  BY DEF Commit, WriteLoan
<1>7. PICK s \in Settled(NewOutstanding(h), owed) : status' = [status EXCEPT ![l] = s]
  BY <1>6
<1>8. /\ owed \in Nat /\ IsWhole(owed) /\ owed >= seen[h] - r.amt
      /\ NewOutstanding(h) <= 1 => owed <= 2
  BY <1>1, <1>3, <1>6, RowCoversReduction DEF NewOutstanding
<1>9. /\ s # "NONE"
      /\ s = "PAID_OFF" => NewOutstanding(h) <= 1
      /\ NewOutstanding(h) \in Int
  BY <1>1 DEF Settled, NewOutstanding
<1>10. /\ \A m \in Loans : outstanding'[m] = IF m = l THEN owed ELSE outstanding[m]
       /\ \A m \in Loans : status'[m] = IF m = l THEN s ELSE status[m]
  BY <1>6, <1>7 DEF IInv, Typed, TypeOK
<1>11. /\ \A b \in Accounts : balance'[b] = IF b = a THEN ToCents(balance[a] - req[h].amt)
                                                     ELSE balance[b]
       /\ spent' = spent /\ seen' = seen /\ req' = req
  BY DEF Commit, IInv, Typed, TypeOK
<1>12. \A g \in Handlers : pc'[g] = IF g = h THEN "respond" ELSE pc[g]
  BY DEF Commit, Goto, IInv, Typed
<1>13. \A m \in Loans : /\ Repaid(m) \in Nat
                        /\ Repaid(m)' = IF m = l THEN Repaid(m) + r.amt ELSE Repaid(m)
  <2> SUFFICES ASSUME NEW m \in Loans
               PROVE  /\ Repaid(m) \in Nat
                      /\ Repaid(m)' = IF m = l THEN Repaid(m) + r.amt ELSE Repaid(m)
    OBVIOUS
  <2>1. Repaid(m) \in Nat
    BY Repayments
  <2>2. Repaid(m)' = Total({q \in rows' : q.loan = m})
    BY DEF Repaid, Total
  <2>3. CASE m # l
    <3>1. {q \in rows' : q.loan = m} = {q \in rows : q.loan = m}
      BY <1>3, <2>3
    <3> QED BY <2>1, <2>2, <2>3, <3>1 DEF Repaid
  <2>4. CASE m = l
    <3> DEFINE S == {q \in rows : q.loan = l}
    <3>1. {q \in rows' : q.loan = m} = S \cup {r} /\ r \notin S
      BY <1>3, <2>4
    <3>2. IsFiniteSet(S) /\ Amounts(S \cup {r})
      BY <1>5, FS_Subset
    <3>3. Repaid(m) = Total(S)
      BY <2>4 DEF Repaid
    <3> HIDE DEF S, r
    <3>4. Total(S \cup {r}) = Total(S) + r.amt
      BY <3>1, <3>2, TotalGrows
    <3> QED BY <2>1, <2>2, <2>4, <3>1, <3>3, <3>4
  <2> QED BY <2>3, <2>4
<1>14. \A b \in Accounts :
         /\ Total({q \in rows : q.from = b}) \in Nat
         /\ Total({q \in rows' : q.from = b})
              = Total({q \in rows : q.from = b}) + (IF b = a THEN r.amt ELSE 0)
  <2> SUFFICES ASSUME NEW b \in Accounts
               PROVE  /\ Total({q \in rows : q.from = b}) \in Nat
                      /\ Total({q \in rows' : q.from = b})
                           = Total({q \in rows : q.from = b}) + (IF b = a THEN r.amt ELSE 0)
    OBVIOUS
  <2> DEFINE S == {q \in rows : q.from = b}
  <2>1. Total(S) \in Nat
    BY Repayments
  <2>2. CASE b # a
    <3>1. {q \in rows' : q.from = b} = S
      BY <1>3, <2>2
    <3>2. Total({q \in rows' : q.from = b}) = Total(S)
      BY <3>1
    <3> QED BY <2>1, <2>2, <3>2
  <2>3. CASE b = a
    <3>1. {q \in rows' : q.from = b} = S \cup {r} /\ r \notin S
      BY <1>3, <2>3
    <3>2. IsFiniteSet(S) /\ Amounts(S \cup {r})
      BY <1>5, FS_Subset
    <3>3. Total(S \cup {r}) = Total(S) + r.amt
      <4> HIDE DEF S, r
      <4> QED BY <3>1, <3>2, TotalGrows
    <3> QED BY <2>1, <2>3, <3>1, <3>3
  <2> QED BY <2>2, <2>3
<1>15. \A m \in Loans : IsIssued(m)' <=> IsIssued(m)
  <2> SUFFICES ASSUME NEW m \in Loans
               PROVE  (status'[m] # "NONE") <=> (status[m] # "NONE")
    BY DEF IsIssued
  <2>1. CASE m = l
    <3>1. status'[m] = s /\ s # "NONE" /\ status[m] # "NONE"
      BY <1>2, <1>9, <1>10, <2>1 DEF IsIssued
    <3> QED BY <3>1
  <2>2. CASE m # l
    BY <1>10, <2>2
  <2> QED BY <2>1, <2>2
<1> HIDE DEF r
<1>16. Whole'
  <2>1. ASSUME NEW b \in Accounts PROVE IsWhole(balance'[b])
    <3>1. IsWhole(balance[b])
      BY DEF Books, Whole
    <3>2. balance[a] - req[h].amt \in Int
      BY <1>1
    <3>3. IsWhole(ToCents(balance[a] - req[h].amt))
      BY <3>2, CentsAreWhole
    <3> QED BY <1>11, <3>1, <3>3
  <2>2. ASSUME NEW m \in Loans PROVE IsWhole(outstanding'[m])
    BY <1>8, <1>10 DEF Books, Whole
  <2>3. \A g \in Handlers : IsWhole(seen'[g])
    BY <1>11 DEF Books, Whole
  <2> QED BY <2>1, <2>2, <2>3 DEF Whole
<1>17. SeenOwed'
  <2> SUFFICES ASSUME NEW g \in Handlers, pc'[g] \in Owing
               PROVE  /\ IsIssued(req[g].loan)'
                      /\ seen[g] >= ToCents(Principal[req[g].loan]) - Repaid(req[g].loan)'
    BY <1>11 DEF SeenOwed
  <2>0. req[g].loan \in Loans
    BY InputsAssumption DEF IInv, Typed, TypeOK, Repayment
  <2> PICK m \in Loans : m = req[g].loan
    BY <2>0
  <2>1. pc[g] \in Owing /\ seen[g] \in Nat
    BY <1>12 DEF Owing, IInv, Typed, TypeOK
  <2>2. IsIssued(m) /\ seen[g] >= ToCents(Principal[m]) - Repaid(m)
    BY <2>1 DEF Books, SeenOwed
  <2>3. ToCents(Principal[m]) \in Int
    <3>1. Principal[m] \in Int
      BY LoansAssumption
    <3> QED BY <3>1, CentsAreWhole
  <2>4. Repaid(m)' >= Repaid(m) /\ Repaid(m) \in Nat /\ Repaid(m)' \in Nat
    BY <1>4, <1>13
  <2>5. seen[g] >= ToCents(Principal[m]) - Repaid(m)'
    BY <2>1, <2>2, <2>3, <2>4
  <2>6. IsIssued(m)'
    BY <1>15, <2>2
  <2> QED BY <1>11, <2>5, <2>6
<1>18. DebtNeverUnderstated'
  <2> SUFFICES ASSUME NEW m \in Loans, IsIssued(m)'
               PROVE  /\ outstanding'[m] >= ToCents(Principal[m]) - Repaid(m)'
                      /\ status'[m] = "PAID_OFF" => outstanding'[m] <= 2
    BY DEF DebtNeverUnderstated, IsIssued
  <2>1. ToCents(Principal[m]) \in Int
    <3>1. Principal[m] \in Int
      BY LoansAssumption
    <3> QED BY <3>1, CentsAreWhole
  <2>2. CASE m = l
    <3>1. Repaid(m)' = Repaid(l) + r.amt /\ Repaid(l) \in Nat
      BY <1>1, <1>13, <2>2
    <3>2. outstanding'[m] = owed /\ status'[m] = s
      BY <1>10, <2>2
    <3>3. seen[h] >= ToCents(Principal[m]) - Repaid(l)
      BY <1>2, <2>2
    <3> HIDE DEF l
    <3> QED BY <1>1, <1>4, <1>8, <1>9, <2>1, <3>1, <3>2, <3>3
  <2>3. CASE m # l
    BY <1>10, <1>13, <1>15, <2>3 DEF Books, DebtNeverUnderstated, IsIssued
  <2> QED BY <2>2, <2>3
<1>19. NeverOvercharged'
  <2> SUFFICES ASSUME NEW b \in Accounts
               PROVE  balance'[b] >= InitialBalance[b] - spent[b] + Paid(b)'
                                     - Total({q \in rows' : q.from = b})
    BY <1>11 DEF NeverOvercharged, Paid, Total
  <2>1. Paid(b)' = Paid(b)
    <3>1. Issued(b)' = Issued(b)
      BY <1>15 DEF Issued, IsIssued
    <3> QED BY <3>1 DEF Paid
  <2>2. balance[b] >= InitialBalance[b] - spent[b] + Paid(b) - Total({q \in rows : q.from = b})
    BY DEF Books, NeverOvercharged, Paid
  <2> DEFINE T == Total({q \in rows : q.from = b})
             U == Total({q \in rows' : q.from = b})
  <2>3. T \in Nat /\ U = T + (IF b = a THEN r.amt ELSE 0)
    BY <1>14
  <2>4. /\ balance[b] \in Int /\ InitialBalance[b] \in Int /\ spent[b] \in Int
        /\ Paid(b) \in Int
    BY PaidType, LoansAssumption DEF IInv, Typed, TypeOK
  <2>5. CASE b = a
    <3>1. balance'[b] = ToCents(balance[b] - req[h].amt)
      BY <1>11, <2>5
    <3>2. ToCents(balance[b] - req[h].amt) >= balance[b] - r.amt
      BY <1>1, <1>3, <2>5, RowCoversDebit
    <3>3. ToCents(balance[b] - req[h].amt) \in Int
      <4>1. balance[b] - req[h].amt \in Int
        BY <1>1, <2>4
      <4> QED BY <4>1, CentsAreWhole
    <3> HIDE DEF T, U, a
    <3> QED BY <1>4, <2>1, <2>2, <2>3, <2>4, <2>5, <3>1, <3>2, <3>3 DEF T, U
  <2>6. CASE b # a
    <3>1. balance'[b] = balance[b]
      BY <1>11, <2>6
    <3>2. U = T
      BY <2>3, <2>6
    <3> QED BY <2>1, <2>2, <3>1, <3>2
  <2> QED BY <2>5, <2>6
<1>20. {m \in Loans : IsIssued(m)}' = {m \in Loans : IsIssued(m)}
  BY <1>15
<1> QED BY <1>16, <1>17, <1>18, <1>19, <1>20 DEF Books

\* A disbursement owes the principal in cents, and pays its whole cents.
LEMMA IssueBooks ==
  ASSUME IInv, Books, NEW l \in Loans, Issue(l)
  PROVE  Books'
<1> DEFINE a == LoanAccount[l]
<1>1. /\ a \in Accounts /\ Principal[l] \in Nat /\ balance[a] \in Int
      /\ IsWhole(balance[a])
  BY LoansAssumption DEF IInv, Typed, TypeOK, Books, Whole
<1>2. /\ \A m \in Loans : outstanding'[m] = IF m = l THEN ToCents(Principal[l])
                                                     ELSE outstanding[m]
      /\ \A m \in Loans : status'[m] = IF m = l THEN "ACTIVE" ELSE status[m]
      /\ \A b \in Accounts : balance'[b] = IF b = a THEN ToCents(balance[a] + Principal[l])
                                                    ELSE balance[b]
      /\ UNCHANGED <<spent, rows, req, pc, seen>>
      /\ status[l] = "NONE"
  BY DEF Issue, IInv, Typed, TypeOK, procVars
<1>3. ToCents(Principal[l]) \in Int /\ IsWhole(ToCents(Principal[l]))
  BY <1>1, CentsAreWhole
<1>4. \A m \in Loans : Repaid(m)' = Repaid(m) /\ Repaid(m) \in Nat
  BY <1>2, Repayments DEF Repaid, Total
<1>5. \A m \in Loans : IsIssued(m)' <=> IsIssued(m) \/ m = l
  BY <1>2 DEF IsIssued
<1>6. IsFiniteSet({m \in Loans : IsIssued(m)}')
  <2>1. {m \in Loans : IsIssued(m)}' = {m \in Loans : IsIssued(m)} \cup {l}
    BY <1>5
  <2>2. IsFiniteSet({m \in Loans : IsIssued(m)})
    BY DEF Books
  <2> DEFINE S == {m \in Loans : IsIssued(m)}
  <2>3. IsFiniteSet(S \cup {l})
    <3> HIDE DEF S
    <3>1. IsFiniteSet(S)
      BY <2>2 DEF S
    <3> QED BY <3>1, FS_AddElement
  <2> QED BY <2>1, <2>3
<1>7. Whole'
  <2>1. ASSUME NEW b \in Accounts PROVE IsWhole(balance'[b])
    <3>1. balance[a] + Principal[l] \in Int
      BY <1>1
    <3>2. IsWhole(ToCents(balance[a] + Principal[l]))
      BY <3>1, CentsAreWhole
    <3>3. IsWhole(balance[b])
      BY DEF Books, Whole
    <3> QED BY <1>2, <3>2, <3>3
  <2>2. ASSUME NEW m \in Loans PROVE IsWhole(outstanding'[m])
    BY <1>2, <1>3 DEF Books, Whole
  <2>3. \A g \in Handlers : IsWhole(seen'[g])
    BY <1>2 DEF Books, Whole
  <2> QED BY <2>1, <2>2, <2>3 DEF Whole
<1>8. SeenOwed'
  <2> SUFFICES ASSUME NEW g \in Handlers, pc[g] \in Owing
               PROVE  /\ IsIssued(req[g].loan)'
                      /\ seen[g] >= ToCents(Principal[req[g].loan]) - Repaid(req[g].loan)'
    BY <1>2 DEF SeenOwed
  <2>1. req[g].loan \in Loans
    BY InputsAssumption DEF IInv, Typed, TypeOK, Repayment
  <2> PICK m \in Loans : m = req[g].loan
    BY <2>1
  <2>2. IsIssued(m) /\ seen[g] >= ToCents(Principal[m]) - Repaid(m)
    BY DEF Books, SeenOwed
  <2>3. IsIssued(m)' /\ Repaid(m)' = Repaid(m)
    BY <1>4, <1>5, <2>2
  <2> QED BY <1>2, <2>2, <2>3
<1>9. DebtNeverUnderstated'
  <2> SUFFICES ASSUME NEW m \in Loans, IsIssued(m)'
               PROVE  /\ outstanding'[m] >= ToCents(Principal[m]) - Repaid(m)'
                      /\ status'[m] = "PAID_OFF" => outstanding'[m] <= 2
    BY DEF DebtNeverUnderstated, IsIssued
  <2>1. CASE m = l
    BY <1>2, <1>3, <1>4, <2>1
  <2>2. CASE m # l
    BY <1>2, <1>4, <1>5, <2>2 DEF Books, DebtNeverUnderstated, IsIssued
  <2> QED BY <2>1, <2>2
<1>10. ASSUME NEW b \in Accounts
       PROVE  Paid(b)' = Paid(b) + (IF b = a THEN WholeCents(Principal[l]) ELSE 0)
  <2>0. Paid(b) \in Int /\ IsFiniteSet(Issued(b))
    BY PaidType
  <2>1. CASE b # a
    <3>1. Issued(b)' = Issued(b)
      BY <1>2, <2>1 DEF Issued
    <3> QED BY <2>0, <2>1, <3>1 DEF Paid
  <2>2. CASE b = a
    <3>1. Issued(b)' = Issued(b) \cup {l} /\ l \notin Issued(b)
      BY <1>2, <2>2 DEF Issued
    <3> DEFINE S == Issued(b)
               f == [m \in S |-> WholeCents(Principal[m])]
               g == [m \in S \cup {l} |-> WholeCents(Principal[m])]
    <3>2. /\ f \in [S -> Int] /\ g \in [S \cup {l} -> Int]
          /\ \A m \in S : g[m] = f[m]
          /\ g[l] = WholeCents(Principal[l])
      BY LoansAssumption DEF Issued, WholeCents
    <3>3. Paid(b) = SumFunction(f) /\ Paid(b)' = SumFunction(g)
      BY <3>1 DEF Paid
    <3>4. l \notin S /\ IsFiniteSet(S)
      BY <2>0, <3>1
    <3> HIDE DEF f, g, S
    <3>5. SumFunction(g) = SumFunction(f) + g[l]
      BY <3>2, <3>4, SumGrows
    <3> QED BY <2>2, <3>2, <3>3, <3>5
  <2> QED BY <2>1, <2>2
<1>11. NeverOvercharged'
  <2> SUFFICES ASSUME NEW b \in Accounts
               PROVE  balance'[b] >= InitialBalance[b] - spent[b] + Paid(b)'
                                     - Total({q \in rows : q.from = b})
    BY <1>2 DEF NeverOvercharged, Paid, Total
  <2> DEFINE T == Total({q \in rows : q.from = b})
  <2>1. balance[b] >= InitialBalance[b] - spent[b] + Paid(b) - T
    BY DEF Books, NeverOvercharged, Paid
  <2>2. /\ balance[b] \in Int /\ InitialBalance[b] \in Int /\ spent[b] \in Int
        /\ Paid(b) \in Int /\ T \in Nat
    BY PaidType, Repayments, LoansAssumption DEF IInv, Typed, TypeOK
  <2>3. /\ WholeCents(Principal[l]) \in Int
        /\ ToCents(balance[a] + Principal[l]) \in Int
        /\ ToCents(balance[a] + Principal[l]) >= balance[a] + WholeCents(Principal[l])
    <3>1. balance[a] + Principal[l] \in Int
      BY <1>1
    <3>2. ToCents(balance[a] + Principal[l]) \in Int
      BY <3>1, CentsAreWhole
    <3>3. ToCents(balance[a] + Principal[l]) >= balance[a] + WholeCents(Principal[l])
      BY <1>1, CreditCoversWhole
    <3>4. WholeCents(Principal[l]) \in Int
      BY <1>1 DEF WholeCents
    <3> QED BY <3>2, <3>3, <3>4
  <2>4. CASE b = a
    <3>1. /\ balance'[b] = ToCents(balance[a] + Principal[l])
          /\ Paid(b)' = Paid(b) + WholeCents(Principal[l])
      BY <1>2, <1>10, <2>4
    <3>2. balance'[b] >= balance[b] + WholeCents(Principal[l]) /\ balance'[b] \in Int
      BY <2>3, <2>4, <3>1
    <3> HIDE DEF T, a
    <3> QED BY <2>1, <2>2, <2>3, <3>1, <3>2 DEF T
  <2>5. CASE b # a
    <3>1. balance'[b] = balance[b] /\ Paid(b)' = Paid(b)
      BY <1>2, <1>10, <2>2, <2>5
    <3> QED BY <2>1, <3>1
  <2> QED BY <2>4, <2>5
<1> QED BY <1>6, <1>7, <1>8, <1>9, <1>11 DEF Books

\* What another payment takes is told in spent.
LEMMA SpendBooks ==
  ASSUME IInv, Books, NEW a \in Accounts, Spend(a)
  PROVE  Books'
<1>1. /\ \A b \in Accounts : balance'[b] = IF b = a THEN balance[b] - 2 ELSE balance[b]
      /\ \A b \in Accounts : spent'[b] = IF b = a THEN spent[b] + 2 ELSE spent[b]
      /\ UNCHANGED <<outstanding, status, rows, req, pc, seen>>
  BY DEF Spend, IInv, Typed, TypeOK, procVars
<1>2. \A b \in Accounts : balance[b] \in Int /\ spent[b] \in Int /\ InitialBalance[b] \in Int
  BY LoansAssumption DEF IInv, Typed, TypeOK
<1>3. Whole'
  <2>1. \A x \in Int : IsWhole(x) => IsWhole(x - 2)
    BY DEF IsWhole
  <2> QED BY <1>1, <1>2, <2>1 DEF Books, Whole
<1>4. SeenOwed' /\ DebtNeverUnderstated'
  BY <1>1 DEF Books, SeenOwed, DebtNeverUnderstated, IsIssued, Repaid, Total
<1>5. NeverOvercharged'
  <2> SUFFICES ASSUME NEW b \in Accounts
               PROVE  balance'[b] >= InitialBalance[b] - spent'[b] + Paid(b)
                                     - Total({q \in rows : q.from = b})
    BY <1>1 DEF NeverOvercharged, Paid, Total, Issued
  <2> DEFINE T == Total({q \in rows : q.from = b})
  <2>1. balance[b] >= InitialBalance[b] - spent[b] + Paid(b) - T
    BY DEF Books, NeverOvercharged, Paid
  <2>2. T \in Nat /\ Paid(b) \in Int
    BY Repayments, PaidType
  <2> HIDE DEF T
  <2> QED BY <1>1, <1>2, <2>1, <2>2 DEF T
<1>6. {m \in Loans : IsIssued(m)}' = {m \in Loans : IsIssued(m)}
  BY <1>1 DEF IsIssued
<1> QED BY <1>3, <1>4, <1>5, <1>6 DEF Books

LEMMA InitBooks == Init => Books
<1> SUFFICES ASSUME Init PROVE Books
  OBVIOUS
<1>1. IsFiniteSet({l \in Loans : IsIssued(l)})
  <2>1. {l \in Loans : IsIssued(l)} = {}
    BY DEF Init, IsIssued
  <2> QED BY <2>1, FS_EmptySet
<1>2. Whole
  <2>1. ASSUME NEW a \in Accounts PROVE IsWhole(balance[a])
    <3>1. IsWhole(InitialBalance[a])
      BY LoansAssumption
    <3>2. balance = InitialBalance
      BY DEF Init
    <3> QED BY <3>1, <3>2
  <2>2. IsWhole(0)
    BY DEF IsWhole
  <2>3. (\A l \in Loans : outstanding[l] = 0) /\ (\A h \in Handlers : seen[h] = 0)
    BY DEF Init
  <2> QED BY <2>1, <2>2, <2>3 DEF Whole
<1>3. SeenOwed /\ DebtNeverUnderstated
  BY DEF Init, SeenOwed, Owing, DebtNeverUnderstated
<1>4. NeverOvercharged
  <2> SUFFICES ASSUME NEW a \in Accounts
               PROVE  balance[a] >= InitialBalance[a] - spent[a] + Paid(a)
                                    - Total({q \in rows : q.from = a})
    BY DEF NeverOvercharged, Paid
  <2>1. Paid(a) = 0
    <3> DEFINE f == [l \in Issued(a) |-> WholeCents(Principal[l])]
    <3>1. DOMAIN f = {}
      BY DEF Init, Issued
    <3>2. Paid(a) = SumFunction(f)
      BY DEF Paid
    <3> HIDE DEF f
    <3> QED BY <3>1, <3>2, SumOfNone
  <2>2. Total({q \in rows : q.from = a}) = 0
    <3> DEFINE f == [q \in {q \in rows : q.from = a} |-> q.amt]
    <3>1. DOMAIN f = {}
      BY DEF Init
    <3>2. Total({q \in rows : q.from = a}) = SumFunction(f)
      BY DEF Total
    <3> HIDE DEF f
    <3> QED BY <3>1, <3>2, SumOfNone
  <2>3. balance[a] = InitialBalance[a] /\ spent[a] = 0 /\ InitialBalance[a] \in Int
    BY LoansAssumption DEF Init
  <2> QED BY <2>1, <2>2, <2>3
<1> QED BY <1>1, <1>2, <1>3, <1>4 DEF Books

LEMMA NextBooks == IInv /\ Books /\ [Next]_vars => Books'
<1> SUFFICES ASSUME IInv, Books, [Next]_vars PROVE Books'
  OBVIOUS
<1>1. ASSUME UNCHANGED <<balance, spent, outstanding, status, rows, req, pc, seen>>
      PROVE  Books'
  <2>1. \A h \in Handlers : IsWhole(seen'[h])
    BY <1>1 DEF Books, Whole
  <2> QED BY <1>1, <2>1, BooksKept
<1>2. ASSUME NEW h \in Handlers, Step(h) \/ Interrupt(h) PROVE Books'
  <2>1. CASE ValidateLoan(h)
    BY <2>1, ReadBooks
  <2>2. CASE Commit(h)
    BY <2>2, CommitBooks
  <2>3. CASE Arrive(h)
    BY <2>3, BooksMove DEF Arrive, Owing, dbVars
  <2>4. CASE ValidateAccount(h)
    BY <2>4, BooksMove DEF ValidateAccount, End, Owing, dbVars
  <2>5. CASE CreateRecord(h)
    BY <2>5, BooksMove DEF CreateRecord, End, Owing, dbVars
  <2>6. CASE DebitAccount(h)
    BY <2>6, BooksMove DEF DebitAccount, Owing, dbVars
  <2>7. CASE ReduceLoan(h)
    BY <2>7, BooksMove DEF ReduceLoan, Owing, dbVars
  <2>8. CASE FindEntry(h)
    BY <2>8, BooksMove DEF FindEntry, Owing, dbVars
  <2>9. CASE Respond(h) \/ Interrupt(h)
    BY <2>9, BooksMove DEF Respond, Interrupt, End, Owing, dbVars
  <2> QED BY <1>2, <2>1, <2>2, <2>3, <2>4, <2>5, <2>6, <2>7, <2>8, <2>9 DEF Step
<1>3. ASSUME NEW l \in Loans, Issue(l) PROVE Books'
  BY <1>3, IssueBooks
<1>4. ASSUME NEW a \in Accounts, SetStatus(a) \/ Spend(a) PROVE Books'
  BY <1>1, <1>4, SpendBooks DEF SetStatus, procVars
<1>5. CASE UNCHANGED vars
  BY <1>1, <1>5 DEF vars, dbVars, procVars
<1> QED BY <1>2, <1>3, <1>4, <1>5 DEF Next

LEMMA BooksHold == Spec => []Books
BY InitBooks, NextBooks, InductiveInvariant, PTL DEF Spec

\* Whatever repayments overwrite of each other, debt is not erased: what is owed
\* and what the rows say was repaid are never less than the principal.
THEOREM DebtKept == Spec => []DebtNeverUnderstated
<1>1. Books => DebtNeverUnderstated
  BY DEF Books
<1> QED BY <1>1, BooksHold, PTL

\* However often a repayment is retried, interrupted or rounded, an account is
\* charged for committed rows only, and for no more than they say.
THEOREM ChargedOnce == Spec => []NeverOvercharged
<1>1. Books => NeverOvercharged
  BY DEF Books
<1> QED BY <1>1, BooksHold, PTL
=============================================================================
