---------------------------- MODULE OutboxProofs ----------------------------
(***************************************************************************)
(* The safety of the outbox for any number of events, overlapping runs,    *)
(* retries and faults: no event is stranded, none is settled without being *)
(* published or buried, none is buried early.  Last, who hears what the    *)
(* worker emits on the in-process bus: nobody, whatever is imported first, *)
(* because the only attempt to subscribe is made before the bus is bound.  *)
(***************************************************************************)
EXTENDS Outbox, BusWiring, TLAPS

Inv == /\ TypeOK /\ SnapshotsOK /\ AttemptsOK /\ CountsOK
       /\ NeverStranded /\ SettledWasPublished /\ BuriedAfterRetries

\* What the tables and the history of the attempts say, without the runs.
TablesOK == CountsOK /\ NeverStranded /\ SettledWasPublished /\ BuriedAfterRetries

\* Failing an attempt at e adds one to its failures and moves only w.
LEMMA FailedIs ==
  ASSUME TypeOK, NEW w \in Workers, NEW e \in Events, Failed(w, e)
  PROVE  /\ failures' \in [Events -> Nat]
         /\ failures'[e] = failures[e] + 1
         /\ \A d \in Events : failures'[d] >= failures[d]
         /\ pc' = [pc EXCEPT ![w] = "catch"]
  BY DEF Failed, Goto, TypeOK

\* Ending a row leaves w idle or about to publish the next.
LEMMA NextRowIs ==
  ASSUME NEW w \in Workers, NextRow(w)
  PROVE  pc' = [pc EXCEPT ![w] = "idle"] \/ pc' = [pc EXCEPT ![w] = "publish"]
  BY DEF NextRow, Goto

\* Initially there is no event and no run.
LEMMA InitInv == Init => Inv
  BY OutboxAssumption DEF Init, Inv, TypeOK, SnapshotsOK, AttemptsOK, CountsOK,
     NeverStranded, SettledWasPublished, BuriedAfterRetries, Events, NoRow, Snapshot

\* A row as a run read it: an event and a count, the count below the limit and
\* not above the failures.
LEMMA SnapshotIs ==
  ASSUME TypeOK, NEW r \in Snapshot, SnapshotOK(r)
  PROVE  /\ r.event \in Events /\ r.event \in written
         /\ r.retries \in Nat /\ r.retries < MaxRetries
         /\ failures[r.event] \in Nat /\ r.retries <= failures[r.event]
  BY DEF TypeOK, Snapshot, SnapshotOK, Events

\* A commit adds an event that no run has touched.
LEMMA WriteInv ==
  ASSUME Inv, NEW e \in Events, Write(e) PROVE Inv'
  <1>1. written \subseteq written' /\ written' \subseteq Events
    BY DEF Inv, Write, TypeOK
  <1>2. UNCHANGED <<processed, retryCount, dead, replayed, batch, current, pc,
                    replay, emitted, delivered, failures, faults>>
    BY DEF Write
  <1>3. TypeOK'
    BY <1>1, <1>2 DEF Inv, TypeOK
  <1>4. \A r \in Snapshot : SnapshotOK(r) => SnapshotOK(r)'
    BY <1>1, <1>2 DEF SnapshotOK, Snapshot, Events
  <1>5. SnapshotsOK'
    BY <1>2, <1>4 DEF Inv, TypeOK, SnapshotsOK
  <1>6. AttemptsOK' /\ TablesOK'
    BY <1>2 DEF Inv, AttemptsOK, TablesOK, CountsOK, NeverStranded,
       SettledWasPublished, BuriedAfterRetries
  <1> QED BY <1>3, <1>5, <1>6 DEF Inv, TablesOK

\* A poll reads rows that are open now.
LEMMA PollInv ==
  ASSUME Inv, NEW w \in Workers, Poll(w) PROVE Inv'
  <1> DEFINE B == {[event |-> e, retries |-> retryCount[e]] : e \in Selected}
  <1>1. \A r \in B : r \in Snapshot /\ SnapshotOK(r)
    <2> SUFFICES ASSUME NEW e \in Selected
                 PROVE  LET r == [event |-> e, retries |-> retryCount[e]]
                        IN r \in Snapshot /\ SnapshotOK(r)
      OBVIOUS
    <2>1. e \in written /\ retryCount[e] < MaxRetries
      BY DEF Selected, Open
    <2>2. e \in Events /\ e \in written
      BY <2>1, OutboxAssumption DEF Inv, TypeOK, Events
    <2>3. retryCount[e] \in Nat /\ retryCount[e] <= failures[e]
      BY <2>2, OutboxAssumption DEF Inv, TypeOK, CountsOK
    <2> QED BY <2>1, <2>2, <2>3 DEF Snapshot, SnapshotOK
  <1>2. /\ batch' = [batch EXCEPT ![w] = B]
        /\ pc' = [pc EXCEPT ![w] = "publish"]
        /\ UNCHANGED <<dbVars, current, replay, emitted, delivered, failures, faults>>
    BY DEF Poll, Goto
  <1> HIDE DEF B
  <1>3. TypeOK'
    BY <1>1, <1>2 DEF Inv, TypeOK, dbVars
  <1>4. SnapshotsOK' /\ AttemptsOK'
    BY <1>1, <1>2 DEF Inv, TypeOK, SnapshotsOK, AttemptsOK, SnapshotOK, dbVars
  <1>5. TablesOK'
    BY <1>2 DEF Inv, TablesOK, CountsOK, NeverStranded, SettledWasPublished,
       BuriedAfterRetries, dbVars
  <1> QED BY <1>3, <1>4, <1>5 DEF Inv, TablesOK

\* A failed attempt leaves the tables alone and counts.
LEMMA AttemptFails ==
  ASSUME Inv, NEW w \in Workers, NEW r \in Snapshot, SnapshotOK(r), Failed(w, r.event),
         batch' = [batch EXCEPT ![w] = batch'[w]], batch'[w] \subseteq batch[w],
         current' = [current EXCEPT ![w] = r],
         delivered \subseteq delivered', delivered' \subseteq Events,
         faults' \in 0 .. MaxFaults,
         UNCHANGED <<dbVars, replay, emitted>>
  PROVE  Inv'
  <1>1. /\ failures' \in [Events -> Nat]
        /\ failures'[r.event] = failures[r.event] + 1
        /\ \A d \in Events : failures'[d] >= failures[d]
        /\ pc' = [pc EXCEPT ![w] = "catch"]
    BY FailedIs DEF Inv, Snapshot
  <1>2. TypeOK'
    BY <1>1 DEF Inv, TypeOK, dbVars
  <1>3. SnapshotsOK'
    <2>1. ASSUME NEW q \in Snapshot, SnapshotOK(q)
          PROVE  SnapshotOK(q)'
      <3>1. q.event \in Events /\ q.retries \in Nat /\ failures[q.event] \in Nat
        BY <2>1, SnapshotIs DEF Inv
      <3>2. failures'[q.event] \in Nat /\ failures'[q.event] >= failures[q.event]
        BY <1>1, <3>1
      <3> QED BY <2>1, <3>1, <3>2 DEF SnapshotOK, dbVars
    <2>2. ASSUME NEW v \in Workers
          PROVE  /\ \A q \in batch'[v] : q \in Snapshot /\ SnapshotOK(q)
                 /\ pc'[v] \in {"pubsub", "mark", "catch"} =>
                      current'[v] \in Snapshot /\ SnapshotOK(current'[v])
      BY <1>1 DEF Inv, TypeOK, SnapshotsOK
    <2> QED BY <2>1, <2>2 DEF SnapshotsOK
  <1>4. AttemptsOK'
    <2> SUFFICES ASSUME NEW v \in Workers
                 PROVE  /\ pc'[v] \in {"pubsub", "mark"} => current'[v].event \in emitted'
                        /\ pc'[v] = "mark" /\ UsePubSub => current'[v].event \in delivered'
                        /\ pc'[v] = "catch" => current'[v].retries < failures'[current'[v].event]
      BY DEF AttemptsOK
    <2>1. CASE v = w
      <3>1. pc'[v] = "catch" /\ current'[v] = r
        BY <1>1, <2>1 DEF Inv, TypeOK
      <3>2. r.retries < failures'[r.event]
        BY <1>1, SnapshotIs DEF Inv
      <3> QED BY <3>1, <3>2
    <2>2. CASE v # w
      <3>1. pc'[v] = pc[v] /\ current'[v] = current[v]
        BY <1>1, <2>2 DEF Inv, TypeOK
      <3>2. current[v].event \in Events /\ current[v].retries \in Nat
        BY DEF Inv, TypeOK, Snapshot
      <3>3. failures'[current[v].event] >= failures[current[v].event]
        BY <1>1, <3>2
      <3>4. failures'[current[v].event] \in Nat /\ failures[current[v].event] \in Nat
        BY <1>1, <3>2 DEF Inv, TypeOK
      <3> QED BY <3>1, <3>2, <3>3, <3>4 DEF Inv, AttemptsOK
    <2> QED BY <2>1, <2>2
  <1>5. TablesOK'
    <2>1. \A e \in Events : /\ retryCount[e] \in Nat /\ failures[e] \in Nat
                            /\ failures'[e] \in Nat /\ failures'[e] >= failures[e]
      BY <1>1, OutboxAssumption DEF Inv, TypeOK
    <2>2. CountsOK' /\ BuriedAfterRetries'
      BY <2>1, OutboxAssumption DEF Inv, CountsOK, BuriedAfterRetries, dbVars
    <2>3. NeverStranded' /\ SettledWasPublished'
      BY DEF Inv, NeverStranded, SettledWasPublished, dbVars
    <2> QED BY <2>2, <2>3 DEF TablesOK
  <1> QED BY <1>2, <1>3, <1>4, <1>5 DEF Inv, TablesOK

\* An attempt that goes on, or ends without failing, keeps the runs in order,
\* whatever it writes to the tables.
LEMMA MoveInv ==
  ASSUME Inv, NEW w \in Workers, NEW r \in Snapshot, SnapshotOK(r),
         NEW l \in {"idle", "publish", "pubsub", "mark"},
         pc' = [pc EXCEPT ![w] = l],
         batch' = [batch EXCEPT ![w] = batch'[w]], batch'[w] \subseteq batch[w],
         current' = [current EXCEPT ![w] = r],
         emitted \subseteq emitted', emitted' \subseteq Events,
         delivered \subseteq delivered', delivered' \subseteq Events,
         l \in {"pubsub", "mark"} => r.event \in emitted',
         l = "mark" /\ UsePubSub => r.event \in delivered',
         processed' \subseteq written,
         retryCount' \in [Events -> 0 .. MaxRetries],
         dead' \in [Events -> Nat],
         TablesOK',
         UNCHANGED <<written, replayed, replay, failures, faults>>
  PROVE  Inv'
  <1>1. TypeOK'
    BY DEF Inv, TypeOK
  <1>2. ASSUME NEW q \in Snapshot, SnapshotOK(q)
        PROVE  SnapshotOK(q)'
    BY <1>2 DEF SnapshotOK
  <1>3. SnapshotsOK'
    <2>1. ASSUME NEW v \in Workers
          PROVE  /\ \A q \in batch'[v] : q \in Snapshot /\ SnapshotOK(q)
                 /\ pc'[v] \in {"pubsub", "mark", "catch"} =>
                      current'[v] \in Snapshot /\ SnapshotOK(current'[v])
      BY DEF Inv, TypeOK, SnapshotsOK
    <2> QED BY <1>2, <2>1 DEF SnapshotsOK
  <1>4. AttemptsOK'
    <2> SUFFICES ASSUME NEW v \in Workers
                 PROVE  /\ pc'[v] \in {"pubsub", "mark"} => current'[v].event \in emitted'
                        /\ pc'[v] = "mark" /\ UsePubSub => current'[v].event \in delivered'
                        /\ pc'[v] = "catch" => current'[v].retries < failures'[current'[v].event]
      BY DEF AttemptsOK
    <2>1. CASE v = w
      <3>1. pc'[v] = l /\ current'[v] = r
        BY <2>1 DEF Inv, TypeOK
      <3> QED BY <3>1
    <2>2. CASE v # w
      <3>1. pc'[v] = pc[v] /\ current'[v] = current[v]
        BY <2>2 DEF Inv, TypeOK
      <3> QED BY <3>1 DEF Inv, AttemptsOK
    <2> QED BY <2>1, <2>2
  <1> QED BY <1>1, <1>3, <1>4 DEF Inv, TablesOK

\* The next row is attempted.
LEMMA PublishInv ==
  ASSUME Inv, NEW w \in Workers, Publish(w) PROVE Inv'
  <1>1. PICK r \in batch[w] :
          /\ batch' = [batch EXCEPT ![w] = @ \ {r}]
          /\ current' = [current EXCEPT ![w] = r]
          /\ \/ Failed(w, r.event) /\ UNCHANGED emitted
             \/ /\ emitted' = emitted \cup {r.event}
                /\ Goto(w, IF UsePubSub THEN "pubsub" ELSE "mark")
                /\ UNCHANGED failures
    BY DEF Publish
  <1>2. r \in Snapshot /\ SnapshotOK(r)
    BY DEF Inv, TypeOK, SnapshotsOK
  <1>3. r.event \in Events
    BY <1>2 DEF Snapshot
  <1>4. batch' = [batch EXCEPT ![w] = batch'[w]] /\ batch'[w] \subseteq batch[w]
    BY <1>1 DEF Inv, TypeOK
  <1>5. UNCHANGED <<dbVars, replay, delivered, faults>>
    BY DEF Publish
  <1>6. CASE Failed(w, r.event) /\ UNCHANGED emitted
    BY <1>1, <1>2, <1>4, <1>5, <1>6, AttemptFails DEF Inv, TypeOK
  <1>7. CASE /\ emitted' = emitted \cup {r.event}
             /\ Goto(w, IF UsePubSub THEN "pubsub" ELSE "mark")
             /\ UNCHANGED failures
    <2>1. TablesOK'
      BY <1>5, <1>7 DEF Inv, TablesOK, CountsOK, NeverStranded, SettledWasPublished,
         BuriedAfterRetries, dbVars
    <2>2. PICK l \in {"pubsub", "mark"} :
            pc' = [pc EXCEPT ![w] = l] /\ (l = "mark" => ~UsePubSub)
      BY <1>7, OutboxAssumption DEF Goto
    <2> QED
      BY <1>1, <1>2, <1>3, <1>4, <1>5, <1>7, <2>1, <2>2, MoveInv DEF Inv, TypeOK, dbVars
  <1> QED BY <1>1, <1>6, <1>7

\* The row in hand, as the steps after Publish find it.
LEMMA CurrentIs ==
  ASSUME Inv, NEW w \in Workers, pc[w] \in {"pubsub", "mark", "catch"}
  PROVE  /\ current[w] \in Snapshot /\ SnapshotOK(current[w])
         /\ current = [current EXCEPT ![w] = current[w]]
         /\ batch = [batch EXCEPT ![w] = batch[w]]
         /\ current[w].event \in Events /\ current[w].event \in written
  <1>1. current[w] \in Snapshot /\ SnapshotOK(current[w])
    BY DEF Inv, TypeOK, SnapshotsOK
  <1> QED BY <1>1, SnapshotIs DEF Inv, TypeOK

\* Pub/Sub answers.
LEMMA PubSubInv ==
  ASSUME Inv, NEW w \in Workers, PubSub(w) PROVE Inv'
  <1>1. /\ current[w] \in Snapshot /\ SnapshotOK(current[w])
        /\ current = [current EXCEPT ![w] = current[w]]
        /\ batch = [batch EXCEPT ![w] = batch[w]]
        /\ current[w].event \in Events
    BY CurrentIs DEF PubSub
  <1>2. UNCHANGED <<dbVars, batch, current, replay, emitted, faults>>
    BY DEF PubSub
  <1>3. current[w].event \in emitted
    BY DEF Inv, AttemptsOK, PubSub
  <1>4. CASE /\ Failed(w, current[w].event)
             /\ delivered' \in {delivered, delivered \cup {current[w].event}}
    BY <1>1, <1>2, <1>4, AttemptFails DEF Inv, TypeOK
  <1>5. CASE /\ delivered' = delivered \cup {current[w].event}
             /\ Goto(w, "mark")
             /\ UNCHANGED failures
    <2>1. TablesOK'
      BY <1>2, <1>5 DEF Inv, TablesOK, CountsOK, NeverStranded, SettledWasPublished,
         BuriedAfterRetries, dbVars
    <2> QED
      BY <1>1, <1>2, <1>3, <1>5, <2>1, MoveInv DEF Inv, TypeOK, dbVars, Goto
  <1> QED BY <1>4, <1>5 DEF PubSub

\* The row is marked processed: both transports in use have had it.
LEMMA MarkInv ==
  ASSUME Inv, NEW w \in Workers, Mark(w) PROVE Inv'
  <1>1. /\ current[w] \in Snapshot /\ SnapshotOK(current[w])
        /\ current = [current EXCEPT ![w] = current[w]]
        /\ batch = [batch EXCEPT ![w] = batch[w]]
        /\ current[w].event \in written
    BY CurrentIs DEF Mark
  <1>2. /\ processed' = processed \cup {current[w].event}
        /\ UNCHANGED <<written, retryCount, dead, replayed, batch, current, replay,
                       emitted, delivered, failures, faults>>
    BY DEF Mark
  <1>3. current[w].event \in emitted /\ (UsePubSub => current[w].event \in delivered)
    BY DEF Inv, AttemptsOK, Mark
  <1>4. TablesOK'
    BY <1>2, <1>3 DEF Inv, TablesOK, CountsOK, NeverStranded, SettledWasPublished,
       BuriedAfterRetries
  <1>5. PICK l \in {"idle", "publish"} : pc' = [pc EXCEPT ![w] = l]
    BY NextRowIs DEF Mark
  <1> QED BY <1>1, <1>2, <1>4, <1>5, MoveInv DEF Inv, TypeOK

\* The mark fails: an attempt that failed.
LEMMA MarkFailsInv ==
  ASSUME Inv, NEW w \in Workers, MarkFails(w) PROVE Inv'
  <1>1. /\ current[w] \in Snapshot /\ SnapshotOK(current[w])
        /\ current = [current EXCEPT ![w] = current[w]]
        /\ batch = [batch EXCEPT ![w] = batch[w]]
    BY CurrentIs DEF MarkFails
  <1>2. faults' \in 0 .. MaxFaults
    BY OutboxAssumption DEF Inv, TypeOK, MarkFails
  <1> QED BY <1>1, <1>2, AttemptFails DEF MarkFails, Inv, TypeOK

\* What the catch block will write is a count of failures.
LEMMA CatchIs ==
  ASSUME Inv, NEW w \in Workers, pc[w] = "catch"
  PROVE  /\ NewRetryCount(w) \in 1 .. MaxRetries
         /\ NewRetryCount(w) <= failures[current[w].event]
  <1>1. /\ current[w] \in Snapshot /\ SnapshotOK(current[w])
        /\ current[w].retries < failures[current[w].event]
    BY CurrentIs DEF Inv, AttemptsOK
  <1>2. /\ current[w].retries \in Nat /\ current[w].retries < MaxRetries
        /\ failures[current[w].event] \in Nat
    BY <1>1, SnapshotIs DEF Inv
  <1> QED BY <1>1, <1>2, OutboxAssumption DEF NewRetryCount

\* A retry is counted.
LEMMA RetryInv ==
  ASSUME Inv, NEW w \in Workers, Retry(w) PROVE Inv'
  <1>1. /\ current[w] \in Snapshot /\ SnapshotOK(current[w])
        /\ current = [current EXCEPT ![w] = current[w]]
        /\ batch = [batch EXCEPT ![w] = batch[w]]
        /\ current[w].event \in Events
    BY CurrentIs DEF Retry
  <1> DEFINE e == current[w].event
             n == NewRetryCount(w)
  <1>2. /\ n < MaxRetries
        /\ retryCount' = [retryCount EXCEPT ![e] = n]
        /\ UNCHANGED <<written, processed, dead, replayed, batch, current, replay,
                       emitted, delivered, failures, faults>>
    BY DEF Retry
  <1>3. n \in 1 .. MaxRetries /\ n <= failures[e]
    BY CatchIs DEF Retry
  <1>4. PICK l \in {"idle", "publish"} : pc' = [pc EXCEPT ![w] = l]
    BY NextRowIs DEF Retry
  <1> HIDE DEF n
  <1>5. retryCount' \in [Events -> 0 .. MaxRetries]
    BY <1>1, <1>2, <1>3 DEF Inv, TypeOK
  <1>6. \A d \in Events : retryCount'[d] = IF d = e THEN n ELSE retryCount[d]
    BY <1>1, <1>2 DEF Inv, TypeOK
  <1>7. TablesOK'
    <2>1. CountsOK' /\ NeverStranded'
      BY <1>2, <1>3, <1>6 DEF Inv, CountsOK, NeverStranded
    <2>2. SettledWasPublished' /\ BuriedAfterRetries'
      BY <1>2 DEF Inv, SettledWasPublished, BuriedAfterRetries
    <2> QED BY <2>1, <2>2 DEF TablesOK
  <1> QED BY <1>1, <1>2, <1>4, <1>5, <1>7, MoveInv DEF Inv, TypeOK

\* An event is buried: it has failed often enough, and is out of sight.
LEMMA BuryInv ==
  ASSUME Inv, NEW w \in Workers, Bury(w) PROVE Inv'
  <1>1. /\ current[w] \in Snapshot /\ SnapshotOK(current[w])
        /\ current = [current EXCEPT ![w] = current[w]]
        /\ batch = [batch EXCEPT ![w] = batch[w]]
        /\ current[w].event \in Events /\ current[w].event \in written
    BY CurrentIs DEF Bury
  <1> DEFINE e == current[w].event
             n == NewRetryCount(w)
  <1>2. /\ n >= MaxRetries
        /\ retryCount' = [retryCount EXCEPT ![e] = n]
        /\ dead' = [dead EXCEPT ![e] = @ + 1]
        /\ processed' = processed \cup {e}
        /\ UNCHANGED <<written, replayed, batch, current, replay, emitted,
                       delivered, failures, faults>>
    BY DEF Bury
  <1>3. n \in 1 .. MaxRetries /\ n <= failures[e]
    BY CatchIs DEF Bury
  <1>4. PICK l \in {"idle", "publish"} : pc' = [pc EXCEPT ![w] = l]
    BY NextRowIs DEF Bury
  <1> HIDE DEF n
  <1>5. retryCount' \in [Events -> 0 .. MaxRetries] /\ dead' \in [Events -> Nat]
    BY <1>1, <1>2, <1>3 DEF Inv, TypeOK
  <1>6. \A d \in Events : /\ retryCount'[d] = IF d = e THEN n ELSE retryCount[d]
                          /\ dead'[d] = IF d = e THEN dead[d] + 1 ELSE dead[d]
                          /\ dead[d] \in Nat
    BY <1>1, <1>2 DEF Inv, TypeOK
  <1>7. failures[e] \in Nat /\ failures[e] >= MaxRetries
    BY <1>1, <1>2, <1>3, SnapshotIs, OutboxAssumption DEF Inv
  <1>8. TablesOK'
    <2>1. CountsOK' /\ NeverStranded'
      BY <1>2, <1>3, <1>6 DEF Inv, CountsOK, NeverStranded
    <2>2. BuriedAfterRetries'
      BY <1>2, <1>6, <1>7 DEF Inv, BuriedAfterRetries
    <2>3. SettledWasPublished'
      <3> SUFFICES ASSUME NEW d \in processed'
                   PROVE  \/ d \in emitted /\ (UsePubSub => d \in delivered)
                          \/ dead'[d] > 0
        BY <1>2 DEF SettledWasPublished
      <3>1. d \in Events
        BY <1>1, <1>2, OutboxAssumption DEF Inv, TypeOK, Events
      <3>2. CASE d = e
        BY <1>6, <3>1, <3>2
      <3>3. CASE d # e
        BY <1>2, <1>6, <3>1, <3>3 DEF Inv, SettledWasPublished
      <3> QED BY <3>2, <3>3
    <2> QED BY <2>1, <2>2, <2>3 DEF TablesOK
  <1>9. processed' \subseteq written
    BY <1>1, <1>2 DEF Inv, TypeOK
  <1> QED BY <1>1, <1>2, <1>4, <1>5, <1>8, <1>9, MoveInv DEF Inv, TypeOK

\* A run ends early and forgets its rows.
LEMMA AbandonInv ==
  ASSUME Inv, NEW w \in Workers, Abandon(w) PROVE Inv'
  <1>1. TypeOK'
    BY OutboxAssumption DEF Inv, Abandon, Goto, TypeOK, dbVars
  <1>2. SnapshotsOK' /\ AttemptsOK'
    BY DEF Inv, Abandon, Goto, TypeOK, SnapshotsOK, AttemptsOK, SnapshotOK, dbVars
  <1>3. TablesOK'
    BY DEF Inv, Abandon, TablesOK, CountsOK, NeverStranded, SettledWasPublished,
       BuriedAfterRetries, dbVars
  <1> QED BY <1>1, <1>2, <1>3 DEF Inv, TablesOK

\* A replay emits the event again and changes nothing a run relies on.
LEMMA ReplayInv ==
  ASSUME Inv, (\E e \in Events : ReplayPublish(e)) \/ ReplayRecord \/ ReplayInterrupted
  PROVE  Inv'
  <1>1. /\ emitted \subseteq emitted' /\ emitted' \subseteq Events
        /\ replay' \in 0 .. LastEvent /\ replayed' \subseteq Events
        /\ faults' \in 0 .. MaxFaults
        /\ UNCHANGED <<written, processed, retryCount, dead, batch, current, pc,
                       delivered, failures>>
    <2>1. CASE \E e \in Events : ReplayPublish(e)
      BY <2>1 DEF Inv, TypeOK, ReplayPublish, dbVars, Events
    <2>2. CASE ReplayRecord
      BY <2>2, OutboxAssumption DEF Inv, TypeOK, ReplayRecord, dbVars, Events
    <2>3. CASE ReplayInterrupted
      BY <2>3, OutboxAssumption DEF Inv, TypeOK, ReplayInterrupted, dbVars, Events
    <2> QED BY <2>1, <2>2, <2>3
  <1>2. TypeOK'
    BY <1>1 DEF Inv, TypeOK
  <1>3. SnapshotsOK' /\ AttemptsOK'
    BY <1>1 DEF Inv, SnapshotsOK, AttemptsOK, SnapshotOK
  <1>4. TablesOK'
    BY <1>1 DEF Inv, TablesOK, CountsOK, NeverStranded, SettledWasPublished,
       BuriedAfterRetries
  <1> QED BY <1>2, <1>3, <1>4 DEF Inv, TablesOK

\* Every step preserves Inv.
LEMMA NextInv == Inv /\ [Next]_vars => Inv'
  <1> SUFFICES ASSUME Inv, [Next]_vars PROVE Inv'
    OBVIOUS
  <1>1. CASE UNCHANGED vars
    BY <1>1 DEF Inv, vars, dbVars, TypeOK, SnapshotsOK, SnapshotOK, AttemptsOK,
       CountsOK, NeverStranded, SettledWasPublished, BuriedAfterRetries
  <1>2. ASSUME NEW w \in Workers, Work(w) \/ MarkFails(w) \/ Abandon(w)
        PROVE  Inv'
    BY <1>2, PollInv, PublishInv, PubSubInv, MarkInv, MarkFailsInv, RetryInv,
       BuryInv, AbandonInv DEF Work
  <1> QED BY <1>1, <1>2, WriteInv, ReplayInv DEF Next

\* Inv holds in every reachable state.
LEMMA InvHolds == Spec => []Inv
  BY InitInv, NextInv, PTL DEF Spec

\* The state of the outbox, the runs and the dead letters always has its shape;
\* in particular no retry count ever exceeds MAX_RETRIES.
THEOREM TypeCorrect == Spec => []TypeOK
  <1>1. Inv => TypeOK
    BY DEF Inv
  <1> QED BY <1>1, InvHolds, PTL

\* However many runs of processOutboxBatch overlap and fail, every unprocessed
\* event can be selected by the next poll.
THEOREM NothingStranded == Spec => []NeverStranded
  <1>1. Inv => NeverStranded
    BY DEF Inv
  <1> QED BY <1>1, InvHolds, PTL

\* Delivery is at least once: what the workers no longer see was accepted by
\* every transport in use, or has a dead letter.
THEOREM AtLeastOnce == Spec => []SettledWasPublished
  <1>1. Inv => SettledWasPublished
    BY DEF Inv
  <1> QED BY <1>1, InvHolds, PTL

\* An event has a dead letter only after MAX_RETRIES failed attempts, although
\* runs that overlap overwrite each other's counts.
THEOREM BuriedLate == Spec => []BuriedAfterRetries
  <1>1. Inv => BuriedAfterRetries
    BY DEF Inv
  <1> QED BY <1>1, InvHolds, PTL

-----------------------------------------------------------------------------
(* Who listens on the bus (BusWiring).                                     *)

\* A module that is being evaluated is not bound yet, and is evaluated once.
EvaluatedOnce ==
  /\ stack \in Seq(Modules)
  /\ \A i \in 1 .. Len(stack) : stack[i] \notin bound
  /\ \A i, j \in 1 .. Len(stack) : stack[i] = stack[j] => i = j

WiringInv == EvaluatedOnce /\ listeners = {}

\* What a module imports is a module.
LEMMA ImportsAreModules ==
  ASSUME NEW m, NEW i \in DOMAIN Imports(m)
  PROVE  Imports(m)[i] \in Modules
  <1>1. CASE m = "bus"
    BY <1>1 DEF Imports, Modules
  <1>2. CASE m # "bus"
    BY <1>2 DEF Imports, Modules
  <1> QED BY <1>1, <1>2

\* Evaluating an import keeps every module evaluated at most once.
LEMMA LinkInv == WiringInv /\ Link => WiringInv'
  <1> SUFFICES ASSUME WiringInv, Link PROVE WiringInv'
    OBVIOUS
  <1>1. PICK i \in DOMAIN Imports(Running) :
          /\ ~Visited(Imports(Running)[i])
          /\ stack' = Append(stack, Imports(Running)[i])
    BY DEF Link
  <1> DEFINE m == Imports(Running)[i]
  <1>2. m \in Modules
    BY ImportsAreModules
  <1>3. m \notin bound /\ \A k \in 1 .. Len(stack) : stack[k] # m
    BY <1>1 DEF Visited, WiringInv, EvaluatedOnce
  <1>4. bound' = bound /\ listeners' = {}
    BY DEF Link, WiringInv
  <1> HIDE DEF m
  <1>5. EvaluatedOnce'
    BY <1>1, <1>2, <1>3, <1>4 DEF m, WiringInv, EvaluatedOnce
  <1> QED BY <1>4, <1>5 DEF WiringInv

\* Running a body subscribes nobody: the bus is not bound while its own runs.
LEMMA RunBodyInv == WiringInv /\ RunBody => WiringInv'
  <1> SUFFICES ASSUME WiringInv, RunBody PROVE WiringInv'
    OBVIOUS
  <1>1. Len(stack) \in Nat \ {0} /\ Running \notin bound
    BY DEF WiringInv, EvaluatedOnce, RunBody, Running
  <1>2. EvaluatedOnce'
    BY <1>1 DEF WiringInv, EvaluatedOnce, RunBody, Running
  <1>3. listeners' = {}
    <2>1. CASE Running = "bus"
      BY <1>1, <2>1 DEF WiringInv, RunBody, InitConsumers
    <2>2. CASE Running # "bus"
      BY <2>2 DEF WiringInv, RunBody
    <2> QED BY <2>1, <2>2
  <1> QED BY <1>2, <1>3 DEF WiringInv

\* The audit and the notification service never listen on the bus, in whatever
\* order the modules of the import cycle are first imported.
THEOREM NobodyListens == WiringSpec => [](listeners = {})
  <1>1. WiringInit => WiringInv
    BY DEF WiringInit, WiringInv, EvaluatedOnce, Modules
  <1>2. WiringInv /\ [WiringNext]_wiringVars => WiringInv'
    <2>1. WiringInv /\ UNCHANGED wiringVars => WiringInv'
      BY DEF WiringInv, EvaluatedOnce, wiringVars
    <2> QED BY <2>1, LinkInv, RunBodyInv DEF WiringNext
  <1>3. WiringInv => listeners = {}
    BY DEF WiringInv
  <1> QED BY <1>1, <1>2, <1>3, PTL DEF WiringSpec
=============================================================================
