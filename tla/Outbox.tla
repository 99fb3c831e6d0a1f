------------------------------- MODULE Outbox -------------------------------
(***************************************************************************)
(* The transactional outbox: what happens to an event after the ledger has *)
(* committed it.  A worker is one run of processOutboxBatch.  setInterval  *)
(* starts a run every few seconds whether or not the last one has ended,   *)
(* and every server process has its own timer, so runs overlap; each works *)
(* on the snapshot of rows it read first and is cut at every await.  The   *)
(* operator replays dead letters while workers run.                        *)
(***************************************************************************)
EXTENDS Integers, FiniteSets

CONSTANTS
  LastEvent,   \* the events are 1 .. LastEvent, in the order of createdAt
  Poison,      \* events whose description says "fail" or "dlq"
  Workers,     \* runs of processOutboxBatch that may overlap
  MaxRetries,  \* MAX_RETRIES
  BatchSize,   \* BATCH_SIZE
  UsePubSub,   \* USE_PUBSUB = "true"
  MaxFaults    \* bound on crashes of a process and errors of the database

Events == 1 .. LastEvent

ASSUME OutboxAssumption == /\ LastEvent \in Nat \ {0}
                           /\ Poison \subseteq Events
                           /\ MaxRetries \in Nat \ {0}
                           /\ BatchSize \in Nat \ {0}
                           /\ UsePubSub \in BOOLEAN
                           /\ MaxFaults \in Nat

VARIABLES
  written,     \* the events that have been committed to outbox_events
  processed,   \* the events with processed = true
  retryCount,  \* retryCount[e]
  dead,        \* dead[e]: how many dead_letter_entries e has
  batch,       \* batch[w]: the rows w has still to process, as w read them
  current,     \* current[w]: the row w is processing, as w read it
  pc,          \* the next await of w
  replay,      \* the event the operator is replaying, or 0
  replayed,    \* events with a dead letter that has a replayedAt
  emitted,     \* events emitted on the in-process bus
  delivered,   \* events that Pub/Sub has accepted
  failures,    \* failures[e]: failed attempts to process e, so far
  faults

dbVars == <<written, processed, retryCount, dead, replayed>>
vars   == <<dbVars, batch, current, pc, replay, emitted, delivered, failures, faults>>

Snapshot == [event : Events, retries : Nat]

NoRow == [event |-> 1, retries |-> 0]

Goto(w, l) == pc' = [pc EXCEPT ![w] = l]

\* w is done with its row.
NextRow(w) == Goto(w, IF batch[w] = {} THEN "idle" ELSE "publish")

\* An attempt to process e fails: the catch block is next.
Failed(w, e) ==
  /\ Goto(w, "catch")
  /\ failures' = [failures EXCEPT ![e] = @ + 1]

Init ==
  /\ written = {}
  /\ processed = {}
  /\ retryCount = [e \in Events |-> 0]
  /\ dead = [e \in Events |-> 0]
  /\ batch = [w \in Workers |-> {}]
  /\ current = [w \in Workers |-> NoRow]
  /\ pc = [w \in Workers |-> "idle"]
  /\ replay = 0
  /\ replayed = {}
  /\ emitted = {}
  /\ delivered = {}
  /\ failures = [e \in Events |-> 0]
  /\ faults = 0

-----------------------------------------------------------------------------

\* A payment commits with its event, perhaps after payments created later.
Write(e) ==
  /\ e \notin written
  /\ written' = written \cup {e}
  /\ UNCHANGED <<processed, retryCount, dead, replayed, batch, current, pc, replay,
                 emitted, delivered, failures, faults>>

\* Mutant of Open: events that have failed once are not selected again.
OpenFresh == {e \in written : e \notin processed /\ retryCount[e] = 0}

\* The oldest unprocessed events, at most BatchSize of them.
Open == {e \in written : e \notin processed /\ retryCount[e] < MaxRetries}
Selected == {e \in Open : Cardinality({d \in Open : d < e}) < BatchSize}

Poll(w) ==
  /\ pc[w] = "idle"
  /\ Selected # {}
  /\ batch' = [batch EXCEPT ![w] = {[event |-> e, retries |-> retryCount[e]] :
                                      e \in Selected}]
  /\ Goto(w, "publish")
  /\ UNCHANGED <<dbVars, current, replay, emitted, delivered, failures, faults>>

\* The next row in the order of createdAt: the simulated failure, or the
\* synchronous emit on the bus.
Publish(w) ==
  /\ pc[w] = "publish"
  /\ \E r \in batch[w] :
       /\ \A q \in batch[w] : r.event <= q.event
       /\ batch' = [batch EXCEPT ![w] = @ \ {r}]
       /\ current' = [current EXCEPT ![w] = r]
       /\ \/ /\ r.event \in Poison
             /\ Failed(w, r.event)
             /\ UNCHANGED emitted
          \/ /\ r.event \notin Poison
             /\ emitted' = emitted \cup {r.event}
             /\ Goto(w, IF UsePubSub THEN "pubsub" ELSE "mark")
             /\ UNCHANGED failures
  /\ UNCHANGED <<dbVars, replay, delivered, faults>>

\* Mutant of PubSub: the answer of publishToPubSub is ignored.
PubSubUnchecked(w) ==
  /\ pc[w] = "pubsub"
  /\ delivered' \in {delivered, delivered \cup {current[w].event}}
  /\ Goto(w, "mark")
  /\ UNCHANGED <<dbVars, batch, current, replay, emitted, failures, faults>>

\* publishToPubSub: acknowledged, refused, or accepted with the answer lost.
PubSub(w) ==
  /\ pc[w] = "pubsub"
  /\ \/ /\ delivered' = delivered \cup {current[w].event}
        /\ Goto(w, "mark")
        /\ UNCHANGED failures
     \/ /\ Failed(w, current[w].event)
        /\ delivered' \in {delivered, delivered \cup {current[w].event}}
  /\ UNCHANGED <<dbVars, batch, current, replay, emitted, faults>>

\* outboxEvent.update: processed.
Mark(w) ==
  /\ pc[w] = "mark"
  /\ processed' = processed \cup {current[w].event}
  /\ NextRow(w)
  /\ UNCHANGED <<written, retryCount, dead, replayed, batch, current, replay,
                 emitted, delivered, failures, faults>>

\* The same update fails: it is inside the try, so the attempt has failed.
MarkFails(w) ==
  /\ pc[w] = "mark"
  /\ faults < MaxFaults
  /\ faults' = faults + 1
  /\ Failed(w, current[w].event)
  /\ UNCHANGED <<dbVars, batch, current, replay, emitted, delivered>>

\* Mutant of NewRetryCount: an attempt counts twice.
NewRetryCountTwice(w) == current[w].retries + 2

\* The count that is written is the one read at the start, plus one.
NewRetryCount(w) == current[w].retries + 1

\* Mutant of Bury: the dead letter is written and the row is not marked.
BuryUnmarked(w) ==
  /\ pc[w] = "catch"
  /\ NewRetryCount(w) >= MaxRetries
  /\ retryCount' = [retryCount EXCEPT ![current[w].event] = NewRetryCount(w)]
  /\ dead' = [dead EXCEPT ![current[w].event] = @ + 1]
  /\ NextRow(w)
  /\ UNCHANGED <<written, processed, replayed, batch, current, replay, emitted,
                 delivered, failures, faults>>

\* The catch block: count the retry, or bury the event in one transaction.
Retry(w) ==
  /\ pc[w] = "catch"
  /\ NewRetryCount(w) < MaxRetries
  /\ retryCount' = [retryCount EXCEPT ![current[w].event] = NewRetryCount(w)]
  /\ NextRow(w)
  /\ UNCHANGED <<written, processed, dead, replayed, batch, current, replay,
                 emitted, delivered, failures, faults>>

Bury(w) ==
  /\ pc[w] = "catch"
  /\ NewRetryCount(w) >= MaxRetries
  /\ retryCount' = [retryCount EXCEPT ![current[w].event] = NewRetryCount(w)]
  /\ dead' = [dead EXCEPT ![current[w].event] = @ + 1]
  /\ processed' = processed \cup {current[w].event}
  /\ NextRow(w)
  /\ UNCHANGED <<written, replayed, batch, current, replay, emitted, delivered,
                 failures, faults>>

\* A database error outside the try of a row, or the end of the process: the
\* rest of the batch is dropped.
Abandon(w) ==
  /\ pc[w] # "idle"
  /\ faults < MaxFaults
  /\ faults' = faults + 1
  /\ batch' = [batch EXCEPT ![w] = {}]
  /\ Goto(w, "idle")
  /\ UNCHANGED <<dbVars, current, replay, emitted, delivered, failures>>

-----------------------------------------------------------------------------
(* POST /api/admin/dlq/replay.                                             *)

\* The event goes to the bus, and only there.
ReplayPublish(e) ==
  /\ replay = 0
  /\ dead[e] > 0
  /\ replay' = e
  /\ emitted' = emitted \cup {e}
  /\ UNCHANGED <<dbVars, batch, current, pc, delivered, failures, faults>>

\* deadLetterEntry.update: replayedAt.
ReplayRecord ==
  /\ replay # 0
  /\ replayed' = replayed \cup {replay}
  /\ replay' = 0
  /\ UNCHANGED <<written, processed, retryCount, dead, batch, current, pc, emitted,
                 delivered, failures, faults>>

\* The handler dies between the two.
ReplayInterrupted ==
  /\ replay # 0
  /\ faults < MaxFaults
  /\ faults' = faults + 1
  /\ replay' = 0
  /\ UNCHANGED <<dbVars, batch, current, pc, emitted, delivered, failures>>

-----------------------------------------------------------------------------

Work(w) == \/ Poll(w) \/ Publish(w) \/ PubSub(w) \/ Mark(w) \/ Retry(w) \/ Bury(w)

Next ==
  \/ \E e \in Events : Write(e) \/ ReplayPublish(e)
  \/ \E w \in Workers : Work(w) \/ MarkFails(w) \/ Abandon(w)
  \/ ReplayRecord
  \/ ReplayInterrupted

Spec == Init /\ [][Next]_vars

\* The interval timer and the promises of a run go on; nobody is obliged to
\* write or to replay.
Fairness == \A w \in Workers : WF_vars(Work(w))

FairSpec == Spec /\ Fairness

-----------------------------------------------------------------------------

TypeOK ==
  /\ written \subseteq Events
  /\ processed \subseteq written
  /\ retryCount \in [Events -> 0 .. MaxRetries]
  /\ dead \in [Events -> Nat]
  /\ batch \in [Workers -> SUBSET Snapshot]
  /\ current \in [Workers -> Snapshot]
  /\ pc \in [Workers -> {"idle", "publish", "pubsub", "mark", "catch"}]
  /\ replay \in 0 .. LastEvent
  /\ replayed \subseteq Events /\ emitted \subseteq Events /\ delivered \subseteq Events
  /\ failures \in [Events -> Nat]
  /\ faults \in 0 .. MaxFaults

\* The inductive invariant, in named parts.  A row in a run's hands was open
\* when it was read, and its count does not exceed the failures so far.
SnapshotOK(r) == /\ r.event \in written
                 /\ r.retries < MaxRetries
                 /\ r.retries <= failures[r.event]

SnapshotsOK ==
  \A w \in Workers :
    /\ \A r \in batch[w] : SnapshotOK(r)
    /\ pc[w] \in {"pubsub", "mark", "catch"} => SnapshotOK(current[w])

\* What a run has done when it is about to mark its row, or to count a retry.
AttemptsOK ==
  \A w \in Workers :
    /\ pc[w] \in {"pubsub", "mark"} => current[w].event \in emitted
    /\ pc[w] = "mark" /\ UsePubSub => current[w].event \in delivered
    /\ pc[w] = "catch" => current[w].retries < failures[current[w].event]

CountsOK == \A e \in Events : retryCount[e] <= failures[e]

\* An unprocessed event can still be selected by a poll: overlapping runs never
\* leave one with its retries used up and no dead letter.
NeverStranded ==
  \A e \in Events : e \notin processed => retryCount[e] < MaxRetries

\* At least once: an event is out of the workers' sight only after every
\* transport in use has accepted it, or with a dead letter.
SettledWasPublished ==
  \A e \in processed :
    \/ e \in emitted /\ (UsePubSub => e \in delivered)
    \/ dead[e] > 0

\* No event is buried before it has failed MAX_RETRIES times, whatever count
\* the run that buries it had read.
BuriedAfterRetries == \A e \in Events : dead[e] > 0 => failures[e] >= MaxRetries

\* Every committed event is published or buried, however the runs overlap: a
\* failing event does not block the ones behind it.
EveryEventSettles == \A e \in Events : e \in written ~> e \in processed
=============================================================================
