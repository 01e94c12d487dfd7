----------------------------- MODULE AuditOutbox -----------------------------
(***************************************************************************)
(* The audit outbox and its relay, bsage/garden/audit_outbox.py: events    *)
(* are rows of a table of their own; a background loop sends them to the   *)
(* collector in batches, marks what was sent, and backs off or gives up    *)
(* when a batch is refused.  The gateway opens the outbox and starts the   *)
(* relay when it comes up, and stops and closes them in that order.        *)
(*                                                                         *)
(* Every call of the database and the send are awaits: a step is what the  *)
(* relay does between two of them.  The outbox's lock is held within one   *)
(* step, so it is left out.                                                *)
(***************************************************************************)
EXTENDS Integers, FiniteSets

CONSTANTS Events,      \* the audit events of the run
          BatchSize,   \* rows of one batch
          MaxRetries,  \* refusals after which a row is given up
          MaxFaults    \* bound: crashes, stops and errors that are no delivery error

ASSUME SizesAssumption == BatchSize \in Nat \ {0} /\ MaxRetries \in Nat \ {0}
ASSUME FaultsAssumption == MaxFaults \in Nat
ASSUME EventsAssumption == IsFiniteSet(Events)

VARIABLES
  \* the table
  id,          \* per event: its row id, 0 while there is no row
  delivered,   \* rows with delivered_at
  dead,        \* rows with dead_letter
  due,         \* rows whose next_attempt_at is null or past
  retries,     \* retry_count of the row
  \* the process
  enabled,     \* relay_enabled of the settings
  open,        \* is_open
  at,          \* where the relay's loop is
  batch,       \* the rows it read
  retryable,   \* what the delivery error says
  \* the collector, and history
  received,    \* the events it has
  refused,     \* the events of a batch that was refused for good
  dropped,     \* the events that found no outbox, or an error
  faults       \* faults so far

table == <<id, delivered, dead, due, retries>>
process == <<enabled, open, at, batch, retryable>>
history == <<received, refused, dropped, faults>>
outboxVars == <<table, process, history>>

Rows == {e \in Events : id[e] # 0}
Pending == Rows \ (delivered \cup dead)      \* count_pending

OutboxTypeOK ==
  /\ id \in [Events -> 0..Cardinality(Events)]
  /\ delivered \subseteq Events /\ dead \subseteq Events /\ due \subseteq Events
  /\ retries \in [Events -> 0..MaxRetries]
  /\ enabled \in BOOLEAN /\ open \in BOOLEAN /\ retryable \in BOOLEAN
  /\ at \in {"off", "stopped", "select", "send", "mark", "fail", "wait"}
  /\ batch \subseteq Events
  /\ received \subseteq Events /\ refused \subseteq Events /\ dropped \subseteq Events
  /\ faults \in 0..MaxFaults

OutboxInit ==
  /\ id = [e \in Events |-> 0] /\ retries = [e \in Events |-> 0]
  /\ delivered = {} /\ dead = {} /\ due = {}
  /\ enabled \in BOOLEAN
  /\ open = FALSE /\ at = "off" /\ batch = {} /\ retryable = FALSE
  /\ received = {} /\ refused = {} /\ dropped = {} /\ faults = 0

-----------------------------------------------------------------------------
\* The process.

\* AppState.initialize: the outbox is opened, then start() begins the loop, unless the
\* relay is disabled; no handler runs before.
Open ==
  /\ ~open
  /\ open' = TRUE
  /\ at' = IF enabled THEN "select" ELSE "off"
  /\ UNCHANGED <<table, enabled, batch, retryable, history>>

\* The relay forgets what it was doing.
Idles(place) == at' = place /\ batch' = {} /\ retryable' = FALSE

Fault == faults < MaxFaults /\ faults' = faults + 1

\* What the call that is cut may have done, all or nothing: a batch that was being sent is
\* received, an update that was being written is committed.
SendCut == \/ at = "send" /\ received' = received \cup batch
           \/ UNCHANGED received
MarkCutMutant == \/ at \in {"send", "mark"} /\ delivered' = delivered \cup batch
                 \/ UNCHANGED delivered
MarkCut == \/ at = "mark" /\ delivered' = delivered \cup batch
           \/ UNCHANGED delivered

\* stop(): the loop is cancelled at the await it is in.
StopRelay ==
  /\ at \notin {"off", "stopped"} /\ Fault
  /\ SendCut /\ MarkCut /\ Idles("stopped")
  /\ UNCHANGED <<id, dead, due, retries, enabled, open, refused, dropped>>

\* close(), after stop(): events may be emitted between the two.
Close ==
  /\ open /\ \/ at = "stopped" /\ UNCHANGED faults
             \/ at = "off" /\ ~enabled /\ Fault
  /\ open' = FALSE /\ at' = "off"
  /\ UNCHANGED <<table, enabled, batch, retryable, received, refused, dropped>>

\* The process dies; the table stays.
Crash ==
  /\ open /\ Fault
  /\ SendCut /\ MarkCut /\ Idles("off")
  /\ open' = FALSE
  /\ UNCHANGED <<id, dead, due, retries, enabled, refused, dropped>>

-----------------------------------------------------------------------------
\* The handlers that emit.

New(e) == id[e] = 0 /\ e \notin dropped

\* insert_event: the next id, no attempt yet.
Insert(e) ==
  /\ New(e) /\ open
  /\ id' = [id EXCEPT ![e] = Cardinality(Rows) + 1]
  /\ due' = due \cup {e}
  /\ UNCHANGED <<delivered, dead, retries, process, history>>

\* safe_emit: a closed outbox is no error, and an error is logged.
Drop(e) ==
  /\ New(e) /\ \/ ~open /\ UNCHANGED faults
               \/ open /\ Fault
  /\ dropped' = dropped \cup {e}
  /\ UNCHANGED <<table, process, received, refused>>

-----------------------------------------------------------------------------
\* The relay's loop.

SelectableMutant(e) == e \in Rows \ delivered /\ e \in due

\* The rows select_undelivered may return.
Selectable(e) == e \in Pending /\ e \in due

First(s, n) == {e \in s : Cardinality({f \in s : id[f] < id[e]}) < n}

\* run_once: the first rows by id; without any it waits.
Select ==
  LET rows == First({e \in Events : Selectable(e)}, BatchSize) IN
  /\ at = "select"
  /\ batch' = rows
  /\ at' = IF rows = {} THEN "wait" ELSE "send"
  /\ UNCHANGED <<table, enabled, open, retryable, history>>

\* The collector takes the batch.
Send ==
  /\ at = "send"
  /\ received' = received \cup batch
  /\ at' = "mark"
  /\ UNCHANGED <<table, enabled, open, batch, retryable, refused, dropped, faults>>

\* AuditDeliveryError.  One that may be retried says nothing of what the collector has: it
\* may be an answer that was lost.
SendRefused ==
  /\ at = "send"
  /\ \/ /\ retryable' = TRUE /\ UNCHANGED refused
        /\ received' \in {received, received \cup batch}
     \/ retryable' = FALSE /\ refused' = refused \cup batch /\ UNCHANGED received
  /\ at' = "fail"
  /\ UNCHANGED <<table, enabled, open, batch, dropped, faults>>

\* mark_delivered
Mark ==
  /\ at = "mark"
  /\ delivered' = delivered \cup batch
  /\ at' = "wait" /\ batch' = {}
  /\ UNCHANGED <<id, dead, due, retries, enabled, open, retryable, history>>

GivesUpMutant(e) == ~retryable \/ retries[e] + 2 >= MaxRetries

\* The row is dead: not retryable, or refused too often.
GivesUp(e) == ~retryable \/ retries[e] + 1 >= MaxRetries

\* record_failure, for each row in turn: it waits for its back-off, or is given up.
RecordFailure(e) ==
  /\ at = "fail" /\ e \in First(batch, 1)
  /\ retries' = [retries EXCEPT ![e] = @ + 1]
  /\ dead' = IF GivesUp(e) THEN dead \cup {e} ELSE dead
  /\ due' = IF retryable THEN due \ {e} ELSE due \cup {e}
  /\ batch' = batch \ {e}
  /\ at' = IF batch' = {} THEN "wait" ELSE "fail"
  /\ retryable' = (retryable /\ batch' # {})
  /\ UNCHANGED <<id, delivered, enabled, open, history>>

\* Any other exception ends the iteration: _run_loop logs it and goes on.
IterationFails ==
  /\ at \in {"select", "send", "mark", "fail"} /\ Fault
  /\ SendCut /\ MarkCut
  /\ at' = "wait" /\ batch' = {} /\ retryable' = FALSE
  /\ UNCHANGED <<id, dead, due, retries, enabled, open, refused, dropped>>

WakeMutant ==
  /\ at = "wait"
  /\ at' = "off"
  /\ UNCHANGED <<table, enabled, open, batch, retryable, history>>

\* The interval is over.
Wake ==
  /\ at = "wait"
  /\ at' = "select"
  /\ UNCHANGED <<table, enabled, open, batch, retryable, history>>

\* _backoff_seconds have passed for a row.
BackOffEnds(e) ==
  /\ e \in Rows \ due
  /\ due' = due \cup {e}
  /\ UNCHANGED <<id, delivered, dead, retries, process, history>>

Loop == Select \/ Send \/ SendRefused \/ Mark \/ Wake \/ \E e \in Events : RecordFailure(e)

OutboxNext ==
  \/ Open \/ StopRelay \/ Close \/ Crash
  \/ \E e \in Events : Insert(e) \/ Drop(e) \/ BackOffEnds(e)
  \/ Loop \/ IterationFails

OutboxSpec == OutboxInit /\ [][OutboxNext]_outboxVars

\* The gateway is brought up again, the loop runs while it is there, and time passes.
OutboxFairSpec ==
  /\ OutboxSpec
  /\ WF_outboxVars(Open) /\ WF_outboxVars(Close) /\ WF_outboxVars(Loop)
  /\ \A e \in Events : WF_outboxVars(BackOffEnds(e))

-----------------------------------------------------------------------------
\* Why the properties hold: the parts of the inductive invariant of the proofs.

\* Flags are of rows, and row ids are given once.
TableShape ==
  /\ delivered \cup dead \cup due \cup received \cup refused \subseteq Rows
  /\ dropped \cap Rows = {}

\* What the relay holds between its steps: rows nobody else settles.
BatchPending ==
  /\ batch \subseteq Pending
  /\ at \in {"off", "stopped", "select", "wait"} => batch = {}
  /\ at = "mark" => batch \subseteq received
  /\ at = "fail" /\ ~retryable => batch \subseteq refused
  /\ at # "off" => open

\* A row that is not given up has been refused fewer times than it takes.
RetriesLeft == \A e \in Events : e \notin dead => retries[e] < MaxRetries

\* The table and the relay agree at every step: settled rows are nowhere in the relay's
\* hands, what it is about to mark was received, what it refuses for good was refused.
RelayInvariant == OutboxTypeOK /\ TableShape /\ BatchPending /\ RetriesLeft

-----------------------------------------------------------------------------
\* Properties.

\* A row is marked delivered only when the collector has its event, whatever was cut short
\* between the send and the mark; and it is never both delivered and given up.
DeliveredWasReceived == delivered \subseteq received /\ delivered \cap dead = {}

\* An event is given up only after max_retries refusals, or when a batch it was in was
\* refused for good: never by a crash, a stop or an error that is no delivery error.
DeadForAReason == \A e \in dead : retries[e] = MaxRetries \/ e \in refused

OutcomesHold == DeliveredWasReceived /\ DeadForAReason

\* What is settled is final: a delivered or dead row is never sent again, and keeps its
\* state through crashes and restarts.
SettledForEver ==
  [][/\ delivered \subseteq delivered' /\ dead \subseteq dead'
     /\ \A e \in received' \ received : e \in Pending]_outboxVars

\* The outbox gives each event what AtLeastOnce promises.
stateOf == [e \in Events |-> IF e \in dropped THEN "dropped" ELSE IF e \in delivered THEN
            "delivered" ELSE IF e \in dead THEN "dead" ELSE IF id[e] # 0 THEN "stored" ELSE "new"]
Promise == INSTANCE AtLeastOnce WITH state <- stateOf
ImplementsAtLeastOnce == Promise!ASpec

\* With an enabled relay, every stored event is delivered or given up, and no batch ahead
\* of it keeps it waiting for ever.
EveryRowSettled ==
  \A e \in Events : (enabled /\ id[e] # 0) ~> (e \in delivered \cup dead)
=============================================================================
