----------------------------- MODULE AuditTrail -----------------------------
(***************************************************************************)
(* The audit log and its export: every action writes a row and queues it in *)
(* one transaction; a timer hands what is queued to the OpenTelemetry SDK,  *)
(* whose batch processor sends it to a collector.                          *)
(*                                                                         *)
(* The SDK is external: the processor keeps records in memory, throws away  *)
(* a batch the collector refuses, ignores what it is handed once it is shut *)
(* down, and loses everything in a crash.  Events are numbered in the order *)
(* of their rows, and a back-off is over at any time.                       *)
(***************************************************************************)
EXTENDS Naturals, FiniteSets

CONSTANTS
    MaxEvents,    \* bound on audited actions
    BatchSize,    \* exportBatchSize
    MaxAttempts,  \* maxAttempts
    MaxFaults     \* bound on crashes, shutdowns and failing statements

Events == 1..MaxEvents
Ticks == 1..2

ASSUME AuditAssumption ==
    MaxEvents \in Nat /\ BatchSize \in Nat \ {0} /\ MaxAttempts \in Nat \ {0} /\ MaxFaults \in Nat

VARIABLES
    underway,   \* handlers that have made their change and not yet written its row
    audit,      \* audit_log
    queue,      \* audit_export_queue: attempts and whether the row is due
    on,         \* whether export is configured
    open,       \* whether the SDK takes records: not shut down
    running,    \* #running
    drain,      \* the timer's calls under way
    collector,  \* whether the collector answers
    buffer,     \* records in the batch processor
    delivered, twice,
    handed, gaveUp, pruned,   \* history: handed over, given up aloud, aged out
    faults

vars == <<underway, audit, queue, on, open, running, drain, collector, buffer, delivered, twice,
          handed, gaveUp, pruned, faults>>

Idle == [pc |-> "idle"]
Queued == DOMAIN queue
Without(rows) == [e \in Queued \ rows |-> queue[e]]

-----------------------------------------------------------------------------
(* Handlers.                                                               *)

\* The change comes first; its audit row is the handler's next statement.
Do ==
    /\ underway + Cardinality(audit) < MaxEvents
    /\ underway' = underway + 1
    /\ UNCHANGED <<audit, queue, on, open, running, drain, collector, buffer, delivered, twice,
                   handed, gaveUp, pruned, faults>>

\* The row and its place in the queue are one transaction, whether or not
\* anything is exported.
WriteAudit ==
    /\ underway > 0 /\ underway' = underway - 1
    /\ LET e == Cardinality(audit) + 1 IN
       /\ audit' = audit \cup {e}
       /\ queue' = [f \in Queued \cup {e} |->
                       IF f = e THEN [attempts |-> 0, due |-> TRUE] ELSE queue[f]]
    /\ UNCHANGED <<on, open, running, drain, collector, buffer, delivered, twice,
                   handed, gaveUp, pruned, faults>>

\* The change stands without a row.
AuditFails ==
    /\ underway > 0 /\ faults < MaxFaults
    /\ underway' = underway - 1 /\ faults' = faults + 1
    /\ UNCHANGED <<audit, queue, on, open, running, drain, collector, buffer, delivered, twice,
                   handed, gaveUp, pruned>>

\* pruneRetention: nothing stays queued beyond the window when nothing drains it.
PruneRetention ==
    /\ ~on /\ Queued # {}
    /\ pruned' = pruned \cup Queued /\ queue' = Without(Queued)
    /\ UNCHANGED <<underway, audit, on, open, running, drain, collector, buffer, delivered, twice,
                   handed, gaveUp, faults>>

-----------------------------------------------------------------------------
(* The exporter.                                                           *)

Due == {e \in Queued : queue[e].due}
\* The oldest rows that are due, as many as a batch holds.
Pending == {e \in Due : Cardinality({f \in Due : f < e}) < BatchSize}

BeginAnyway(t) ==
    /\ on /\ drain[t] = Idle
    /\ running' = TRUE
    /\ drain' = [drain EXCEPT ![t] = [pc |-> "selected", batch |-> Pending]]
    /\ UNCHANGED <<underway, audit, queue, on, open, collector, buffer, delivered, twice,
                   handed, gaveUp, pruned, faults>>

Begin(t) == ~running /\ BeginAnyway(t)

WholeBatch(batch, thrown) == batch
DeliveredRows(batch, thrown) == batch \ thrown

\* The loop over the batch: a record the SDK throws at is set aside, the others
\* count as delivered, even if the SDK was shut down and takes nothing any more.
Emit(t) ==
    /\ drain[t].pc = "selected"
    /\ \E thrown \in SUBSET drain[t].batch :
          LET out == drain[t].batch \ thrown IN
          /\ drain' = [drain EXCEPT ![t] =
                [pc |-> "emitted", delivered |-> DeliveredRows(drain[t].batch, thrown), failed |-> thrown]]
          /\ handed' = handed \cup out
          /\ buffer' = IF open THEN buffer \cup out ELSE buffer
          /\ twice' = IF open THEN twice \cup (handed \cap out) ELSE twice
    /\ UNCHANGED <<underway, audit, queue, on, open, running, collector, delivered, gaveUp, pruned, faults>>

\* One DELETE for what was handed over.
DeleteDelivered(t) ==
    /\ drain[t].pc = "emitted"
    /\ queue' = Without(drain[t].delivered)
    /\ drain' = [drain EXCEPT ![t] = [pc |-> "failures", failed |-> drain[t].failed]]
    /\ UNCHANGED <<underway, audit, on, open, running, collector, buffer, delivered, twice,
                   handed, gaveUp, pruned, faults>>

GivesUp(attempts) == attempts >= MaxAttempts
SameAttempt(attempts) == attempts
NextAttempt(attempts) == attempts + 1

\* Each failure in turn: another attempt later, or off the queue with an error.
\* The row may have aged out meanwhile.
SettleFailure(t) ==
    /\ drain[t].pc = "failures" /\ drain[t].failed # {}
    /\ LET e == CHOOSE e \in drain[t].failed : \A f \in drain[t].failed : e <= f
           attempts == IF e \in Queued THEN NextAttempt(queue[e].attempts) ELSE 0 IN
       /\ drain' = [drain EXCEPT ![t].failed = @ \ {e}]
       /\ IF e \in Queued /\ GivesUp(attempts)
          THEN queue' = Without({e}) /\ gaveUp' = gaveUp \cup {e}
          ELSE /\ queue' = [f \in Queued |-> IF f = e THEN [attempts |-> attempts, due |-> FALSE]
                                             ELSE queue[f]]
               /\ UNCHANGED gaveUp
    /\ UNCHANGED <<underway, audit, on, open, running, collector, buffer, delivered, twice,
                   handed, pruned, faults>>

Finish(t) ==
    /\ drain[t].pc = "failures" /\ drain[t].failed = {}
    /\ drain' = [drain EXCEPT ![t] = Idle] /\ running' = FALSE
    /\ UNCHANGED <<underway, audit, queue, on, open, collector, buffer, delivered, twice,
                   handed, gaveUp, pruned, faults>>

\* A statement fails: the drain ends there, the rest is done again later.
DrainFails(t) ==
    /\ drain[t] # Idle /\ faults < MaxFaults
    /\ drain' = [drain EXCEPT ![t] = Idle] /\ running' = FALSE
    /\ faults' = faults + 1
    /\ UNCHANGED <<underway, audit, queue, on, open, collector, buffer, delivered, twice,
                   handed, gaveUp, pruned>>

BackoffOver(e) ==
    /\ e \in Queued /\ ~queue[e].due
    /\ queue' = [queue EXCEPT ![e].due = TRUE]
    /\ UNCHANGED <<underway, audit, on, open, running, drain, collector, buffer, delivered, twice,
                   handed, gaveUp, pruned, faults>>

-----------------------------------------------------------------------------
(* The SDK and the collector, external; stopping and starting.             *)

\* A batch is sent, or refused and thrown away.
Flush ==
    /\ open /\ buffer # {}
    /\ buffer' = {}
    /\ delivered' = IF collector THEN delivered \cup buffer ELSE delivered
    /\ UNCHANGED <<underway, audit, queue, on, open, running, drain, collector, twice,
                   handed, gaveUp, pruned, faults>>

CollectorTurns ==
    /\ faults < MaxFaults /\ collector' = ~collector /\ faults' = faults + 1
    /\ UNCHANGED <<underway, audit, queue, on, open, running, drain, buffer, delivered, twice,
                   handed, gaveUp, pruned>>

\* stop: the timer is cleared and the SDK flushed and shut down, whatever drain
\* is still running; the database is closed only after that.
Stop ==
    /\ on /\ open /\ faults < MaxFaults
    /\ open' = FALSE /\ buffer' = {} /\ faults' = faults + 1
    /\ delivered' = IF collector THEN delivered \cup buffer ELSE delivered
    /\ UNCHANGED <<underway, audit, queue, on, running, drain, collector, twice, handed, gaveUp, pruned>>

\* The process ends, by a crash or after Stop, and starts again with or without
\* export: what was in memory is gone, and an action whose row was not yet
\* written stands without one.
Restart(configured) ==
    /\ ~open \/ faults < MaxFaults
    /\ faults' = IF open THEN faults + 1 ELSE faults
    /\ on' = configured /\ open' = TRUE /\ running' = FALSE
    /\ drain' = [t \in Ticks |-> Idle] /\ buffer' = {}
    /\ underway' = 0
    /\ UNCHANGED <<audit, queue, collector, delivered, twice, handed, gaveUp, pruned>>

-----------------------------------------------------------------------------
Init ==
    /\ underway = 0 /\ audit = {} /\ queue = [e \in {} |-> Idle]
    /\ on \in BOOLEAN /\ open = TRUE /\ running = FALSE
    /\ drain = [t \in Ticks |-> Idle] /\ collector = TRUE
    /\ buffer = {} /\ delivered = {} /\ twice = {}
    /\ handed = {} /\ gaveUp = {} /\ pruned = {} /\ faults = 0

DrainStep(t) == Begin(t) \/ Emit(t) \/ DeleteDelivered(t) \/ SettleFailure(t) \/ Finish(t)

Next ==
    \/ Do \/ WriteAudit \/ AuditFails
    \/ \E e \in Events : BackoffOver(e)
    \/ \E t \in Ticks : DrainStep(t) \/ DrainFails(t)
    \/ PruneRetention \/ Flush \/ CollectorTurns \/ Stop
    \/ \E configured \in BOOLEAN : Restart(configured)

Spec == Init /\ [][Next]_vars
\* The timers fire, the statements under way end, a stopped process is started
\* again and a back-off runs out.
FairSpec ==
    /\ Spec
    /\ WF_vars(\E t \in Ticks : DrainStep(t))
    /\ \A e \in Events : WF_vars(BackoffOver(e))
    /\ WF_vars(PruneRetention) /\ WF_vars(~open /\ \E configured \in BOOLEAN : Restart(configured))

-----------------------------------------------------------------------------
(* Properties.                                                             *)

TypeOK ==
    /\ underway \in 0..MaxEvents /\ audit \subseteq Events
    /\ Queued \subseteq audit
    /\ \A e \in Queued : queue[e].attempts \in 0..(MaxAttempts - 1) /\ queue[e].due \in BOOLEAN
    /\ on \in BOOLEAN /\ open \in BOOLEAN /\ collector \in BOOLEAN
    /\ running = (\E t \in Ticks : drain[t] # Idle)
    /\ \A t \in Ticks :
          \/ drain[t] = Idle
          \/ drain[t] \in [pc : {"selected"}, batch : SUBSET audit]
          \/ drain[t] \in [pc : {"emitted"}, delivered : SUBSET audit, failed : SUBSET audit]
          \/ drain[t] \in [pc : {"failures"}, failed : SUBSET audit]
    /\ buffer \cup delivered \cup twice \cup gaveUp \subseteq audit
    /\ faults \in 0..MaxFaults

\* "A row is removed only after the record has been handed to the batch
\* processor" (audit-export.ts), or given up with an error, or aged out while
\* nothing was exported: no queued event disappears in any other way, through
\* failing statements, crashes and overlapping ticks.
NoQuietDrop == audit \subseteq Queued \cup handed \cup gaveUp \cup pruned

\* An event is handed over twice only if a statement failed or the process was
\* stopped in between: one drain at a time owns the queue.
TwiceOnlyAfterFault == faults = 0 => twice = {}

\* The queue does not grow for ever: every event leaves it, exported, given up
\* or aged out (ingest.ts: "a healthy queue drains within minutes").
QueueDrains == \A e \in Events : (e \in Queued) ~> (e \notin Queued)

\* "A collector outage degrades to 'the SIEM is behind', never to 'the event is
\* gone'" (docs/authentication.md, audit-export.ts): an audited event is queued,
\* on its way or delivered, unless it was given up aloud or aged out.  The code
\* does not keep it: the row goes when the record is in the processor's memory.
NeverGone ==
    audit \subseteq Queued \cup buffer \cup delivered \cup gaveUp \cup pruned

=============================================================================
