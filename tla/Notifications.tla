--------------------------- MODULE Notifications ---------------------------
(***************************************************************************)
(* Alerts: detectors record an event once, match it against the rules and  *)
(* queue one delivery per channel; a sweep sends what is due.              *)
(*                                                                         *)
(* Detectors (the hub's message handler, the detector timer), the delivery *)
(* sweep and the administrator's requests interleave at every statement    *)
(* they await.  A throttle window is a number of ticks, a delivery keeps   *)
(* its age up to the longest window, and a back-off is over at any time.   *)
(* Messages are told apart by what they are about, not by their wording.   *)
(***************************************************************************)
EXTENDS Naturals, Sequences, FiniteSets

CONSTANTS
    Channels, Rules,
    Jobs,         \* jobs that exist in the jobs table ...
    Gone,         \* ... and jobs whose history still arrives
    Home(_),      \* the instance of a job
    JobOf(_),     \* the job of run r of msdb's history
    Forms,        \* what a rule may say: [kinds, insts, jobs, chans, window]
    Others,       \* occurrences that are not about a finished run
    MaxRuns,      \* bound on runs
    MaxBatch,     \* bound on runs in one batch of history
    MaxAttempts,  \* MAX_ATTEMPTS
    MaxWindow,    \* the longest throttle window
    MaxEdits,     \* bound on requests of the administrator
    MaxFaults,    \* bound on crashes, lost replies and database errors
    None

Runs == 1..MaxRuns
Kinds == {"job.failed", "job.succeeded", "job.recovered",
          "job.long_running", "worker.offline", "command.failed"}
Form == [kinds : SUBSET Kinds, insts : SUBSET {Home(j) : j \in Jobs},
         jobs : SUBSET Jobs, chans : SUBSET Channels, window : 0..MaxWindow]
\* An event: the dedupe key (kind and id), and the job it is about.
Event == [kind : Kinds, id : Nat, job : Jobs \cup Gone \cup {None}]

AllEvents == [kind : {"job.failed", "job.succeeded", "job.recovered"}, id : Runs, job : Jobs] \cup Others

ASSUME NotificationAssumption ==
    /\ MaxRuns \in Nat /\ MaxBatch \in Nat \ {0} /\ MaxAttempts \in Nat \ {0}
    /\ MaxWindow \in Nat /\ MaxEdits \in Nat /\ MaxFaults \in Nat
    /\ Forms \subseteq Form /\ Others \subseteq Event
    /\ Jobs \cap Gone = {} /\ None \notin Jobs \cup Gone
    /\ \A r \in Runs : JobOf(r) \in Jobs \cup Gone

Detectors == {"hub", "timer"}
Sweeps == 1..2

VARIABLES
    rules,       \* notification_rules: a form and whether it is enabled
    chan,        \* notification_channels: "new" (no row yet), "on", "off", "removed"
    failing,     \* channels with a last_error
    history,     \* outcomes of the runs in job_history
    events,      \* notification_events
    deliveries,  \* notification_deliveries, by event and channel
    det,         \* what each detector is about
    sweep,       \* the delivery sweeps under way
    got, twice,  \* what has arrived in a channel, once and more than once
    doubt,       \* sends whose outcome was lost
    orphan,      \* a rule named a removed channel when it was applied
    edits, faults

adminVars == <<rules, chan, edits>>
sentVars  == <<got, twice, doubt>>
vars == <<adminVars, failing, history, events, deliveries, det, sweep, sentVars, orphan, faults>>

\* A detector: runs still to look at, events still to record, then the targets
\* of the event that is fanned out, and the one about to be queued.
Quiet == [todo |-> <<>>, raise |-> <<>>, ev |-> {}, targets |-> {}, next |-> {}]
Fault == faults < MaxFaults /\ faults' = faults + 1

\* Channels and rules as an administrator has left them.
Init ==
    /\ rules \in [Rules -> {{}} \cup {{[form |-> f, on |-> TRUE]} : f \in Forms}]
    /\ chan \in [Channels -> {"new", "on"}] /\ failing = {}
    /\ \A r \in Rules : \A f \in rules[r] : \A c \in f.form.chans : chan[c] = "on"
    /\ history = <<>> /\ events = {} /\ deliveries = <<>>
    /\ det = [d \in Detectors |-> Quiet] /\ sweep = [s \in Sweeps |-> [rows |-> {}, out |-> {}]]
    /\ got = {} /\ twice = {} /\ doubt = {} /\ orphan = FALSE
    /\ edits = 0 /\ faults = 0

-----------------------------------------------------------------------------
(***************************************************************************)
(* Rules and channels                                                      *)
(***************************************************************************)

Edit == edits < MaxEdits /\ edits' = edits + 1

\* saveChannel: validateChannel has accepted the settings.
SaveChannel(c, on) ==
    /\ Edit /\ chan[c] # "removed"
    /\ chan' = [chan EXCEPT ![c] = IF on THEN "on" ELSE "off"]
    /\ UNCHANGED <<rules, failing, history, events, deliveries, det, sweep, sentVars, orphan, faults>>

\* deleteChannel: the deliveries go with the row, the rules keep its id.
DeleteChannel(c) ==
    /\ Edit /\ chan[c] \in {"on", "off"}
    /\ chan' = [chan EXCEPT ![c] = "removed"]
    /\ failing' = failing \ {c}
    /\ deliveries' = [k \in {x \in DOMAIN deliveries : x[2] # c} |-> deliveries[k]]
    /\ UNCHANGED <<rules, history, events, det, sweep, sentVars, orphan, faults>>

\* saveRule: the form offers the channels there are, and keeps those it had.
SaveRule(r, form, on) ==
    /\ Edit /\ form.kinds # {} /\ form.chans # {}
    /\ \A c \in form.chans : chan[c] \in {"on", "off"} \/ \E f \in rules[r] : c \in f.form.chans
    /\ rules' = [rules EXCEPT ![r] = {[form |-> form, on |-> on]}]
    /\ UNCHANGED <<chan, failing, history, events, deliveries, det, sweep, sentVars, orphan, faults>>

DeleteRule(r) ==
    /\ Edit /\ rules[r] # {}
    /\ rules' = [rules EXCEPT ![r] = {}]
    /\ UNCHANGED <<chan, failing, history, events, deliveries, det, sweep, sentVars, orphan, faults>>

\* test: a sample message; a failure is the caller's answer and nothing else.
TestChannel(c) ==
    /\ Edit /\ chan[c] \in {"on", "off"}
    /\ failing' = failing \ {c}
    /\ UNCHANGED <<rules, chan, history, events, deliveries, det, sweep, sentVars, orphan, faults>>

-----------------------------------------------------------------------------
(***************************************************************************)
(* Detection                                                               *)
(***************************************************************************)

\* #failureContext: how many runs of the job failed just before run r.
Before(r) == {q \in DOMAIN history : q < r /\ JobOf(q) = JobOf(r)}
\* A slip: the run itself is counted in.
FailuresWithSelf(r) ==
    LET upTo == Before(r) \cup {r} IN
    Cardinality({q \in upTo : \A p \in upTo : p >= q => history[p] = "failed"})
PreviousFailures(r) ==
    Cardinality({q \in Before(r) : \A p \in Before(r) : p >= q => history[p] = "failed"})

RunEvent(kind, r) == [kind |-> kind, id |-> r, job |-> JobOf(r)]
\* onRunsIngested for one run: the events it stands for, in their order.
EventsOf(r) ==
    IF JobOf(r) \in Gone \/ history[r] = "cancelled" THEN <<>>
    ELSE IF history[r] = "failed" THEN <<RunEvent("job.failed", r)>>
    ELSE IF PreviousFailures(r) = 0 THEN <<RunEvent("job.succeeded", r)>>
    ELSE <<RunEvent("job.succeeded", r), RunEvent("job.recovered", r)>>

\* A batch of history has been inserted; the rows that were new are looked at.
IngestRuns(n, outcome) ==
    /\ det["hub"] = Quiet /\ Len(history) + n <= MaxRuns
    /\ history' = history \o outcome
    /\ det' = [det EXCEPT !["hub"].todo = [i \in 1..n |-> Len(history) + i]]
    /\ UNCHANGED <<adminVars, failing, events, deliveries, sweep, sentVars, orphan, faults>>
NextRun(d) ==
    /\ det[d].ev = {} /\ det[d].raise = <<>> /\ det[d].todo # <<>>
    /\ det' = [det EXCEPT ![d].todo = Tail(@), ![d].raise = EventsOf(Head(det[d].todo))]
    /\ UNCHANGED <<adminVars, failing, history, events, deliveries, sweep, sentVars, orphan, faults>>

\* onCommandFailed and the sweeps of the detector timer: an occurrence they
\* may well have seen before.
Raise(d, ev) ==
    /\ det[d] = Quiet
    /\ (ev.kind = "command.failed") <=> (d = "hub")
    /\ det' = [det EXCEPT ![d].raise = <<ev>>]
    /\ UNCHANGED <<adminVars, failing, history, events, deliveries, sweep, sentVars, orphan, faults>>

\* recordEvent: an occurrence that is known already is no news.
RecordEvent(d) ==
    /\ det[d].ev = {} /\ det[d].raise # <<>>
    /\ LET ev == Head(det[d].raise) IN
       /\ events' = events \cup {ev}
       /\ det' = [det EXCEPT ![d].raise = Tail(@), ![d].ev = {ev} \ events]
    /\ UNCHANGED <<adminVars, failing, history, deliveries, sweep, sentVars, orphan, faults>>

-----------------------------------------------------------------------------
(***************************************************************************)
(* Fan-out                                                                 *)
(***************************************************************************)

\* The rules an event matches.
Matching(ev) ==
    {f \in UNION {rules[r] : r \in Rules} :
        /\ f.on /\ ev.kind \in f.form.kinds
        /\ f.form.insts # {} => ev.job # None /\ Home(ev.job) \in f.form.insts
        /\ f.form.jobs # {} => ev.job \in f.form.jobs}
\* One target for each channel; of several windows the shortest.
TargetsOf(ev) ==
    LET matching == Matching(ev) IN
    {[chan |-> c, window |-> CHOOSE w \in 0..MaxWindow :
            \E f \in matching : /\ c \in f.form.chans /\ f.form.window = w
                                /\ \A g \in matching : c \in g.form.chans => w <= g.form.window] :
        c \in UNION {f.form.chans : f \in matching}}

\* #fanOut: the rules are read ...
FanOut(d) ==
    /\ det[d].ev # {} /\ det[d].targets = {} /\ det[d].next = {}
    /\ \A ev \in det[d].ev :
       det' = [det EXCEPT ![d].targets = TargetsOf(ev), ![d].ev = IF TargetsOf(ev) = {} THEN {} ELSE @]
    /\ UNCHANGED <<adminVars, failing, history, events, deliveries, sweep, sentVars, orphan, faults>>

SameThing(ev, ew) == ev.kind = ew.kind /\ ev.job = ew.job
\* A slip: an alert that is only queued throttles the next one.
RecentlyQueued(c, ev, window) ==
    \E k \in DOMAIN deliveries :
        /\ k[2] = c /\ SameThing(k[1], ev)
        /\ deliveries[k].state \in {"sent", "pending"} /\ deliveries[k].age <= window
\* #recentlySent: an alert for the same thing reached the channel in the window.
RecentlySent(c, ev, window) ==
    \E k \in DOMAIN deliveries :
        /\ k[2] = c /\ SameThing(k[1], ev)
        /\ deliveries[k].state = "sent" /\ deliveries[k].age <= window

\* ... for each target the throttle is looked up ...
Throttle(d, t) ==
    /\ det[d].next = {} /\ t \in det[d].targets
    /\ \A ev \in det[d].ev :
       det' = [det EXCEPT ![d].targets = @ \ {t},
                          ![d].next = {[chan |-> t.chan, window |-> t.window,
                                        mute |-> t.window > 0 /\ RecentlySent(t.chan, ev, t.window)]}]
    /\ UNCHANGED <<adminVars, failing, history, events, deliveries, sweep, sentVars, orphan, faults>>

Queued(ev, t) ==
    IF <<ev, t.chan>> \in DOMAIN deliveries THEN deliveries
    ELSE [k \in DOMAIN deliveries \cup {<<ev, t.chan>>} |->
            IF k \in DOMAIN deliveries THEN deliveries[k]
            ELSE [state |-> IF t.mute THEN "suppressed" ELSE "pending", window |-> t.window,
                  attempts |-> 0, later |-> FALSE, age |-> 0]]
\* ... and its row is inserted, unless event and channel have one already.
Queue(d) ==
    /\ det[d].next # {}
    /\ \A ev \in det[d].ev, t \in det[d].next :
       /\ chan[t.chan] # "removed"
       /\ deliveries' = Queued(ev, t)
       /\ det' = [det EXCEPT ![d].next = {}, ![d].ev = IF det[d].targets = {} THEN {} ELSE @]
    /\ UNCHANGED <<adminVars, failing, history, events, sweep, sentVars, orphan, faults>>
\* The channel is gone: the foreign key refuses the row, the exception leaves
\* every loop up to the detector's caller, and that logs it.
QueueThrows(d) ==
    /\ \E t \in det[d].next : chan[t.chan] = "removed"
    /\ det' = [det EXCEPT ![d] = Quiet]
    /\ orphan' = TRUE
    /\ UNCHANGED <<adminVars, failing, history, events, deliveries, sweep, sentVars, faults>>

\* A statement of a detector fails.
DetectorThrows(d) ==
    /\ det[d] # Quiet /\ Fault
    /\ det' = [det EXCEPT ![d] = Quiet]
    /\ UNCHANGED <<adminVars, failing, history, events, deliveries, sweep, sentVars, orphan>>

-----------------------------------------------------------------------------
(***************************************************************************)
(* Delivery                                                                *)
(***************************************************************************)

\* A slip: whatever has not been sent is due.
UnsentIsDue == {k \in DOMAIN deliveries :
            deliveries[k].state # "sent" /\ ~deliveries[k].later /\ chan[k[2]] = "on"}
Due == {k \in DOMAIN deliveries :
            deliveries[k].state = "pending" /\ ~deliveries[k].later /\ chan[k[2]] = "on"}
Begin(s) ==
    /\ sweep[s].rows = {} /\ sweep[s].out = {} /\ Due # {}
    /\ \A x \in Sweeps : x < s => sweep[x].rows # {} \/ sweep[x].out # {}
    /\ sweep' = [sweep EXCEPT ![s].rows = {[key |-> k, attempts |-> deliveries[k].attempts] : k \in Due}]
    /\ UNCHANGED <<adminVars, failing, history, events, deliveries, det, sentVars, orphan, faults>>
\* A slip: the timer starts a sweep while another is under way.
DrainAnyway(s) == Begin(s)
\* drain: the rows that are due are read, unless a sweep is under way.
Drain(s) ==
    /\ \A x \in Sweeps : sweep[x].rows = {} /\ sweep[x].out = {}
    /\ Begin(s)

\* #deliver: sendNotification with the channel as it was read.
Arrive(k) == got' = got \cup {k} /\ twice' = IF k \in got THEN twice \cup {k} ELSE twice
Take(s, row, outcome) ==
    /\ sweep[s].out = {} /\ row \in sweep[s].rows
    /\ sweep' = [sweep EXCEPT ![s].rows = @ \ {row}, ![s].out = {[row |-> row, ok |-> outcome]}]
    /\ UNCHANGED <<adminVars, failing, history, events, deliveries, det, orphan>>
Send(s, row) == Take(s, row, "sent") /\ Arrive(row.key) /\ UNCHANGED <<doubt, faults>>
\* A refusal, worth a retry (5xx, 408, 429, no connection) or not (404, a bad URL).
SendFails(s, row, outcome) == Take(s, row, outcome) /\ UNCHANGED <<sentVars, faults>>
\* The message arrives and the answer does not, within SEND_TIMEOUT_MS.
SendTimesOut(s, row) ==
    /\ Take(s, row, "retry") /\ Fault
    /\ Arrive(row.key) /\ doubt' = doubt \cup {row.key}

\* A slip: the attempt is not counted.
RetriedForEver(row, outcome) ==
    [deliveries[row.key] EXCEPT !.state = IF outcome = "refused" THEN "failed" ELSE "pending", !.later = TRUE]
\* What a failure leaves of the row: it backs off, or it has had its attempts.
Retried(row, outcome) ==
    LET giveUp == outcome = "refused" \/ row.attempts + 1 >= MaxAttempts IN
    [deliveries[row.key] EXCEPT !.state = IF giveUp THEN "failed" ELSE "pending",
                                !.attempts = row.attempts + 1, !.later = TRUE]
SentRow(row) ==
    [deliveries[row.key] EXCEPT !.state = "sent", !.attempts = row.attempts + 1, !.age = 0]
\* The outcome is written to the delivery, and then to the channel.
RecordOutcome(s) ==
    /\ \E o \in sweep[s].out :
       LET k == o.row.key IN
       /\ k \in DOMAIN deliveries
       /\ deliveries' = [deliveries EXCEPT ![k] = IF o.ok = "sent" THEN SentRow(o.row) ELSE Retried(o.row, o.ok)]
       /\ failing' = IF o.ok = "sent" THEN failing \ {k[2]} ELSE failing \cup {k[2]}
    /\ sweep' = [sweep EXCEPT ![s].out = {}]
    /\ UNCHANGED <<adminVars, history, events, det, sentVars, orphan, faults>>
\* The row has gone with its channel: both updates find nothing.
OutcomeDropped(s) ==
    /\ \E o \in sweep[s].out : o.row.key \notin DOMAIN deliveries
    /\ sweep' = [sweep EXCEPT ![s].out = {}]
    /\ UNCHANGED <<adminVars, failing, history, events, deliveries, det, sentVars, orphan, faults>>
\* One of the two updates after a message was sent fails: that counts as a
\* failed attempt, and the alert will be sent again.
RecordFails(s) ==
    /\ Fault
    /\ \E o \in sweep[s].out :
       /\ o.ok = "sent" /\ o.row.key \in DOMAIN deliveries
       /\ deliveries' = [deliveries EXCEPT ![o.row.key] = Retried(o.row, "retry")]
       /\ failing' = failing \cup {o.row.key[2]}
       /\ doubt' = doubt \cup {o.row.key}
    /\ sweep' = [sweep EXCEPT ![s].out = {}]
    /\ UNCHANGED <<adminVars, history, events, det, got, twice, orphan>>

BackoffEnds(k) ==
    /\ k \in DOMAIN deliveries /\ deliveries[k].later /\ deliveries[k].state = "pending"
    /\ deliveries' = [deliveries EXCEPT ![k].later = FALSE]
    /\ UNCHANGED <<adminVars, failing, history, events, det, sweep, sentVars, orphan, faults>>

\* Time passes for the throttle windows.
Tick ==
    /\ \E k \in DOMAIN deliveries : deliveries[k].state = "sent" /\ deliveries[k].age <= MaxWindow
    /\ deliveries' = [k \in DOMAIN deliveries |->
            IF deliveries[k].state = "sent" /\ deliveries[k].age <= MaxWindow
            THEN [deliveries[k] EXCEPT !.age = @ + 1] ELSE deliveries[k]]
    /\ UNCHANGED <<adminVars, failing, history, events, det, sweep, sentVars, orphan, faults>>

\* The control plane dies and is started again: the tables are what is left.
Crash ==
    /\ Fault
    /\ det' = [d \in Detectors |-> Quiet]
    /\ sweep' = [s \in Sweeps |-> [rows |-> {}, out |-> {}]]
    /\ doubt' = doubt \cup {o.row.key : o \in {x \in UNION {sweep[s].out : s \in Sweeps} : x.ok = "sent"}}
    /\ UNCHANGED <<adminVars, failing, history, events, deliveries, got, twice, orphan>>

-----------------------------------------------------------------------------
Admin ==
    \/ \E c \in Channels : DeleteChannel(c) \/ TestChannel(c) \/ \E on \in BOOLEAN : SaveChannel(c, on)
    \/ \E r \in Rules : DeleteRule(r) \/ \E f \in Forms, on \in BOOLEAN : SaveRule(r, f, on)

Detect(d) ==
    \/ NextRun(d) \/ RecordEvent(d) \/ FanOut(d) \/ Queue(d) \/ QueueThrows(d)
    \/ \E t \in det[d].targets : Throttle(d, t)

Outcomes == {"failed", "ok", "cancelled"}
Deliver(s) ==
    \/ Drain(s) \/ RecordOutcome(s) \/ OutcomeDropped(s)
    \/ \E row \in sweep[s].rows : Send(s, row) \/ \E o \in {"retry", "refused"} : SendFails(s, row, o)

Next ==
    \/ Admin
    \/ \E n \in 1..MaxBatch : \E o \in [1..n -> Outcomes] : IngestRuns(n, o)
    \/ \E d \in Detectors : Detect(d) \/ DetectorThrows(d) \/ \E ev \in Others : Raise(d, ev)
    \/ \E s \in Sweeps : Deliver(s) \/ RecordFails(s) \/ \E row \in sweep[s].rows : SendTimesOut(s, row)
    \/ \E k \in DOMAIN deliveries : BackoffEnds(k)
    \/ Tick \/ Crash

Spec == Init /\ [][Next]_vars
\* The handlers and the sweep's timer go on, and a back-off comes to its end.
FairSpec ==
    /\ Spec
    /\ \A d \in Detectors : WF_vars(Detect(d))
    /\ WF_vars(\E s \in Sweeps : Deliver(s))
    /\ WF_vars(\E k \in DOMAIN deliveries : BackoffEnds(k))

-----------------------------------------------------------------------------
Delivery ==
    [state : {"pending", "sent", "failed", "suppressed"}, window : 0..MaxWindow,
     attempts : 0..MaxAttempts, later : BOOLEAN, age : 0..(MaxWindow + 1)]
Pairs == AllEvents \X Channels

TypeOK ==
    /\ rules \in [Rules -> SUBSET [form : Forms, on : BOOLEAN]]
    /\ chan \in [Channels -> {"new", "on", "off", "removed"}] /\ failing \subseteq Channels
    /\ history \in Seq(Outcomes) /\ events \subseteq AllEvents
    /\ DOMAIN deliveries \subseteq Pairs
    /\ \A k \in DOMAIN deliveries : deliveries[k] \in Delivery /\ chan[k[2]] \in {"on", "off"}
    /\ \A d \in Detectors : det[d].ev \subseteq AllEvents /\ Cardinality(det[d].ev) <= 1
    /\ got \subseteq Pairs /\ twice \subseteq got /\ doubt \subseteq got

\* An alert arrives in a channel once, however often its event is detected and
\* the sweep's timer fires; again only when the outcome of a send was lost.
NoDuplicate == twice \subseteq doubt

\* "Recent alerts" tells the truth: what is marked sent has arrived, for what is
\* throttled an alert about the same thing has arrived in the channel, and what
\* is marked failed has not.
RecordIsTrue ==
    \A k \in DOMAIN deliveries :
        CASE deliveries[k].state = "sent" -> k \in got
          [] deliveries[k].state = "suppressed" ->
                \E g \in got : g[2] = k[2] /\ SameThing(g[1], k[1])
          [] deliveries[k].state = "failed" -> k \in got => k \in doubt
          [] OTHER -> TRUE

\* The runs a detector has dealt with, and the events they stand for: every
\* failure, and the success that ends a streak of them.
Seen(r) == r \in DOMAIN history /\ \A i \in DOMAIN det["hub"].todo : det["hub"].todo[i] > r
Announced(r) ==
    LET prior == {q \in 1..(r - 1) : JobOf(q) = JobOf(r)} IN
    IF history[r] = "failed" THEN {"job.failed"}
    ELSE IF history[r] = "ok" /\ (\E q \in prior : history[q] = "failed" /\ \A p \in prior : p <= q)
         THEN {"job.recovered"} ELSE {}
Raised ==
    \A r \in {q \in Runs : Seen(q) /\ JobOf(q) \in Jobs} : \A kind \in Announced(r) :
        \/ RunEvent(kind, r) \in events
        \/ \E i \in DOMAIN det["hub"].raise : det["hub"].raise[i] = RunEvent(kind, r)

\* No alert is dropped silently: with no fault, and no rule that names a removed
\* channel, every failure and every recovery is recorded, however the history
\* is cut into batches.
NothingLost == faults = 0 /\ ~orphan => Raised
\* ... and whatever rules and channels there are, which the code does not keep.
NeverLost == faults = 0 => Raised

\* The list of recent alerts keeps its promise: no alert that was sent, given up
\* or throttled is ever taken up again (Due, onConflictDoNothing, the cascade).
Promise == INSTANCE AlertPromise WITH
    Events  <- AllEvents,
    Alike   <- {p \in AllEvents \X AllEvents : SameThing(p[1], p[2])},
    known   <- events,
    record  <- [k \in Pairs |-> IF k \in DOMAIN deliveries THEN deliveries[k].state
                                ELSE IF chan[k[2]] = "removed" THEN "dropped" ELSE "none"],
    arrived <- got,
    again   <- twice,
    unsure  <- doubt
KeepsAlerts == Promise!Spec

\* What is queued for a channel that is switched on is worked off: every alert
\* is sent or given up, whatever the channel answers (drain, #deliver).
Backlog == \E k \in DOMAIN deliveries : deliveries[k].state = "pending" /\ chan[k[2]] = "on"
Settles == Backlog ~> ~Backlog

=============================================================================
