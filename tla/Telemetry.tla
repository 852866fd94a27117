----------------------------- MODULE Telemetry -----------------------------
(***************************************************************************)
(* How job history travels from one SQL Server instance to the control     *)
(* plane: the worker's polls and their durable bookmark, the durable       *)
(* outbox that takes what no session takes, the streams of successive      *)
(* sessions, and the hub's ingestion with the last-run summary and the     *)
(* alerts it raises.                                                       *)
(*                                                                         *)
(* A history row is its msdb id.  The worker is one JavaScript thread, so  *)
(* a step that awaits nothing is one action; only a crash can cut it.      *)
(***************************************************************************)
EXTENDS Integers, Sequences, FiniteSets

CONSTANTS
    MaxId,       \* bound: rows msdb writes
    Old,         \* rows there before the worker's first contact
    Window,      \* how far behind the newest row the bookmark is seeded
    Batch,       \* historyBatchSize
    MaxRows,     \* outbox.maxRows
    Jobs,        \* jobs the rows belong to
    JobOf,       \* the job of each row
    Pollers,     \* live polls that can be in flight at the same time
    Sessions,    \* worker sessions, each opened at most once
    Crashes,     \* bound: crashes of the worker
    None

ASSUME BoundsAssumption ==
    /\ {MaxId, Old, Window, Crashes} \subseteq Nat
    /\ Old <= MaxId
    /\ {Batch, MaxRows} \subseteq Nat \ {0}
ASSUME JobsAssumption == JobOf \in [1 .. MaxId -> Jobs]
ASSUME NoneAssumption == None \notin Sessions

Ids    == 1 .. MaxId
Causes == {"skipped", "evicted", "transit", "unknown", "failed"}

VARIABLES
    hist,      \* msdb: rows written so far
    mark,      \* worker, durable: history_high_water_mark
    out,       \* worker, durable: the outbox table, oldest first
    depth,     \* worker: #depth, the outbox's cached length
    mon,       \* worker: the instance's monitor
    ready,     \* worker: poll intervals are known
    poll,      \* worker: live polls in flight
    link,      \* the established session, or None
    opened,    \* sessions used so far
    stream,    \* worker to hub, per session
    known,     \* hub: instanceIds holds the instance, per session
    work,      \* hub: what is left of the history batch in hand, per session
    stored,    \* control plane: job_history
    hubMark,   \* control plane: sync_state.history_high_water_mark
    jobRow,    \* control plane: jobs a definition has arrived for
    lastRun,   \* control plane: jobs.last_run_*
    alerted,   \* control plane: notification events for runs
    crashes,   \* bound bookkeeping
    lost,      \* history: rows that will not arrive, by cause
    silent     \* history: rows stored without an alert

worker == <<mark, out, depth, mon, ready, poll>>
wire   == <<link, opened, stream>>
hub    == <<known, work>>
store  == <<stored, hubMark, jobRow, lastRun, alerted>>
ghosts == <<crashes, lost, silent>>
vars   == <<hist, worker, wire, hub, store, ghosts>>

-----------------------------------------------------------------------------
History(rows) == [kind |-> "history", rows |-> rows]
Heartbeat     == [kind |-> "heartbeat", rows |-> {}]

(* The rows a sequence of messages carries.                                 *)
Carried(q) == UNION {q[i].rows : i \in DOMAIN q}

Larger(a, b)  == IF a >= b THEN a ELSE b
Smaller(a, b) == IF a <= b THEN a ELSE b

Loses(cause, rows) == lost' = [lost EXCEPT ![cause] = @ \cup rows]

Idle    == [pc |-> "idle", base |-> 0, top |-> 0]
Nothing == [busy |-> FALSE, new |-> {}, top |-> 0, todo |-> {}, job |-> None, row |-> 0]

Init ==
    /\ hist = Old
    /\ mark = 0
    /\ out = <<>>
    /\ depth = 0
    /\ mon = "none"
    /\ ready = FALSE
    /\ poll = [p \in Pollers |-> Idle]
    /\ link = None
    /\ opened = {}
    /\ stream = [s \in Sessions |-> <<>>]
    /\ known = [s \in Sessions |-> FALSE]
    /\ work = [s \in Sessions |-> Nothing]
    /\ stored = {}
    /\ hubMark = 0
    /\ jobRow = {}
    /\ lastRun = [j \in Jobs |-> 0]
    /\ alerted = {}
    /\ crashes = 0
    /\ lost = [c \in Causes |-> {}]
    /\ silent = {}

-----------------------------------------------------------------------------
(* The SQL host: Agent writes a history row.                                *)
Run ==
    /\ hist < MaxId
    /\ hist' = hist + 1
    /\ UNCHANGED <<worker, wire, hub, store, ghosts>>

-----------------------------------------------------------------------------
(* Sessions                                                                 *)

(* #ensure connects to the instance.  A bookmark of zero, whether unset or  *)
(* not yet moved, is seeded; the older rows are skipped.  Then a snapshot   *)
(* and the pollers follow if the intervals are known, otherwise nothing     *)
(* until a session is ready.                                                *)
Seeded == IF mark = 0 THEN Larger(0, hist - Window) ELSE mark
StartMonitor ==
    /\ mon = "none"
    /\ mark' = Seeded
    /\ Loses("skipped", mark + 1 .. Seeded)
    /\ mon' = IF ready THEN "ensuring" ELSE "idle"
    /\ UNCHANGED <<hist, out, depth, ready, poll, wire, hub, store, crashes, silent>>

(* onReady starts the pollers whether or not its snapshot succeeds; #ensure *)
(* only if it does, and does not try again.                                 *)
StartPolling ==
    /\ \/ mon = "starting" /\ mon' = "polling"
       \/ mon = "ensuring" /\ mon' \in {"polling", "idle"}
    /\ UNCHANGED <<hist, mark, out, depth, ready, poll, wire, hub, store, ghosts>>

(* helloAck: Hello named the instances monitored when it was sent; onReady  *)
(* drains the outbox in the same breath and sets out to start the pollers.  *)
DrainOutbox(s) ==
    /\ stream' = [stream EXCEPT ![s] = @ \o out]
    /\ out' = <<>>
    /\ depth' = depth - Len(out)

Connect(s) ==
    /\ link = None
    /\ s \notin opened
    /\ link' = s
    /\ opened' = opened \cup {s}
    /\ \E named \in BOOLEAN :
         /\ named => mon # "none"
         /\ known' = [known EXCEPT ![s] = named]
    /\ DrainOutbox(s)
    /\ ready' = TRUE
    /\ mon' = IF mon \in {"idle", "ensuring"} THEN "starting" ELSE mon
    /\ UNCHANGED <<hist, mark, poll, work, store, ghosts>>

(* The heartbeat names the instances too; the hub learns of late ones here. *)
(* Bound: one at a time, while it can still tell the hub something.         *)
Beat ==
    /\ link # None
    /\ mon # "none" /\ ~known[link]
    /\ \A i \in DOMAIN stream[link] : stream[link][i] # Heartbeat
    /\ stream' = [stream EXCEPT ![link] = Append(@, Heartbeat)]
    /\ UNCHANGED <<hist, worker, link, opened, hub, store, ghosts>>

(* The stream breaks: what send() took and the hub never sees is lost.      *)
Break(kept, q) ==
    /\ link' = None
    /\ stream' = [stream EXCEPT ![link] = SubSeq(q, 1, kept)]
    /\ Loses("transit", Carried(SubSeq(q, kept + 1, Len(q))))

Disconnect ==
    /\ link # None
    /\ \E kept \in 0 .. Len(stream[link]) : Break(kept, stream[link])
    /\ UNCHANGED <<hist, worker, opened, hub, store, crashes, silent>>

-----------------------------------------------------------------------------
(* pollHistory                                                              *)

PollStart(p) ==
    /\ mon = "polling"
    /\ poll[p].pc = "idle"
    /\ mark < hist
    /\ poll' = [poll EXCEPT ![p] = [pc |-> "asked", base |-> mark, top |-> mark]]
    /\ UNCHANGED <<hist, mark, out, depth, mon, ready, wire, hub, store, ghosts>>

(* readHistorySince: the rows after the bookmark, Batch of them at most.    *)
PollRead(p) ==
    /\ poll[p].pc = "asked"
    /\ poll' = [poll EXCEPT ![p].pc = "read", ![p].top = Smaller(hist, poll[p].base + Batch)]
    /\ UNCHANGED <<hist, mark, out, depth, mon, ready, wire, hub, store, ghosts>>

(* The query fails; the next poll asks again.                               *)
PollFail(p) ==
    /\ poll[p].pc = "asked"
    /\ poll' = [poll EXCEPT ![p] = Idle]
    /\ UNCHANGED <<hist, mark, out, depth, mon, ready, wire, hub, store, ghosts>>

(* enqueue and #evictIfNeeded, which counts by the cached depth.            *)
Excess == Smaller(Larger(depth + 1 - MaxRows, 0), Len(out) + 1)
Enqueue(m) ==
    LET q == Append(out, m) IN
    /\ out' = SubSeq(q, Excess + 1, Len(q))
    /\ depth' = depth + 1 - Excess
    /\ Loses("evicted", Carried(SubSeq(q, 1, Excess)))

Rows(p) == poll[p].base + 1 .. poll[p].top

(* emit: the session takes it, or the outbox does.                          *)
Emit(m) ==
    \/ /\ link # None
       /\ stream' = [stream EXCEPT ![link] = Append(@, m)]
       /\ UNCHANGED <<out, depth, lost>>
    \/ /\ link = None
       /\ Enqueue(m)
       /\ stream' = stream

(* emit, then the bookmark, then the next batch or the end of the poll.     *)
(* Mutant: a batch that is not full ends the poll before it is sent.        *)
ShipIfFull(p) ==
    /\ poll[p].pc = "read"
    /\ IF poll[p].top - poll[p].base < Batch
       THEN UNCHANGED <<stream, out, depth, lost, mark>>
       ELSE Emit(History(Rows(p))) /\ mark' = Larger(mark, poll[p].top)
    /\ poll' = [poll EXCEPT ![p] = Idle]
    /\ UNCHANGED <<hist, mon, ready, link, opened, hub, store, crashes, silent>>
PollShip(p) ==
    /\ poll[p].pc = "read"
    /\ Emit(History(Rows(p)))
    /\ mark' = Larger(mark, poll[p].top)
    /\ poll' = [poll EXCEPT ![p] = Idle]
    /\ UNCHANGED <<hist, mon, ready, link, opened, hub, store, crashes, silent>>

(* The process dies and comes back: the outbox table and the bookmark are   *)
(* what is left of it.  Mutant: #depth is not seeded from the table.        *)
DepthZero(q) == 0
DepthOnStart(q) == Len(q)

Restarted(q) ==
    /\ crashes < Crashes
    /\ crashes' = crashes + 1
    /\ mon' = "none"
    /\ ready' = FALSE
    /\ poll' = [p \in Pollers |-> Idle]
    /\ out' = q
    /\ depth' = DepthOnStart(q)
    /\ UNCHANGED <<hist, opened, hub, store, silent>>

Crash ==
    /\ Restarted(out)
    /\ mark' = mark
    /\ \/ link = None /\ UNCHANGED <<link, stream, lost>>
       \/ link # None /\ \E kept \in 0 .. Len(stream[link]) : Break(kept, stream[link])

(* It dies between emit and the bookmark: the rows are on their way or in   *)
(* the outbox, and will be read again.  Mutant: the bookmark comes first.   *)
CrashMarkedFirst(p) ==
    /\ poll[p].pc = "read"
    /\ link = None
    /\ mark' = Larger(mark, poll[p].top)
    /\ Restarted(out)
    /\ UNCHANGED <<link, stream, lost>>
CrashInShip(p) ==
    /\ poll[p].pc = "read"
    /\ mark' = mark
    /\ LET m == History(Rows(p))
           q == Append(out, m)
       IN  \/ /\ link = None
              /\ Restarted(SubSeq(q, Excess + 1, Len(q)))
              /\ Loses("evicted", Carried(SubSeq(q, 1, Excess)))
              /\ UNCHANGED <<link, stream>>
           \/ /\ link # None
              /\ Restarted(out)
              /\ \E kept \in 0 .. Len(stream[link]) + 1 : Break(kept, Append(stream[link], m))

-----------------------------------------------------------------------------
(* The hub: one message at a time per session, sessions side by side        *)

Next1(s, kind) == ~work[s].busy /\ stream[s] # <<>> /\ Head(stream[s]).kind = kind
Consume(s) == stream' = [stream EXCEPT ![s] = Tail(@)]

HubBeat(s) ==
    /\ Next1(s, "heartbeat")
    /\ Consume(s)
    /\ known' = [known EXCEPT ![s] = TRUE]
    /\ UNCHANGED <<hist, worker, link, opened, work, store, ghosts>>

(* The instance is not in instanceIds: the batch is skipped.  Or a query    *)
(* throws before the INSERT: the chain logs it and goes on.                 *)
HubSkip(s) ==
    /\ Next1(s, "history")
    /\ Consume(s)
    /\ \/ ~known[s] /\ Loses("unknown", Head(stream[s]).rows \ stored)
       \/ known[s] /\ Loses("failed", Head(stream[s]).rows \ stored)
    /\ UNCHANGED <<hist, worker, link, opened, hub, store, crashes, silent>>

(* ON CONFLICT DO NOTHING ... RETURNING: the rows that were really new.     *)
(* Mutant: those beyond the high-water mark.                                *)
BeyondMark(rows) == {i \in rows : i > hubMark}
NewRows(rows) == rows \ stored

Highest(S) == CHOOSE i \in S : \A k \in S : k <= i

(* ingestHistory: the INSERT ...                                            *)
HubIngest(s) ==
    /\ Next1(s, "history")
    /\ known[s]
    /\ Consume(s)
    /\ LET rows == Head(stream[s]).rows IN
         /\ stored' = stored \cup rows
         /\ work' = [work EXCEPT ![s] = [busy |-> TRUE, new |-> NewRows(rows), top |-> Highest(rows),
                                         todo |-> {JobOf[i] : i \in rows}, job |-> None, row |-> 0]]
    /\ UNCHANGED <<hist, worker, link, opened, known, hubMark, jobRow, lastRun, alerted, ghosts>>

(* ... then GREATEST for the high-water mark.                               *)
HubMark(s) ==
    /\ work[s].top # 0
    /\ hubMark' = Larger(hubMark, work[s].top)
    /\ work' = [work EXCEPT ![s].top = 0]
    /\ UNCHANGED <<hist, worker, wire, known, stored, jobRow, lastRun, alerted, ghosts>>

(* refreshLastRunSummary: the latest run of a job is read ...               *)
RunsOf(j) == {i \in stored : JobOf[i] = j}
HubLatest(s) ==
    /\ work[s].busy /\ work[s].top = 0 /\ work[s].job = None
    /\ \E j \in work[s].todo :
         work' = [work EXCEPT ![s].todo = @ \ {j}, ![s].job = j, ![s].row = Highest(RunsOf(j))]
    /\ UNCHANGED <<hist, worker, wire, known, store, ghosts>>

(* ... and then written to the job's row, if there is one.                  *)
HubSummary(s) ==
    /\ work[s].job # None
    /\ lastRun' = IF work[s].job \in jobRow THEN [lastRun EXCEPT ![work[s].job] = work[s].row]
                  ELSE lastRun
    /\ work' = [work EXCEPT ![s].job = None, ![s].row = 0]
    /\ UNCHANGED <<hist, worker, wire, known, stored, hubMark, jobRow, alerted, ghosts>>

(* onRunsIngested: an event per new run of a job that has a row.            *)
Ingested(s) == work[s].busy /\ work[s].top = 0 /\ work[s].job = None /\ work[s].todo = {}
Tellable(s) == {i \in work[s].new : JobOf[i] \in jobRow}
Told(s, runs) ==
    /\ alerted' = alerted \cup runs
    /\ silent' = silent \cup (work[s].new \ runs)
    /\ work' = [work EXCEPT ![s] = Nothing]
    /\ UNCHANGED <<hist, worker, wire, known, stored, hubMark, jobRow, lastRun, crashes, lost>>

HubNotify(s) == Ingested(s) /\ Told(s, Tellable(s))

(* A statement after the INSERT throws: the rest of the message is dropped, *)
(* the events of the runs that are left included.                           *)
HubFail(s) ==
    /\ work[s].busy
    /\ \E runs \in SUBSET Tellable(s) : (runs # {} => Ingested(s)) /\ Told(s, runs)

(* recordJobVersion inserts the job's row, with no last run.                *)
JobAppears(j) ==
    /\ j \notin jobRow
    /\ jobRow' = jobRow \cup {j}
    /\ UNCHANGED <<hist, worker, wire, hub, stored, hubMark, lastRun, alerted, ghosts>>

-----------------------------------------------------------------------------
PollStep(p) == PollStart(p) \/ PollRead(p) \/ PollShip(p)
HubStep(s) ==
    HubBeat(s) \/ HubIngest(s) \/ HubMark(s) \/ HubLatest(s) \/ HubSummary(s) \/ HubNotify(s)

Next ==
    \/ Run
    \/ StartMonitor \/ StartPolling
    \/ \E s \in Sessions : Connect(s)
    \/ Beat
    \/ Disconnect
    \/ \E p \in Pollers : PollStep(p) \/ PollFail(p) \/ CrashInShip(p)
    \/ Crash
    \/ \E s \in Sessions : HubStep(s) \/ HubSkip(s) \/ HubFail(s)
    \/ \E j \in Jobs : JobAppears(j)

Spec == Init /\ [][Next]_vars

(* The pollers are timers and the hub's chain always goes on.  Reading the  *)
(* history succeeds if it is tried for ever.                                *)
FairSpec ==
    /\ Spec
    /\ \A p \in Pollers : /\ WF_vars(PollStart(p)) /\ WF_vars(PollShip(p))
                          /\ SF_vars(PollRead(p))
    /\ \A s \in Sessions : WF_vars(HubStep(s) \/ HubSkip(s))

-----------------------------------------------------------------------------
(* Properties                                                               *)

(* A heartbeat carries no rows, and a history batch is never empty.         *)
Message == {m \in [kind : {"history", "heartbeat"}, rows : SUBSET Ids] :
              m.kind = "heartbeat" <=> m.rows = {}}

WorkerOK ==
    /\ hist \in Old .. MaxId /\ mark \in 0 .. MaxId /\ mark <= hist
    /\ out \in Seq(Message)
    /\ mon \in {"none", "idle", "ensuring", "starting", "polling"} /\ ready \in BOOLEAN
    /\ poll \in [Pollers -> [pc : {"idle", "asked", "read"}, base : 0 .. MaxId, top : 0 .. MaxId]]
WireOK ==
    /\ link \in Sessions \cup {None} /\ opened \subseteq Sessions
    /\ stream \in [Sessions -> Seq(Message)]
HubOK ==
    /\ known \in [Sessions -> BOOLEAN]
    /\ work \in [Sessions -> [busy : BOOLEAN, new : SUBSET Ids, top : 0 .. MaxId, todo : SUBSET Jobs,
                              job : Jobs \cup {None}, row : 0 .. MaxId]]
StoreOK ==
    /\ stored \subseteq Ids /\ hubMark \in 0 .. MaxId /\ alerted \subseteq Ids
    /\ jobRow \subseteq Jobs /\ lastRun \in [Jobs -> 0 .. MaxId]
GhostOK == crashes \in 0 .. Crashes /\ lost \in [Causes -> SUBSET Ids] /\ silent \subseteq Ids
OutboxOK ==
    /\ depth = Len(out)
    /\ Len(out) <= MaxRows
    /\ link # None => out = <<>>

(* Every variable keeps its shape; the cached depth is the length of the    *)
(* outbox table, which stays within its bound, and an established session   *)
(* leaves nothing in it.                                                    *)
TypeOK == WorkerOK /\ WireOK /\ HubOK /\ StoreOK /\ GhostOK /\ OutboxOK

(* What has become of the rows the worker took.                             *)
OnTheWay == Carried(out) \cup UNION {Carried(stream[s]) : s \in Sessions}
Lost     == UNION {lost[c] : c \in Causes}

(* The bookmark never passes a row that is nowhere: whatever the overlap of *)
(* polls, and wherever a crash falls, each row up to it is stored, on its   *)
(* way, or lost to one of five causes -- the seeding, eviction, a broken    *)
(* stream, an instance the hub does not know yet, a failed ingestion.       *)
Accounted == \A i \in 1 .. mark : i \in stored \cup OnTheWay \cup Lost

(* A stored run is alerted on, about to be, or was stored while its job had *)
(* no row or with a failing hub; replays and late batches hide no other.    *)
NoRunUnreported ==
    \A i \in stored : \/ i \in alerted \cup silent
                      \/ \E s \in Sessions : i \in work[s].new

(* Once a session and the monitor stay up, every row msdb writes reaches    *)
(* the control plane or is lost to a known cause: no order of polls,        *)
(* bookmarks and drains leaves one behind.                                  *)
Stays == <>[](link # None /\ mon = "polling")
Arrives == Stays => \A i \in Ids : (i \in 1 .. hist) ~> (i \in stored \cup Lost)

-----------------------------------------------------------------------------
(* What comments of the repository say of history, and the code does not    *)
(* keep to.                                                                 *)

(* "Bounded, with oldest-first eviction that is logged and reported rather  *)
(* than silent"; dropping "rows the control plane never confirmed ... is    *)
(* the one failure this whole table exists to prevent": a row the worker    *)
(* has let go of is stored, on its way or evicted, unless the seeding has   *)
(* left it out.  The code does not keep it: send() is not delivery.         *)
NoSilentLoss ==
    \A i \in 1 .. mark : i \in stored \cup OnTheWay \cup lost["evicted"] \cup lost["skipped"]
=============================================================================
