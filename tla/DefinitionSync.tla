--------------------------- MODULE DefinitionSync ---------------------------
(***************************************************************************)
(* How the job definitions of one SQL Server instance reach the control    *)
(* plane: the worker's definition poll, its reconnect and reconciling      *)
(* snapshots, the commands it applies and the attribution it notes, the    *)
(* streams of successive sessions, and the hub's handlers with the version *)
(* transaction behind them.                                                *)
(*                                                                         *)
(* msdb is the environment: a DBA edits it at any time, between any two    *)
(* queries of the worker.  A definition is a value of Defs, which stands   *)
(* for its hash; who wrote it is a ghost field the code never reads.       *)
(***************************************************************************)
EXTENDS Integers, Sequences, FiniteSets

CONSTANTS
    Jobs,        \* job uuids
    Defs,        \* canonical definitions, one per hash
    Commands,    \* changes issued in the dashboard
    Kinds,       \* bound: the kinds of them this instance issues
    Sessions,    \* worker sessions, each opened at most once
    Present,     \* jobs msdb holds when the worker starts
    FirstDef,    \* the definition they have then
    None,        \* absent
    MaxEdits,    \* bound: writes to msdb, the DBA's and the worker's
    Stalls       \* bound: snapshots that outlive SNAPSHOT_ABANDON_MS

(* Definitions as they travel; rows of msdb, of the commands table and of   *)
(* the jobs table; fingerprints.                                            *)
Blobs   == [job : Jobs, def : Defs, by : Commands \cup {"dba"}]
HostRow == [def : Defs, by : Commands \cup {"dba"}, mod : Nat]
CmdRow  == [job : Jobs \cup {None}, kind : {"upsert", "toggle", "delete"}, def : Defs,
            base : Defs \cup {None}, force : BOOLEAN, todo : BOOLEAN]
JobRow  == [def : Defs, no : Nat, drift : BOOLEAN, deleted : BOOLEAN]
Fps     == [count : Nat, newest : SUBSET Nat]

ASSUME SetsAssumption ==
    /\ Present \subseteq Jobs
    /\ FirstDef \in Defs
    /\ IsFiniteSet(Jobs)
    /\ Kinds \subseteq {"upsert", "toggle", "delete"}
    /\ {MaxEdits, Stalls} \subseteq Nat
ASSUME NamesAssumption ==
    /\ None \notin Defs \cup Commands \cup Sessions \cup {"dba"}
    /\ "poll" \notin Sessions
    /\ "dba" \notin Commands
    /\ None \notin HostRow /\ None \notin CmdRow /\ None \notin JobRow /\ None \notin Fps

VARIABLES
    msdb,      \* the jobs on the SQL host, with their date_modified
    edits,     \* number of writes so far, the clock behind date_modified
    cmd,       \* commands: what was asked, against which definition
    cache,     \* worker: #definitionHashes
    lastFp,    \* worker: #lastFingerprint
    pending,   \* worker: #pendingAttribution
    polling,   \* worker: startPolling has been called
    lock,      \* worker: who runs in #exclusive
    pollFp,    \* worker: the fingerprint the running poll started from
    snap,      \* worker: every sendSnapshot in progress
    exec,      \* worker: the command in handleCommand
    link,      \* the current session, or None
    opened,    \* sessions used so far
    stream,    \* worker to hub, per session
    acc,       \* hub: chunks of a snapshot received so far, per session
    work,      \* hub: transactions left of the message in hand, per session
    jobs,      \* control plane: the jobs table
    versions,  \* control plane: job_versions, per job
    stalled,   \* bound bookkeeping
    blind,     \* history: how the hash cache may have come to hide a change
    gone,      \* history: jobs that were absent from msdb at some time
    applied    \* history: which command changed which job of msdb

sql     == <<msdb, edits>>
memory  == <<cache, lastFp, pending>>
process == <<polling, lock, pollFp, snap>>
wire    == <<link, opened, stream>>
hub     == <<acc, work, stalled>>
store   == <<jobs, versions>>
ghosts  == <<blind, gone, applied>>
vars    == <<sql, cmd, memory, process, exec, wire, hub, store, ghosts>>

Snaps == Sessions \cup {"poll"}

-----------------------------------------------------------------------------
(* msdb as the worker reads it                                              *)

Live == {j \in Jobs : msdb[j] # None}

(* JOBS_FINGERPRINT_QUERY: the number of jobs and the newest date_modified. *)
(* Mutant: the number alone.                                                *)
Newest == {msdb[j].mod : j \in {i \in Live : \A k \in Live : msdb[k].mod <= msdb[i].mod}}
CountOnly == [count |-> Cardinality(Live), newest |-> {}]
Fingerprint == [count |-> Cardinality(Live), newest |-> Newest]

Blob(j)  == [job |-> j, def |-> msdb[j].def, by |-> msdb[j].by]
ReadJobs == {Blob(j) : j \in Live}

(* The hash cache, as readJobs would fill it.                               *)
Hashes == [j \in Jobs |-> IF msdb[j] = None THEN None ELSE msdb[j].def]

(* A change between a snapshot's read of the jobs and its read of the       *)
(* fingerprint.                                                             *)
Moved == blind' = IF \E p \in Snaps : snap[p].pc = "read" THEN blind \cup {"moved"} ELSE blind

Write(j, d, who) ==
    /\ msdb' = [msdb EXCEPT ![j] = [def |-> d, by |-> who, mod |-> edits + 1]]
    /\ edits' = edits + 1
    /\ Moved
    /\ gone' = gone

Drop(j) ==
    /\ msdb' = [msdb EXCEPT ![j] = None]
    /\ edits' = edits + 1
    /\ Moved
    /\ gone' = gone \cup {j}

(* Every order in which the elements of a finite set can be sent.           *)
Orders(S) == {q \in [1 .. Cardinality(S) -> S] : \A x \in S : \E i \in DOMAIN q : q[i] = x}

(* emit: onto the current stream, or nowhere; no definition is queued.      *)
Emit(messages) ==
    stream' = IF link = None THEN stream
              ELSE [stream EXCEPT ![link] = @ \o messages]

(* No command and no message in hand.                                       *)
NoCommand == [pc |-> "idle", cmd |-> None, job |-> None]
Nothing == [recs |-> {}, seen |-> None, new |-> None]

Init ==
    /\ msdb = [j \in Jobs |-> IF j \in Present
                              THEN [def |-> FirstDef, by |-> "dba", mod |-> 0] ELSE None]
    /\ edits = 0
    /\ cmd = [c \in Commands |-> None]
    /\ cache = [j \in Jobs |-> None]
    /\ lastFp = None
    /\ pending = [j \in Jobs |-> None]
    /\ polling = FALSE
    /\ lock = "free"
    /\ pollFp = None
    /\ snap = [p \in Snaps |-> [pc |-> "idle", jobs |-> {}]]
    /\ exec = NoCommand
    /\ link = None
    /\ opened = {}
    /\ stream = [s \in Sessions |-> <<>>]
    /\ acc = [s \in Sessions |-> {}]
    /\ work = [s \in Sessions |-> Nothing]
    /\ jobs = [j \in Jobs |-> None]
    /\ versions = [j \in Jobs |-> <<>>]
    /\ stalled = 0
    /\ blind = {}
    /\ gone = Jobs \ Present
    /\ applied = {}

-----------------------------------------------------------------------------
(* The SQL host                                                             *)

(* A DBA edits, creates or restores a job.                                  *)
DbaWrite(j, d) ==
    /\ edits < MaxEdits
    /\ Hashes[j] # d
    /\ Write(j, d, "dba")
    /\ UNCHANGED <<cmd, memory, process, exec, wire, hub, store, applied>>

DbaDrop(j) ==
    /\ edits < MaxEdits
    /\ msdb[j] # None
    /\ Drop(j)
    /\ UNCHANGED <<cmd, memory, process, exec, wire, hub, store, applied>>

-----------------------------------------------------------------------------
(* Sessions                                                                 *)

(* A session is established: onReady starts the reconnect snapshot.         *)
Connect(s) ==
    /\ link = None
    /\ s \notin opened
    /\ link' = s
    /\ opened' = opened \cup {s}
    /\ snap' = [snap EXCEPT ![s].pc = "start"]
    /\ UNCHANGED <<sql, cmd, memory, polling, lock, pollFp, exec, stream, hub, store, ghosts>>

(* The stream breaks; a tail of what was written never arrives.  The hub    *)
(* goes on with what did, also after the next session has begun.            *)
Disconnect ==
    /\ link # None
    /\ link' = None
    /\ \E kept \in 0 .. Len(stream[link]) :
         stream' = [stream EXCEPT ![link] = SubSeq(@, 1, kept)]
    /\ UNCHANGED <<sql, cmd, memory, process, exec, opened, hub, store, ghosts>>

-----------------------------------------------------------------------------
(* sendSnapshot                                                             *)

(* readJobs, and the hash cache overwritten with what it returned.          *)
SnapRead(p) ==
    /\ snap[p].pc = "start"
    /\ snap' = [snap EXCEPT ![p] = [pc |-> "read", jobs |-> ReadJobs]]
    /\ cache' = Hashes
    /\ blind' = {}
    /\ UNCHANGED <<sql, cmd, lastFp, pending, polling, lock, pollFp, exec, wire, hub, store, gone, applied>>

(* One message per chunk; the last one, alone when there are no jobs, says  *)
(* that the snapshot is complete.                                           *)
Chunk(blobs, more) == [kind |-> "chunk", blobs |-> blobs, more |-> more]
Chunks(q) == IF q = <<>> THEN <<Chunk({}, FALSE)>>
             ELSE [i \in DOMAIN q |-> Chunk({q[i]}, i < Len(q))]

(* What the snapshot was taken for goes on: polling of the instance after a *)
(* reconnect, or the end of the poll that saw a job vanish.                 *)
SnapDone(p) ==
    /\ snap' = [snap EXCEPT ![p] = [pc |-> "idle", jobs |-> {}]]
    /\ polling' = (polling \/ p # "poll")
    /\ lock' = IF p = "poll" THEN "free" ELSE lock
    /\ pollFp' = IF p = "poll" THEN None ELSE pollFp

(* readJobsFingerprint, and the chunks in one go.                           *)
SnapSend(p) ==
    /\ snap[p].pc = "read"
    /\ lastFp' = Fingerprint
    /\ \E q \in Orders(snap[p].jobs) : Emit(Chunks(q))
    /\ SnapDone(p)
    /\ UNCHANGED <<sql, cmd, cache, pending, exec, link, opened, hub, store, ghosts>>

(* One of the two queries fails.                                            *)
SnapFail(p) ==
    /\ snap[p].pc # "idle"
    /\ SnapDone(p)
    /\ UNCHANGED <<sql, cmd, memory, exec, wire, hub, store, ghosts>>

-----------------------------------------------------------------------------
(* pollDefinitions, in #exclusive                                           *)

MayPoll == lock = "free" /\ (polling \/ exec.pc = "repoll")
Polled  == exec' = IF exec.pc = "repoll" THEN NoCommand ELSE exec

(* Nothing has moved since the last fingerprint.                            *)
PollSkip ==
    /\ MayPoll
    /\ lastFp = Fingerprint
    /\ exec.pc = "repoll"
    /\ Polled
    /\ UNCHANGED <<sql, cmd, memory, process, wire, hub, store, ghosts>>

PollStart ==
    /\ MayPoll
    /\ lastFp # Fingerprint
    /\ lock' = "poll"
    /\ pollFp' = Fingerprint
    /\ Polled
    /\ UNCHANGED <<sql, cmd, memory, polling, snap, wire, hub, store, ghosts>>

Delta(b) == [kind |-> "delta", blob |-> b, cmd |-> pending[b.job]]

Changed  == {b \in ReadJobs : cache[b.job] # b.def}
Vanished == {j \in Jobs : cache[j] # None /\ msdb[j] = None}

(* readJobs and the loop over its result, which awaits nothing: a delta for *)
(* every job whose hash differs, the cache moving along only with those the *)
(* session took.  A job that vanished calls for a snapshot.                 *)
PollRead ==
    /\ lock = "poll"
    /\ snap["poll"].pc = "idle"
    /\ \E q \in Orders(Changed) : Emit([i \in DOMAIN q |-> Delta(q[i])])
    /\ LET sent == IF link = None THEN {} ELSE {b.job : b \in Changed}
       IN  /\ cache' = [j \in Jobs |-> IF j \in sent THEN msdb[j].def ELSE cache[j]]
           /\ pending' = [j \in Jobs |-> IF j \in sent THEN None ELSE pending[j]]
    /\ \/ /\ Vanished # {}
          /\ snap' = [snap EXCEPT !["poll"].pc = "start"]
          /\ UNCHANGED <<lastFp, lock, pollFp>>
       \/ /\ Vanished = {}
          /\ lastFp' = pollFp
          /\ lock' = "free"
          /\ pollFp' = None
          /\ snap' = snap
    /\ blind' = IF link # None /\ Vanished = {} THEN {}
                ELSE IF link = None /\ Changed # {} THEN blind \cup {"refused"} ELSE blind
    /\ UNCHANGED <<sql, cmd, polling, exec, link, opened, hub, store, gone, applied>>

(* readJobs fails: the next poll starts from the same fingerprint.          *)
PollFail ==
    /\ lock = "poll"
    /\ snap["poll"].pc = "idle"
    /\ lock' = "free"
    /\ pollFp' = None
    /\ UNCHANGED <<sql, cmd, memory, polling, snap, exec, wire, hub, store, ghosts>>

-----------------------------------------------------------------------------
(* Commands: apply, in #exclusive                                           *)

(* The hash a change is based on: the one the dashboard holds, unless the   *)
(* operator overwrites deliberately, when any is accepted and none is "".   *)
BaseHash(j, allow) == {jobs[j].def} \cup IF allow THEN {None} ELSE {}

(* An operator edits, toggles or deletes a job as the dashboard shows it.   *)
Issue(c, j, kind, d, allow) ==
    /\ cmd[c] = None
    /\ jobs[j] # None
    /\ kind = "delete" => d = jobs[j].def
    /\ \E base \in BaseHash(j, allow) :
         cmd' = [cmd EXCEPT ![c] = [job |-> j, kind |-> kind, def |-> d, base |-> base,
                                    force |-> allow /\ kind = "upsert", todo |-> TRUE]]
    /\ UNCHANGED <<sql, memory, process, exec, wire, hub, store, ghosts>>

(* An operator creates one: msdb will choose its uuid.                      *)
IssueNew(c, d) ==
    /\ cmd[c] = None
    /\ cmd' = [cmd EXCEPT ![c] = [job |-> None, kind |-> "upsert", def |-> d, base |-> None,
                                  force |-> FALSE, todo |-> TRUE]]
    /\ UNCHANGED <<sql, memory, process, exec, wire, hub, store, ghosts>>

(* The command has arrived and its turn in both queues has come.            *)
CmdStart(c) ==
    /\ cmd[c] # None /\ cmd[c].todo
    /\ exec.pc = "idle" /\ lock = "free" /\ link # None
    /\ cmd' = [cmd EXCEPT ![c].todo = FALSE]
    /\ exec' = [pc |-> "check", cmd |-> c, job |-> cmd[c].job]
    /\ lock' = "command"
    /\ UNCHANGED <<sql, memory, polling, pollFp, snap, wire, hub, store, ghosts>>

(* noteAppliedCommand: entries past their time are swept on the way.        *)
(* Mutant: the attribution is noted for any outcome that carries a job.     *)
Noted(j) ==
    \E swept \in SUBSET (Jobs \ {j}) :
      pending' = [k \in Jobs |-> IF k = j THEN exec.cmd
                                 ELSE IF k \in swept THEN None ELSE pending[k]]
NoteAnyResult(ok, blobs) == IF blobs # {} THEN Noted(exec.job) ELSE pending' = pending
NoteApplied(ok, blobs) == IF ok /\ blobs # {} THEN Noted(exec.job) ELSE pending' = pending

Result(ok, blobs) == [kind |-> "result", cmd |-> exec.cmd, ok |-> ok, blobs |-> blobs]

(* handleCommand returns: the attribution is noted, the lock released, the  *)
(* result sent if there is a session, and a poll asked for.                 *)
Finish(ok, blobs) ==
    /\ NoteApplied(ok, blobs)
    /\ Emit(<<Result(ok, blobs)>>)
    /\ exec' = [exec EXCEPT !.pc = "repoll"]
    /\ lock' = "free"
    /\ UNCHANGED <<sql, cmd, cache, lastFp, polling, pollFp, snap, link, opened, hub, store, ghosts>>

Order  == cmd[exec.cmd]
Exists == exec.job # None /\ msdb[exec.job] # None
ReadJobBlob == IF Exists THEN {Blob(exec.job)} ELSE {}

(* checkConflict: an empty base hash means there is nothing to check.       *)
MayProceed == \/ Order.base = None
              \/ Exists /\ (Order.force \/ msdb[exec.job].def = Order.base)

CheckPassed ==
    /\ exec.pc = "check"
    /\ MayProceed
    /\ exec' = [exec EXCEPT !.pc = "write"]
    /\ UNCHANGED <<sql, cmd, memory, process, wire, hub, store, ghosts>>

(* The job is gone, or it has changed: refused, with its live state.        *)
CheckRefused ==
    /\ exec.pc = "check"
    /\ ~MayProceed
    /\ Finish(FALSE, ReadJobBlob)

(* The stored procedures do it; an upsert in one transaction.               *)
CmdDone(j) ==
    /\ applied' = applied \cup {<<exec.cmd, j>>}
    /\ exec' = [exec EXCEPT !.pc = "read", !.job = j]
    /\ UNCHANGED <<cmd, memory, process, wire, hub, store>>

(* An upsert replaces the definition, whatever it is by now; a toggle keeps *)
(* what it does not touch.                                                  *)
CmdUpdate ==
    /\ exec.pc = "write" /\ Order.kind # "delete" /\ Exists
    /\ \E d \in Defs :
         /\ Order.kind = "upsert" \/ msdb[exec.job].def = Order.base => d = Order.def
         /\ Write(exec.job, d, exec.cmd)
    /\ CmdDone(exec.job)

(* An upsert of a job that does not exist: sp_add_job allocates a uuid.     *)
CmdAdd ==
    /\ exec.pc = "write" /\ Order.kind = "upsert" /\ ~Exists
    /\ \E k \in Jobs \ {exec.job} :
         /\ msdb[k] = None
         /\ Write(k, Order.def, exec.cmd)
         /\ CmdDone(k)

CmdDelete ==
    /\ exec.pc = "write" /\ Order.kind = "delete" /\ Exists
    /\ Drop(exec.job)
    /\ CmdDone(exec.job)

(* ... or refuse: a result with no job.                                     *)
CmdRefused == exec.pc = "write" /\ Finish(FALSE, {})

(* readJobBlob after the write; a deletion has nothing to read.             *)
CmdRead ==
    /\ exec.pc = "read"
    /\ Finish(TRUE, IF Order.kind = "delete" THEN {} ELSE ReadJobBlob)

(* A query throws: no result, and no poll asked for; the chain swallows it. *)
CmdThrows ==
    /\ exec.pc \in {"check", "write", "read"}
    /\ exec' = NoCommand
    /\ lock' = "free"
    /\ UNCHANGED <<sql, cmd, memory, polling, pollFp, snap, wire, hub, store, ghosts>>

-----------------------------------------------------------------------------
(* The hub: one message at a time per session, sessions side by side        *)

Record(b, origin, c) == [blob |-> b, origin |-> origin, cmd |-> c]

(* What a chunk is added to.  An accumulation past its time is swept away   *)
(* first, by this very chunk.  Mutant: every chunk is the whole snapshot.   *)
AnyChunk(m) == TRUE
Complete(m) == ~m.more

HubChunk(s) ==
    /\ stream[s] # <<>> /\ Head(stream[s]).kind = "chunk"
    /\ LET m == Head(stream[s]) IN
       \E swept \in BOOLEAN :
         LET all == (IF swept THEN {} ELSE acc[s]) \cup m.blobs
         IN  /\ swept => acc[s] # {} /\ stalled < Stalls
             /\ stalled' = IF swept THEN stalled + 1 ELSE stalled
             /\ IF Complete(m)
                THEN /\ acc' = [acc EXCEPT ![s] = {}]
                     /\ work' = [work EXCEPT ![s] = [recs |-> {Record(b, "local", None) : b \in all},
                                                     seen |-> {b.job : b \in all}, new |-> None]]
                ELSE /\ acc' = [acc EXCEPT ![s] = all]
                     /\ work' = work

(* A delta the worker attributes to a command is a remote change.           *)
HubDelta(s) ==
    /\ stream[s] # <<>> /\ Head(stream[s]).kind = "delta"
    /\ LET m == Head(stream[s]) IN
         work' = [work EXCEPT ![s].recs =
                    {Record(m.blob, IF m.cmd = None THEN "local" ELSE "remote", m.cmd)}]
    /\ UNCHANGED <<acc, stalled>>

(* commandResult: the job it carries, if any, is recorded.                  *)
HubResult(s) ==
    /\ stream[s] # <<>> /\ Head(stream[s]).kind = "result"
    /\ LET m == Head(stream[s]) IN
         work' = [work EXCEPT ![s].recs =
                    {Record(b, IF m.ok THEN "remote" ELSE "local",
                            IF m.ok THEN m.cmd ELSE None) : b \in m.blobs}]
    /\ UNCHANGED <<acc, stalled>>

HubReceive(s) ==
    /\ work[s] = Nothing
    /\ HubChunk(s) \/ HubDelta(s) \/ HubResult(s)
    /\ stream' = [stream EXCEPT ![s] = Tail(@)]
    /\ UNCHANGED <<sql, cmd, memory, process, exec, link, opened, store, ghosts>>

(* recordJobVersion, the part after the SELECT: idempotent by hash.         *)
Unchanged(j, b) == jobs[j] # None /\ jobs[j].def = b.def

(* Mutant: a job seen for the first time is flagged as drift.               *)
OriginAsTold(j, r) == r.origin
Origin(j, r) == IF jobs[j] = None THEN "initial" ELSE r.origin

Store(r) ==
    LET j == r.blob.job IN
    IF Unchanged(j, r.blob)
    THEN /\ jobs' = [jobs EXCEPT ![j].deleted = FALSE]
         /\ versions' = versions
    ELSE /\ jobs' = [jobs EXCEPT ![j] = [def |-> r.blob.def, no |-> Len(versions[j]) + 1,
                                         drift |-> Origin(j, r) = "local", deleted |-> FALSE]]
         /\ versions' = [versions EXCEPT ![j] =
                           Append(@, [def |-> r.blob.def, by |-> r.blob.by,
                                      origin |-> Origin(j, r), cmd |-> r.cmd])]

(* The row exists: SELECT ... FOR UPDATE holds it to the end.               *)
HubRecord(s) ==
    /\ work[s].new = None
    /\ \E r \in work[s].recs :
         /\ jobs[r.blob.job] # None
         /\ Store(r)
         /\ work' = [work EXCEPT ![s].recs = @ \ {r}]
    /\ UNCHANGED <<sql, cmd, memory, process, exec, wire, acc, stalled, ghosts>>

(* There is no row to lock: another session may insert it first.            *)
HubSelectNone(s) ==
    /\ work[s].new = None
    /\ \E r \in work[s].recs :
         /\ jobs[r.blob.job] = None
         /\ work' = [work EXCEPT ![s].new = r, ![s].recs = @ \ {r}]
    /\ UNCHANGED <<sql, cmd, memory, process, exec, wire, acc, stalled, store, ghosts>>

(* The INSERT; the unique index fails the whole message if somebody did.    *)
(* Mutant: no such index.                                                   *)
HubInsertAnyway(s) ==
    /\ work[s].new # None
    /\ work' = [work EXCEPT ![s].new = None]
    /\ LET r == work[s].new  j == r.blob.job  v == [def |-> r.blob.def, by |-> r.blob.by,
                                                   origin |-> "initial", cmd |-> r.cmd]
       IN  /\ versions' = [versions EXCEPT ![j] = Append(@, v)]
           /\ jobs' = [jobs EXCEPT ![j] = [def |-> v.def, no |-> 1, drift |-> FALSE, deleted |-> FALSE]]
    /\ UNCHANGED <<sql, cmd, memory, process, exec, wire, acc, stalled, ghosts>>
HubInsert(s) ==
    /\ work[s].new # None
    /\ IF jobs[work[s].new.blob.job] = None
       THEN /\ Store(work[s].new)
            /\ work' = [work EXCEPT ![s].new = None]
       ELSE /\ work' = [work EXCEPT ![s] = Nothing]
            /\ UNCHANGED store
    /\ UNCHANGED <<sql, cmd, memory, process, exec, wire, acc, stalled, ghosts>>

(* markJobsMissingFromSnapshot, after the last job of a snapshot.           *)
HubReconcile(s) ==
    /\ work[s].recs = {} /\ work[s].new = None /\ work[s].seen # None
    /\ jobs' = [j \in Jobs |-> IF jobs[j] # None /\ j \notin work[s].seen
                               THEN [jobs[j] EXCEPT !.deleted = TRUE] ELSE jobs[j]]
    /\ work' = [work EXCEPT ![s] = Nothing]
    /\ UNCHANGED <<sql, cmd, memory, process, exec, wire, acc, stalled, versions, ghosts>>

(* acknowledgeDrift.                                                        *)
AcknowledgeDrift(j) ==
    /\ jobs[j] # None
    /\ jobs[j].drift
    /\ jobs' = [jobs EXCEPT ![j].drift = FALSE]
    /\ UNCHANGED <<sql, cmd, memory, process, exec, wire, hub, versions, ghosts>>

-----------------------------------------------------------------------------
SqlHost == \E j \in Jobs : DbaDrop(j) \/ \E d \in Defs : DbaWrite(j, d)

Snapshot == \E p \in Snaps : SnapRead(p) \/ SnapSend(p) \/ SnapFail(p)

Command ==
    \/ \E c \in Commands : CmdStart(c)
    \/ CheckPassed
    \/ CheckRefused
    \/ CmdUpdate
    \/ CmdAdd
    \/ CmdDelete
    \/ CmdRefused
    \/ CmdRead
    \/ CmdThrows

Operator ==
    \/ \E j \in Jobs : AcknowledgeDrift(j)
    \/ \E c \in Commands, d \in Defs :
         \/ IssueNew(c, d)
         \/ \E j \in Jobs, kind \in Kinds, allow \in BOOLEAN :
              Issue(c, j, kind, d, allow)

HubStep(s) ==
    \/ HubReceive(s)
    \/ HubRecord(s)
    \/ HubSelectNone(s)
    \/ HubInsert(s)
    \/ HubReconcile(s)

Next ==
    \/ SqlHost
    \/ \E s \in Sessions : Connect(s)
    \/ Disconnect
    \/ Snapshot
    \/ PollSkip
    \/ PollStart
    \/ PollRead
    \/ PollFail
    \/ Command
    \/ Operator
    \/ \E s \in Sessions : HubStep(s)

Spec == Init /\ [][Next]_vars

-----------------------------------------------------------------------------
(* Properties                                                               *)

Message == [kind : {"chunk"}, blobs : SUBSET Blobs, more : BOOLEAN]
           \cup [kind : {"delta"}, blob : Blobs, cmd : Commands \cup {None}]
           \cup [kind : {"result"}, cmd : Commands, ok : BOOLEAN, blobs : SUBSET Blobs]
Item    == [blob : Blobs, origin : {"local", "remote"}, cmd : Commands \cup {None}]
Version == [def : Defs, by : Commands \cup {"dba"}, origin : {"initial", "local", "remote"},
            cmd : Commands \cup {None}]

HostOK ==
    /\ msdb \in [Jobs -> HostRow \cup {None}]
    /\ edits \in Nat
    /\ cmd \in [Commands -> CmdRow \cup {None}]
    /\ blind \subseteq {"moved", "refused"} /\ gone \subseteq Jobs /\ applied \subseteq Commands \X Jobs
AgentOK ==
    /\ cache \in [Jobs -> Defs \cup {None}]
    /\ lastFp \in Fps \cup {None} /\ pollFp \in Fps \cup {None}
    /\ pending \in [Jobs -> Commands \cup {None}]
    /\ polling \in BOOLEAN
    /\ lock \in {"free", "poll", "command"}
    /\ snap \in [Snaps -> [pc : {"idle", "start", "read"}, jobs : SUBSET Blobs]]
    /\ exec \in [pc : {"idle", "check", "write", "read", "repoll"}, cmd : Commands \cup {None},
                job : Jobs \cup {None}]
    /\ exec.pc # "idle" => exec.cmd \in Commands /\ cmd[exec.cmd] # None
WireOK ==
    /\ link \in Sessions \cup {None} /\ opened \subseteq Sessions
    /\ stream \in [Sessions -> Seq(Message)]
StoreOK ==
    /\ acc \in [Sessions -> SUBSET Blobs]
    /\ work \in [Sessions -> [recs : SUBSET Item, seen : (SUBSET Jobs) \cup {None},
                              new : Item \cup {None}]]
    /\ jobs \in [Jobs -> JobRow \cup {None}]
    /\ versions \in [Jobs -> Seq(Version)]
    /\ stalled \in Nat

(* Every variable keeps its shape, and whoever is inside #exclusive is the  *)
(* process whose steps need it.                                             *)
LockOK ==
    /\ lock = "command" <=> exec.pc \in {"check", "write", "read"}
    /\ lock = "poll" <=> pollFp # None
    /\ snap["poll"].pc # "idle" => lock = "poll"
TypeOK == HostOK /\ AgentOK /\ WireOK /\ StoreOK /\ LockOK

(* "A half-received snapshot can never soft-delete jobs it simply hasn't    *)
(* seen yet": a job that was in msdb all the time is never shown deleted.   *)
NoPhantomDelete == \A j \in Jobs : jobs[j] # None /\ jobs[j].deleted => j \in gone

(* The timeline of a job: numbered without holes, ending in what the jobs   *)
(* table shows, no version a repetition of the one before, whatever         *)
(* sessions write it at the same time.                                      *)
Timeline ==
    \A j \in Jobs :
      /\ jobs[j] = None <=> versions[j] = <<>>
      /\ jobs[j] # None => /\ jobs[j].no = Len(versions[j])
                           /\ jobs[j].def = versions[j][Len(versions[j])].def
      /\ \A i \in 1 .. Len(versions[j]) - 1 : versions[j][i].def # versions[j][i + 1].def

(* A version is "remote" only with a command behind it that changed this    *)
(* very job in msdb; a refused or failed command never lends its name to    *)
(* what is on the host, nor one job's command to another job.               *)
RemoteIsBacked ==
    \A j \in Jobs : \A i \in 1 .. Len(versions[j]) :
      versions[j][i].origin = "remote" => <<versions[j][i].cmd, j>> \in applied

(* The fingerprint may be trusted: when it tells the worker that nothing    *)
(* moved, whatever else is under way, no job was edited or created behind   *)
(* the cache's back -- unless msdb moved between the two reads of some      *)
(* snapshot, or a poll ran without a session, and no later read has made up *)
(* for it.  (A job created and dropped around one poll can hide.)           *)
Agrees == \A j \in Live : cache[j] = msdb[j].def
FingerprintIsSound == lastFp = Fingerprint /\ blind = {} => Agrees

(* What the dashboard shows of the jobs keeps the promise of a timeline.    *)
Promise == INSTANCE TimelinePromise WITH
    Versions <- Version,
    changes  <- applied,
    absent   <- gone,
    timeline <- versions,
    drift    <- [j \in Jobs |-> jobs[j] # None /\ jobs[j].drift],
    deleted  <- [j \in Jobs |-> jobs[j] # None /\ jobs[j].deleted]
KeepsTimeline == Promise!Spec

-----------------------------------------------------------------------------
(* What the repository says of edits, and the code does not keep to.        *)

(* "Drift is expected and surfaced, never silently overwritten."            *)
NeverSilentlyOverwritten ==
    [][exec.pc = "write" /\ exec'.pc = "read" /\ Exists /\ Order.kind = "upsert" /\ ~Order.force
         => msdb[exec.job].def = Order.base]_vars
=============================================================================
