-------------------------- MODULE CommandPipeline --------------------------
(***************************************************************************)
(* The life of a command, from the dashboard to msdb and back: the REST    *)
(* handlers of the control plane (create, approve, reject), the hub that   *)
(* dispatches over the worker's stream, the periodic expiry, the worker's  *)
(* gates and its idempotency record, and the result on its way home.       *)
(*                                                                         *)
(* One worker is modelled: every statement of the code is scoped to the    *)
(* command's own worker.  A database statement is one atomic step; what    *)
(* happens between two statements of one handler is where other handlers,  *)
(* crashes and the clock get in.                                           *)
(***************************************************************************)
EXTENDS Integers, Sequences, FiniteSets

CONSTANTS
    Commands,      \* command ids
    Users,         \* issuers and approvers
    Requests,      \* concurrent REST handlers
    Sessions,      \* worker sessions, each opened at most once
    None,          \* "null", in a row, a registry or a memo
    TTL,           \* commandTtlSeconds
    MaxAge,        \* MAX_COMMAND_AGE_MS
    MaxSkew,       \* MAX_COMMAND_CLOCK_SKEW_MS
    Retention,     \* APPLIED_COMMAND_RETENTION_MS
    Skew,          \* the worker's clock minus the control plane's
    MaxTime,       \* bound: the clock stops here
    MaxCrashes     \* bound: crashes of either process

(* What the comment on APPLIED_COMMAND_RETENTION_MS claims of the numbers.  *)
ASSUME TimingAssumption ==
    /\ {TTL, MaxAge, MaxSkew, Retention, MaxTime, MaxCrashes} \subseteq Nat
    /\ Skew \in Int
    /\ TTL + MaxAge - Skew <= Retention
ASSUME NamesAssumption ==
    /\ None \notin Commands \cup Users \cup Sessions
    /\ None \notin [ok : BOOLEAN, at : Int]
    /\ Requests \cap Sessions = {}
    /\ IsFiniteSet(Commands)

VARIABLES
    row,        \* the commands table
    actor,      \* where each REST handler and hub dispatch loop has got to
    todo,       \* ids a hub dispatch loop has listed and not yet dispatched
    registry,   \* the session registered for the worker, or None
    hub,        \* how far the hub is with each session
    ended,      \* sessions whose stream has ended under the hub
    toServer,   \* results written by the worker, per session
    toWorker,   \* what the hub wrote on the worker's current stream
    link,       \* worker: [cur, ready, key] of its ControlPlaneSession
    wq,         \* worker: the command queue, which outlives a session
    exec,       \* worker: the command inside handleCommand
    memo,       \* worker: applied_commands, on disk
    effects,    \* history: how often msdb was changed for each command
    gaps,       \* history: effects left without an idempotency record
    now,        \* the control plane's clock
    crashes     \* bound bookkeeping

server == <<row, actor, todo, registry, hub, ended>>
wires  == <<toServer, toWorker>>
worker == <<link, wq, exec, memo>>
ghosts == <<effects, gaps>>
env    == <<now, crashes>>
vars   == <<server, wires, worker, ghosts, env>>

Actors == Requests \cup Sessions

Open     == {"pending_approval", "approved", "dispatched"}
Terminal == {"succeeded", "failed", "expired", "rejected"}

Steps == {"idle", "approve", "reject", "dispatch", "send", "mark", "expire"}
Idle  == [pc |-> "idle", cmd |-> None, user |-> None]

NoRow == [st |-> "none", gated |-> FALSE, issuer |-> None, approver |-> None,
          created |-> 0, completed |-> FALSE]

NewRow(u, gated) ==
    [st |-> IF gated THEN "pending_approval" ELSE "approved", gated |-> gated,
     issuer |-> u, approver |-> None, created |-> now, completed |-> FALSE]

Overdue(c)   == row[c].created + TTL < now
WorkerClock  == now + Skew

(* isCommandFresh, by the worker's clock.  Mutant: the age is not looked at.*)
FreshIfNotAhead(issued) == WorkerClock - issued >= -MaxSkew
Fresh(issued) == WorkerClock - issued \in -MaxSkew .. MaxAge

(* The states and deadline expireStale selects.  Mutant: a dispatched row   *)
(* is left to its worker.                                                   *)
StaleInQueue(c) == row[c].st \in {"pending_approval", "approved"} /\ Overdue(c)
Stale(c) == row[c].st \in Open /\ Overdue(c)

(* Two people.  Mutant: the approver is not compared with the issuer.       *)
AnyoneMayApprove(c, u) == TRUE
MayApprove(c, u) == row[c].issuer # u

(* The idempotency gate.  Mutant: a record read as a success.               *)
Recorded(c) == memo[c] # None
AlwaysGreen(c) == TRUE
RecordedOutcome(c) == memo[c].ok

(* Records old enough to drop.  Mutant: the replay window alone, not the    *)
(* TTL before it, is allowed for.                                           *)
PrunableAfterMaxAge(c) == memo[c] # None /\ memo[c].at < WorkerClock - MaxAge
Prunable(c) == memo[c] # None /\ memo[c].at < WorkerClock - Retention

Init ==
    /\ row = [c \in Commands |-> NoRow]
    /\ actor = [a \in Actors |-> Idle]
    /\ todo = [s \in Sessions |-> <<>>]
    /\ registry = None
    /\ hub = [s \in Sessions |-> "unopened"]
    /\ ended = {}
    /\ toServer = [s \in Sessions |-> <<>>]
    /\ toWorker = <<>>
    /\ link = [cur |-> None, ready |-> FALSE, key |-> FALSE]
    /\ wq = <<>>
    /\ exec = [pc |-> "idle", cmd |-> None]
    /\ memo = [c \in Commands |-> None]
    /\ effects = [c \in Commands |-> 0]
    /\ gaps = [c \in Commands |-> 0]
    /\ now = 0
    /\ crashes = 0

-----------------------------------------------------------------------------
(* Control plane: REST handlers                                            *)

Go(a, pc, c, u) == actor' = [actor EXCEPT ![a] = [pc |-> pc, cmd |-> c, user |-> u]]
Finish(a)       == actor' = [actor EXCEPT ![a] = Idle]

(* The UPDATEs.  None of them names the state it expects to find.           *)
SetState(c, st)      == row' = [row EXCEPT ![c].st = st]
SetApproved(c, u)    == row' = [row EXCEPT ![c].st = "approved", ![c].approver = u]
SetCompleted(c, st)  == row' = [row EXCEPT ![c].st = st, ![c].completed = TRUE]

(* create: the INSERT, and dispatch at once when nobody has to approve.     *)
Create(a, c, u, gated) ==
    /\ actor[a] = Idle
    /\ row[c].st = "none"
    /\ row' = [row EXCEPT ![c] = NewRow(u, gated)]
    /\ IF gated THEN UNCHANGED actor ELSE Go(a, "dispatch", c, u)
    /\ UNCHANGED <<todo, registry, hub, ended, wires, worker, ghosts, env>>

(* approve: the SELECT and the checks made on what it returned.             *)
ApproveRead(a, c, u) ==
    /\ actor[a] = Idle
    /\ row[c].st = "pending_approval"
    /\ MayApprove(c, u)
    /\ Go(a, IF Overdue(c) THEN "expire" ELSE "approve", c, u)
    /\ UNCHANGED <<row, todo, registry, hub, ended, wires, worker, ghosts, env>>

(* Mutant: the handler ends without calling dispatch.                       *)
ApproveAndReturn(a) ==
    /\ actor[a].pc = "approve"
    /\ SetApproved(actor[a].cmd, actor[a].user)
    /\ Finish(a)
    /\ UNCHANGED <<todo, registry, hub, ended, wires, worker, ghosts, env>>

(* ... and its UPDATE, which does not look at the state again.              *)
ApproveWrite(a) ==
    /\ actor[a].pc = "approve"
    /\ SetApproved(actor[a].cmd, actor[a].user)
    /\ Go(a, "dispatch", actor[a].cmd, actor[a].user)
    /\ UNCHANGED <<todo, registry, hub, ended, wires, worker, ghosts, env>>

RejectRead(a, c, u) ==
    /\ actor[a] = Idle
    /\ row[c].st = "pending_approval"
    /\ Go(a, "reject", c, u)
    /\ UNCHANGED <<row, todo, registry, hub, ended, wires, worker, ghosts, env>>

RejectWrite(a) ==
    /\ actor[a].pc = "reject"
    /\ SetCompleted(actor[a].cmd, "rejected")
    /\ Finish(a)
    /\ UNCHANGED <<todo, registry, hub, ended, wires, worker, ghosts, env>>

-----------------------------------------------------------------------------
(* Control plane: dispatch, called by a REST handler or by a hub session    *)

(* The SELECT, and the early return when the row is not approved.           *)
DispatchRead(a) ==
    LET c == actor[a].cmd IN
    /\ actor[a].pc = "dispatch"
    /\ IF row[c].st = "approved" THEN Go(a, "send", c, actor[a].user) ELSE Finish(a)
    /\ UNCHANGED <<row, todo, registry, hub, ended, wires, worker, ghosts, env>>

(* From the answer to the write on the stream nothing is awaited: the TTL,  *)
(* the registry, issuedAt and the send belong to one step.  A stream the    *)
(* worker has left swallows the message.                                    *)
DispatchSend(a) ==
    LET c == actor[a].cmd IN
    /\ actor[a].pc = "send"
    /\ \/ /\ Overdue(c)
          /\ Go(a, "expire", c, actor[a].user)
          /\ UNCHANGED toWorker
       \/ /\ ~Overdue(c)
          /\ registry = None
          /\ Finish(a)
          /\ UNCHANGED toWorker
       \/ /\ ~Overdue(c)
          /\ registry # None
          /\ Go(a, "mark", c, actor[a].user)
          /\ toWorker' = IF registry = link.cur
                         THEN Append(toWorker, [cmd |-> c, issued |-> now])
                         ELSE toWorker
    /\ UNCHANGED <<row, todo, registry, hub, ended, toServer, worker, ghosts, env>>

(* The UPDATE after the send; it sets neither completedAt nor looks at it.  *)
DispatchMark(a) ==
    /\ actor[a].pc = "mark"
    /\ SetState(actor[a].cmd, "dispatched")
    /\ Finish(a)
    /\ UNCHANGED <<todo, registry, hub, ended, wires, worker, ghosts, env>>

(* #markExpired, reached from approve and from dispatch.                    *)
MarkExpired(a) ==
    /\ actor[a].pc = "expire"
    /\ SetCompleted(actor[a].cmd, "expired")
    /\ Finish(a)
    /\ UNCHANGED <<todo, registry, hub, ended, wires, worker, ghosts, env>>

(* The expiry timer: one UPDATE over every open row past its TTL.           *)
ExpireStale ==
    /\ \E c \in Commands : Stale(c)
    /\ row' = [c \in Commands |->
                 IF Stale(c)
                 THEN [row[c] EXCEPT !.st = "expired", !.completed = TRUE]
                 ELSE row[c]]
    /\ UNCHANGED <<actor, todo, registry, hub, ended, wires, worker, ghosts, env>>

-----------------------------------------------------------------------------
(* Control plane: the hub's end of a session.  Its handlers are serialised  *)
(* by a promise chain, so results wait while Hello is being handled.        *)

(* Hello, up to registry.register, which ends the session it supersedes.    *)
HubHello(s) ==
    /\ hub[s] = "open"
    /\ hub' = [hub EXCEPT ![s] = "registered"]
    /\ registry' = s
    /\ ended' = ended \cup ({registry} \ {None, s})
    /\ UNCHANGED <<row, actor, todo, wires, worker, ghosts, env>>

(* The audit row has been written: HelloAck goes out, with the signing key. *)
HubAck(s) ==
    /\ hub[s] = "registered"
    /\ hub' = [hub EXCEPT ![s] = "acked"]
    /\ toWorker' = IF link.cur = s THEN Append(toWorker, [cmd |-> None, issued |-> now])
                   ELSE toWorker
    /\ UNCHANGED <<row, actor, todo, registry, ended, toServer, worker, ghosts, env>>

(* dispatchPendingFor: the SELECT of the approved ids, in some issue order. *)
HubList(s) ==
    /\ hub[s] = "acked"
    /\ hub' = [hub EXCEPT ![s] = "listed"]
    /\ LET pending == {c \in Commands : row[c].st = "approved"}
       IN \E order \in [1 .. Cardinality(pending) -> pending] :
            /\ \A i, j \in DOMAIN order :
                 i < j => order[i] # order[j] /\ row[order[i]].created <= row[order[j]].created
            /\ todo' = [todo EXCEPT ![s] = order]
    /\ UNCHANGED <<row, actor, registry, ended, wires, worker, ghosts, env>>

(* ... and its loop: the next id, or the end of the Hello handler.          *)
HubNext(s) ==
    /\ hub[s] = "listed"
    /\ actor[s] = Idle
    /\ IF todo[s] = <<>>
       THEN hub' = [hub EXCEPT ![s] = "ready"] /\ UNCHANGED <<actor, todo>>
       ELSE /\ Go(s, "dispatch", Head(todo[s]), None)
            /\ todo' = [todo EXCEPT ![s] = Tail(@)]
            /\ UNCHANGED hub
    /\ UNCHANGED <<row, registry, ended, wires, worker, ghosts, env>>

(* commandResult: recordResult overwrites whatever state the row is in.     *)
HubResult(s) ==
    /\ hub[s] = "ready"
    /\ toServer[s] # <<>>
    /\ SetCompleted(Head(toServer[s]).cmd,
                    IF Head(toServer[s]).ok THEN "succeeded" ELSE "failed")
    /\ toServer' = [toServer EXCEPT ![s] = Tail(@)]
    /\ UNCHANGED <<actor, todo, registry, hub, ended, toWorker, worker, ghosts, env>>

(* Teardown, queued behind every message of the session.                    *)
HubTeardown(s) ==
    /\ s \in ended
    /\ hub[s] = "ready"
    /\ toServer[s] = <<>>
    /\ hub' = [hub EXCEPT ![s] = "down"]
    /\ registry' = IF registry = s THEN None ELSE registry
    /\ UNCHANGED <<row, actor, todo, ended, wires, worker, ghosts, env>>

-----------------------------------------------------------------------------
(* Worker: the session                                                      *)

Connect(s) ==
    /\ link.cur = None
    /\ hub[s] = "unopened"
    /\ link' = [link EXCEPT !.cur = s]
    /\ hub' = [hub EXCEPT ![s] = "open"]
    /\ toWorker' = <<>>
    /\ UNCHANGED <<row, actor, todo, registry, ended, toServer, wq, exec, memo, ghosts, env>>

(* HelloAck brings the key and makes the session usable for sending; a      *)
(* command joins the queue whether or not HelloAck has been seen.           *)
WorkerReceive ==
    /\ link.cur # None
    /\ toWorker # <<>>
    /\ toWorker' = Tail(toWorker)
    /\ IF Head(toWorker).cmd = None
       THEN link' = [link EXCEPT !.ready = TRUE, !.key = TRUE] /\ UNCHANGED wq
       ELSE wq' = Append(wq, Head(toWorker)) /\ UNCHANGED link
    /\ UNCHANGED <<server, toServer, exec, memo, ghosts, env>>

(* The stream goes away under session s: what the hub had written and the   *)
(* worker has not read is lost, and so is the tail of what the worker had   *)
(* handed to the transport, Hello included.                                 *)
DropStream(s) ==
    /\ toWorker' = <<>>
    /\ ended' = ended \cup {s}
    /\ \E kept \in 0 .. Len(toServer[s]) :
         toServer' = [toServer EXCEPT ![s] = SubSeq(@, 1, kept)]
    /\ hub' \in IF hub[s] = "open" THEN {hub, [hub EXCEPT ![s] = "down"]} ELSE {hub}

(* The session is lost and will be dialled again; queue and key survive.    *)
WorkerDisconnect ==
    /\ link.cur # None
    /\ DropStream(link.cur)
    /\ link' = [link EXCEPT !.cur = None, !.ready = FALSE]
    /\ UNCHANGED <<row, actor, todo, registry, wq, exec, memo, ghosts, env>>

-----------------------------------------------------------------------------
(* Worker: the serialised command queue and handleCommand                   *)

(* session?.send: a result is dropped when there is no established session. *)
SendResult(c, ok) ==
    toServer' = IF link.ready
                THEN [toServer EXCEPT ![link.cur] = Append(@, [cmd |-> c, ok |-> ok])]
                ELSE toServer

(* A refusal before the idempotency gate: it leaves no record.              *)
Refuse ==
    /\ exec.pc = "idle"
    /\ wq # <<>>
    /\ SendResult(Head(wq).cmd, FALSE)
    /\ wq' = Tail(wq)
    /\ UNCHANGED <<server, toWorker, link, exec, memo, ghosts, env>>

(* Gates 1 to 3 passed: a command with a record is answered from it.        *)
Replay ==
    /\ exec.pc = "idle"
    /\ wq # <<>>
    /\ link.key /\ Fresh(Head(wq).issued)
    /\ Recorded(Head(wq).cmd)
    /\ SendResult(Head(wq).cmd, RecordedOutcome(Head(wq).cmd))
    /\ wq' = Tail(wq)
    /\ UNCHANGED <<server, toWorker, link, exec, memo, ghosts, env>>

(* ... and one without goes to msdb.                                        *)
StartApply ==
    /\ exec.pc = "idle"
    /\ wq # <<>>
    /\ link.key /\ Fresh(Head(wq).issued)
    /\ ~Recorded(Head(wq).cmd)
    /\ exec' = [pc |-> "applying", cmd |-> Head(wq).cmd]
    /\ wq' = Tail(wq)
    /\ UNCHANGED <<server, wires, link, memo, ghosts, env>>

(* msdb has made the change; the call has not returned yet.                 *)
Effect ==
    /\ exec.pc = "applying"
    /\ exec' = [exec EXCEPT !.pc = "applied"]
    /\ effects' = [effects EXCEPT ![exec.cmd] = @ + 1]
    /\ UNCHANGED <<server, wires, link, wq, memo, gaps, env>>

(* apply returned, or threw SqlApplyError: the outcome is recorded and sent *)
(* without anything awaited in between.  Mutant: only a success is recorded.*)
RecordSuccess(ok) ==
    /\ exec.pc \in IF ok THEN {"applied"} ELSE {"applying", "applied"}
    /\ memo' = [memo EXCEPT ![exec.cmd] = IF ok THEN [ok |-> ok, at |-> WorkerClock] ELSE @]
    /\ SendResult(exec.cmd, ok)
    /\ exec' = [pc |-> "idle", cmd |-> None]
    /\ UNCHANGED <<server, toWorker, link, wq, ghosts, env>>
Record(ok) ==
    /\ exec.pc \in IF ok THEN {"applied"} ELSE {"applying", "applied"}
    /\ memo' = [memo EXCEPT ![exec.cmd] = IF @ = None THEN [ok |-> ok, at |-> WorkerClock] ELSE @]
    /\ SendResult(exec.cmd, ok)
    /\ exec' = [pc |-> "idle", cmd |-> None]
    /\ UNCHANGED <<server, toWorker, link, wq, ghosts, env>>

Leaked == gaps' = IF exec.pc = "applied" THEN [gaps EXCEPT ![exec.cmd] = @ + 1] ELSE gaps

(* Any other error leaves handleCommand: no record and no result.           *)
Throw ==
    /\ exec.pc # "idle"
    /\ Leaked
    /\ exec' = [pc |-> "idle", cmd |-> None]
    /\ UNCHANGED <<server, wires, link, wq, memo, effects, env>>

(* pruneAppliedCommands, on a heartbeat.                                    *)
Prune ==
    /\ link.ready
    /\ \E c \in Commands : Prunable(c)
    /\ memo' = [c \in Commands |-> IF Prunable(c) THEN None ELSE memo[c]]
    /\ UNCHANGED <<server, wires, link, wq, exec, ghosts, env>>

-----------------------------------------------------------------------------
(* The environment                                                          *)

(* The worker's process dies: memory and stream go, the SQLite file stays.  *)
WorkerCrash ==
    /\ crashes < MaxCrashes
    /\ crashes' = crashes + 1
    /\ Leaked
    /\ IF link.cur = None THEN UNCHANGED <<wires, ended, hub>> ELSE DropStream(link.cur)
    /\ link' = [cur |-> None, ready |-> FALSE, key |-> FALSE]
    /\ wq' = <<>>
    /\ exec' = [pc |-> "idle", cmd |-> None]
    /\ UNCHANGED <<row, actor, todo, registry, memo, effects, now>>

(* The control plane's process dies: the database stays.                    *)
ControlPlaneCrash ==
    /\ crashes < MaxCrashes
    /\ crashes' = crashes + 1
    /\ actor' = [a \in Actors |-> Idle]
    /\ todo' = [s \in Sessions |-> <<>>]
    /\ registry' = None
    /\ hub' = [s \in Sessions |-> IF hub[s] = "unopened" THEN "unopened" ELSE "down"]
    /\ toServer' = [s \in Sessions |-> <<>>]
    /\ \E kept \in 0 .. Len(toWorker) : toWorker' = SubSeq(toWorker, 1, kept)
    /\ UNCHANGED <<row, ended, worker, ghosts, now>>

Tick ==
    /\ now < MaxTime
    /\ now' = now + 1
    /\ UNCHANGED <<server, wires, worker, ghosts, crashes>>

-----------------------------------------------------------------------------
Handler(a) ==
    \/ \E c \in Commands, u \in Users :
         \/ \E gated \in BOOLEAN : Create(a, c, u, gated)
         \/ ApproveRead(a, c, u)
         \/ RejectRead(a, c, u)

Finishing(a) ==
    \/ ApproveWrite(a)
    \/ RejectWrite(a)
    \/ DispatchRead(a)
    \/ DispatchSend(a)
    \/ DispatchMark(a)
    \/ MarkExpired(a)

HubStep(s) ==
    \/ HubHello(s)
    \/ HubAck(s)
    \/ HubList(s)
    \/ HubNext(s)
    \/ HubResult(s)
    \/ HubTeardown(s)

WorkerStep ==
    \/ \E s \in Sessions : Connect(s)
    \/ WorkerReceive
    \/ WorkerDisconnect
    \/ Refuse
    \/ Replay
    \/ StartApply
    \/ Effect
    \/ \E ok \in BOOLEAN : Record(ok)
    \/ Throw
    \/ Prune

Next ==
    \/ \E r \in Requests : Handler(r)
    \/ \E a \in Actors : Finishing(a)
    \/ \E s \in Sessions : HubStep(s)
    \/ ExpireStale
    \/ WorkerStep
    \/ WorkerCrash
    \/ ControlPlaneCrash
    \/ Tick

Spec == Init /\ [][Next]_vars

(* What the processes do on their own: a handler that started goes on, the  *)
(* hub handles what has arrived, the timer fires and the clock runs.        *)
Fairness ==
    /\ \A a \in Actors : WF_vars(Finishing(a))
    /\ \A s \in Sessions : WF_vars(HubStep(s))
    /\ WF_vars(ExpireStale)
    /\ WF_vars(Tick)

FairSpec == Spec /\ Fairness

-----------------------------------------------------------------------------
(* Properties                                                               *)

Rows == [st : {"none"} \cup Open \cup Terminal, gated : BOOLEAN,
         issuer : Users \cup {None}, approver : Users \cup {None},
         created : Nat, completed : BOOLEAN]
Places == [pc : Steps, cmd : Commands \cup {None}, user : Users \cup {None}]
Written == [cmd : Commands \cup {None}, issued : Nat]
Queued == [cmd : Commands, issued : Nat]
Results == [cmd : Commands, ok : BOOLEAN]
Records == [ok : BOOLEAN, at : Int]
HubSteps == {"unopened", "open", "registered", "acked", "listed", "ready", "down"}

ServerOK ==
    /\ row \in [Commands -> Rows]
    /\ actor \in [Actors -> Places]
    /\ \A a \in Actors : actor[a].pc = "idle" \/ actor[a].cmd \in Commands
    /\ todo \in [Sessions -> Seq(Commands)]
    /\ registry \in Sessions \cup {None}
    /\ hub \in [Sessions -> HubSteps]
    /\ ended \subseteq Sessions
WiresOK ==
    /\ toServer \in [Sessions -> Seq(Results)]
    /\ toWorker \in Seq(Written)
WorkerOK ==
    /\ link \in [cur : Sessions \cup {None}, ready : BOOLEAN, key : BOOLEAN]
    /\ link.ready => link.cur # None
    /\ wq \in Seq(Queued)
    /\ exec \in [pc : {"idle", "applying", "applied"}, cmd : Commands \cup {None}]
    /\ exec.pc = "idle" \/ exec.cmd \in Commands
    /\ memo \in [Commands -> Records \cup {None}]
CountsOK ==
    /\ effects \in [Commands -> Nat] /\ gaps \in [Commands -> Nat]
    /\ now \in Nat /\ crashes \in Nat

(* Every variable keeps its shape: only real commands are queued, executed  *)
(* and reported on, and only an established session can be sent on.         *)
TypeOK == ServerOK /\ WiresOK /\ WorkerOK /\ CountsOK

(* However often a command is delivered, msdb is changed at most once for   *)
(* each time the worker lost the outcome between msdb and its own record:   *)
(* the idempotency gate, its retention and the replay window together.      *)
NoDoubleApply == \A c \in Commands : effects[c] <= 1 + gaps[c]

(* A change that needs a second person never reaches msdb on the say of its *)
(* issuer alone, whatever approve, reject, expiry and dispatch raced on.    *)
FourEyes ==
    \A c \in Commands :
        effects[c] > 0 /\ row[c].gated => row[c].approver \notin {None, row[c].issuer}

(* A row says "succeeded" only of a command that changed msdb, replayed     *)
(* outcomes included.                                                       *)
SucceededWasApplied == \A c \in Commands : row[c].st = "succeeded" => effects[c] > 0

(* No wakeup is lost between approving and connecting: once the hub has     *)
(* dispatched for the registered session, an approved row is in somebody's  *)
(* hands.                                                                   *)
InHand(c) ==
    \/ \E a \in Actors : actor[a].cmd = c /\ actor[a].pc # "idle"
    \/ \E s \in Sessions : c \in {todo[s][i] : i \in DOMAIN todo[s]}
NoStrandedCommand ==
    \A c \in Commands :
        row[c].st = "approved" /\ registry # None /\ hub[registry] \in {"listed", "ready"}
            => InHand(c)

(* msdb is never asked to change anything later than the TTL and the replay *)
(* window allow, however long the message sat in a stream or a queue.       *)
AppliedInWindow ==
    [][exec'.pc = "applying" /\ exec.pc = "idle"
         => now <= row[exec'.cmd].created + TTL + MaxAge - Skew]_vars

(* Every command an operator issued comes to rest in a terminal state (if   *)
(* the bounded clock gets past its TTL), a worker that never comes back     *)
(* notwithstanding.                                                         *)
Settles ==
    \A c \in Commands :
        row[c].st # "none" /\ row[c].created + TTL < MaxTime ~> [](row[c].st \in Terminal)

(* All of this together: seen from msdb, the pipeline is CommandPromise.     *)
(* A command changes msdb only after it was issued and, if need be, approved *)
(* by another, and again only after an outcome was lost.                     *)
Promise == INSTANCE CommandPromise WITH
    issuer   <- [c \in Commands |-> row[c].issuer],
    gated    <- [c \in Commands |-> row[c].gated],
    approver <- [c \in Commands |-> row[c].approver],
    applied  <- effects,
    lost     <- gaps
KeepsPromise == Promise!Spec

-----------------------------------------------------------------------------
(* What comments of the repository say of a command, and the code does not  *)
(* keep to.                                                                 *)

(* "States a command will not move on from."                                *)
TerminalIsFinal ==
    [][\A c \in Commands : row[c].st \in Terminal => row'[c].st \in Terminal]_vars

(* "The worker did not pick this change up before it expired. Nothing was   *)
(* changed."  The code does not keep it: the result may have been lost.     *)
ExpiredMeansUnchanged == \A c \in Commands : row[c].st = "expired" => effects[c] = 0
=============================================================================
