--------------------------- MODULE InstanceConfig ---------------------------
(***************************************************************************)
(* Onboarding of SQL Server instances: the worker_instance_configs table   *)
(* the dashboard edits, the credential key a worker publishes in Hello,    *)
(* the configuration sets pushed down a session, and the MonitorSet of the *)
(* worker that reconciles what it monitors with the set and with the       *)
(* entries of its own worker.yaml.                                         *)
(*                                                                         *)
(* Every statement of the control plane and every await of the worker is a *)
(* step of its own: requests, the Hello handler, the reconciliation and    *)
(* the retry timer interleave at exactly those points.                     *)
(***************************************************************************)
EXTENDS Naturals, Sequences, FiniteSets

CONSTANTS
    Files,       \* instances listed in worker.yaml
    Remotes,     \* instances an administrator may configure in the dashboard
    Reqs,        \* concurrent dashboard requests
    MaxSaves,    \* bound on saves and removals
    MaxKeys,     \* bound on credential keys the host generates
    MaxSessions, \* bound on sessions the worker opens
    MaxFails,    \* bound on failing connection attempts and snapshots
    None

Inst == Files \cup Remotes
Sess == 1..MaxSessions

\* What the worker answers about an instance, and what the table may say of it.
Answers == {"connected", "awaiting_credentials", "decrypt_failed", "auth_failed", "unreachable"}
Status == Answers \cup {"pending"}

\* A configured instance as it is sent: the credential is told by the key it is
\* sealed to (0: none), the settings by the save they are of.  Its row; the set
\* of them; and what the worker keeps of a monitored instance.
Wire == [auth : {"integrated", "sql"}, key : 0..MaxKeys, rev : 0..MaxSaves]
Row == [auth : {"integrated", "sql"}, key : 0..MaxKeys, rev : 0..MaxSaves, status : Status]
Sets == [Inst -> Wire \cup {None}]
Entry == [source : {"file", "remote"}, sig : 0..MaxSaves, polling : BOOLEAN]
Report == [sess : Sess, set : Sets]

ASSUME ConfigAssumption ==
    /\ MaxSaves \in Nat /\ MaxKeys \in Nat \ {0}
    /\ MaxSessions \in Nat /\ MaxFails \in Nat
    /\ Reqs \cap Nat = {}
    /\ None \notin Row \cup Wire \cup Entry \cup Report \cup Inst \cup Answers

\* The three callers of MonitorSet.#ensure: addLocal at start-up, the retry
\* timer, and reconcileRemote on the command queue.
Callers == {"boot", "retry", "queue"}

VARIABLES
    table,      \* worker_instance_configs: the row of each instance, or None
    detached,   \* instances whose detached_at is set
    pub,        \* workers.credential_key_fingerprint (0: null)
    live,       \* the session in the registry (0: none)
    task,       \* where each request, and each session's Hello handler, stands
    saves,      \* saves and removals so far
    toServer,   \* per session, InstanceConfigStatus messages not yet handled
    link,       \* the worker's current session (0: none)
    opened,     \* sessions opened so far
    acked,      \* HelloAck received on the current session
    polls,      \* MonitorSet.#intervals is set
    hostKey,    \* the credential key on the host's disk
    entries,    \* MonitorSet.#entries
    awaiting,   \* MonitorSet.#awaitingFirstConnect
    pools,      \* monitors of each instance that hold an open pool
    wq,         \* configuration sets on the worker's command queue
    ens,        \* where each caller of #ensure stands
    fails,      \* failures so far
    reported    \* the last set whose outcome the server recorded, and its session

serverVars == <<table, detached, pub, live, task, saves>>
workerVars == <<hostKey, entries, awaiting, pools, wq, ens, fails, polls>>
netVars    == <<toServer, link, opened, acked>>
vars == <<serverVars, workerVars, netVars, reported>>

Idle == [pc |-> "idle"]

-----------------------------------------------------------------------------
(***************************************************************************)
(* The control plane                                                       *)
(***************************************************************************)

\* buildInstanceConfigSet: everything configured, waiting for a credential or not.
BuildInstanceConfigSet ==
    [i \in Inst |-> IF table[i] = None THEN None
                    ELSE [auth |-> table[i].auth, key |-> table[i].key, rev |-> table[i].rev]]

\* The form fetches the worker's key and seals the typed password to it.
SealPassword(r, i) ==
    /\ task[r].pc = "idle" /\ saves < MaxSaves
    /\ pub # 0
    /\ saves' = saves + 1
    /\ task' = [task EXCEPT ![r] = [pc |-> "sealed", inst |-> i, auth |-> "sql", rev |-> saves + 1, key |-> pub]]
    /\ UNCHANGED <<table, detached, pub, live, workerVars, netVars, reported>>

\* A save without a password, integrated or keeping what is stored: nothing is
\* sealed and nothing is compared.
SaveWithoutPassword(r, i, auth) ==
    /\ task[r].pc = "idle" /\ saves < MaxSaves
    /\ saves' = saves + 1
    /\ task' = [task EXCEPT ![r] = [pc |-> "checked", inst |-> i, auth |-> auth, rev |-> saves + 1, key |-> 0]]
    /\ UNCHANGED <<table, detached, pub, live, workerVars, netVars, reported>>

\* The route reads the current key: a credential sealed to another is refused.
CheckKey(r) ==
    /\ task[r].pc = "sealed"
    /\ task' = [task EXCEPT ![r] = IF @.key # pub THEN Idle
                                   ELSE [@ EXCEPT !.pc = "checked"]]
    /\ UNCHANGED <<table, detached, pub, live, saves, workerVars, netVars, reported>>

\* The row a save leaves: integrated clears the ciphertext, a new credential
\* replaces it, and a save with neither keeps what is stored and its status.
Saved(old, t) ==
    LET fresh == t.auth = "integrated" \/ t.key # 0 IN
    [auth   |-> t.auth,
     rev    |-> t.rev,
     key    |-> IF t.auth = "integrated" THEN 0
                ELSE IF t.key # 0 \/ old = None THEN t.key ELSE old.key,
     status |-> IF fresh THEN "pending"
                ELSE IF old = None THEN "awaiting_credentials" ELSE old.status]

\* INSERT ... ON CONFLICT DO UPDATE, and the mirrored instance is un-detached.
Upsert(r) ==
    /\ task[r].pc = "checked"
    /\ table' = [table EXCEPT ![task[r].inst] = Saved(@, task[r])]
    /\ detached' = detached \ {task[r].inst}
    /\ task' = [task EXCEPT ![r] = [pc |-> "push"]]
    /\ UNCHANGED <<pub, live, saves, workerVars, netVars, reported>>

\* DELETE of a configuration; the mirrored instance is marked detached.
Remove(r, i) ==
    /\ task[r].pc = "idle" /\ saves < MaxSaves
    /\ table[i] # None
    /\ table' = [table EXCEPT ![i] = None]
    /\ detached' = detached \cup {i}
    /\ saves' = saves + 1
    /\ task' = [task EXCEPT ![r] = [pc |-> "push"]]
    /\ UNCHANGED <<pub, live, workerVars, netVars, reported>>

\* pushInstanceConfigs: a no-op when the worker is offline; otherwise the
\* session is taken from the registry and the table is read ...
PushRead(t) ==
    /\ task[t].pc = "push"
    /\ task' = [task EXCEPT ![t] = IF live = 0 THEN Idle
                                   ELSE [pc |-> "send", to |-> live, set |-> BuildInstanceConfigSet]]
    /\ UNCHANGED <<table, detached, pub, live, saves, workerVars, netVars, reported>>

\* ... and sent down the session taken before the read, which may be gone.
\* The worker puts it on its command queue.  A set lost on the way is one sent
\* to a session that is gone.
PushSend(t) ==
    /\ task[t].pc = "send"
    /\ wq' = IF task[t].to = link THEN Append(wq, task[t].set) ELSE wq
    /\ task' = [task EXCEPT ![t] = Idle]
    /\ UNCHANGED <<table, detached, pub, live, saves, netVars, reported,
                   hostKey, entries, awaiting, pools, ens, fails, polls>>

\* recordCredentialKey, first statement: the published key replaces the stored
\* one.  Only a worker that had one before has re-keyed.
HubHello(s) ==
    /\ task[s].pc = "hello"
    /\ pub' = task[s].key
    /\ task' = [task EXCEPT ![s] = [pc |-> IF pub # 0 /\ pub # @.key THEN "rekeyed" ELSE "register"]]
    /\ UNCHANGED <<table, detached, live, saves, workerVars, netVars, reported>>

\* Second statement: every SQL login stored so far can no longer be opened.
HubRekeyed(s) ==
    /\ task[s].pc = "rekeyed"
    /\ table' = [i \in Inst |-> IF table[i] # None /\ table[i].auth = "sql"
                                THEN [table[i] EXCEPT !.status = "awaiting_credentials"]
                                ELSE table[i]]
    /\ task' = [task EXCEPT ![s] = [pc |-> "register"]]
    /\ UNCHANGED <<detached, pub, live, saves, workerVars, netVars, reported>>

\* The session enters the registry, which disconnects the one it supersedes.
\* HelloAck tells the worker the poll intervals: onReady starts the pollers of
\* every monitor there is, whether or not its snapshot can be read.
HubRegister(s) ==
    /\ task[s].pc = "register"
    /\ live' = s
    /\ task' = [task EXCEPT ![s] = [pc |-> "push"]]
    /\ IF link = s
       THEN /\ acked' = TRUE /\ polls' = TRUE
            /\ entries' = [i \in Inst |-> IF entries[i] = None THEN None
                                          ELSE [entries[i] EXCEPT !.polling = TRUE]]
       ELSE UNCHANGED <<acked, polls, entries>>
    /\ UNCHANGED <<table, detached, pub, saves, toServer, link, opened,
                   hostKey, awaiting, pools, wq, ens, fails, reported>>

\* recordInstanceConfigStatus: one UPDATE per result, by worker and instance
\* name.  A status the server does not know is never taken for connected.
HubStatus(s) ==
    /\ toServer[s] # <<>> /\ task[s].pc = "idle"
    /\ LET msg == Head(toServer[s]) IN
       /\ table' = [i \in Inst |-> IF table[i] # None /\ i \in DOMAIN msg.results
                                   THEN [table[i] EXCEPT !.status = msg.results[i]]
                                   ELSE table[i]]
       /\ reported' = [sess |-> s, set |-> msg.set]
    /\ toServer' = [toServer EXCEPT ![s] = Tail(@)]
    /\ UNCHANGED <<detached, pub, live, task, saves, link, opened, acked, workerVars>>

\* teardown: a session leaves the registry only if it is still the one there.
HubTeardown(s) ==
    /\ s <= opened /\ s # link /\ live = s
    /\ task[s].pc = "idle" /\ toServer[s] = <<>>
    /\ live' = 0
    /\ UNCHANGED <<table, detached, pub, task, saves, workerVars, netVars, reported>>

-----------------------------------------------------------------------------
(***************************************************************************)
(* The worker                                                              *)
(***************************************************************************)

\* A session opens: Hello, with the host's public key, is its first message.
Connect ==
    /\ link = 0 /\ opened < MaxSessions /\ ens["boot"].pc = "idle"
    /\ link' = opened + 1 /\ opened' = opened + 1
    /\ acked' = FALSE
    /\ task' = [task EXCEPT ![opened + 1] = [pc |-> "hello", key |-> hostKey]]
    /\ UNCHANGED <<table, detached, pub, live, saves, toServer, workerVars, reported>>

\* The stream breaks: what was still on it is lost in both directions, but
\* what the hub had already queued is handled.
Disconnect ==
    /\ link # 0
    /\ link' = 0 /\ acked' = FALSE
    /\ \E n \in 0..Len(toServer[link]) :
          toServer' = [toServer EXCEPT ![link] = SubSeq(@, 1, n)]
    /\ \/ task' = task
       \/ task[link].pc = "hello" /\ task' = [task EXCEPT ![link] = Idle]
    /\ UNCHANGED <<opened, table, detached, pub, live, saves, workerVars, reported>>

\* The process restarts; a reinstalled host has lost its key file.  The bound
\* on sessions bounds the restarts: each ends one and leaves one to open.
Restart(lost) ==
    /\ lost => hostKey < MaxKeys
    /\ link # 0 /\ opened < MaxSessions
    /\ hostKey' = IF lost THEN hostKey + 1 ELSE hostKey
    /\ entries' = [i \in Inst |-> None] /\ pools' = [i \in Inst |-> 0]
    /\ awaiting' = {} /\ wq' = <<>> /\ polls' = FALSE
    /\ ens' = [c \in Callers |-> IF c = "boot" THEN [pc |-> "loop", now |-> None, todo |-> Files] ELSE Idle]
    /\ link' = 0 /\ acked' = FALSE
    /\ UNCHANGED <<serverVars, toServer, opened, fails, reported>>

\* #toInstanceConfig: what a wire configuration says without connecting.
Unusable(c) ==
    IF c.auth # "sql" THEN None
    ELSE IF c.key = 0 THEN "awaiting_credentials"
    ELSE IF c.key # hostKey THEN "decrypt_failed"
    ELSE None

\* The next set starts to be reconciled.
ReconcileStart ==
    /\ ens["queue"].pc = "idle" /\ wq # <<>>
    /\ ens' = [ens EXCEPT !["queue"] =
                  [pc |-> "loop", now |-> None, set |-> Head(wq), results |-> <<>>,
                   todo |-> {i \in Inst : Head(wq)[i] # None}]]
    /\ wq' = Tail(wq)
    /\ UNCHANGED <<serverVars, netVars, hostKey, entries, awaiting, pools, fails, polls, reported>>

\* A function over instance names with one more result.
WithResult(results, i, s) == [j \in DOMAIN results \cup {i} |-> IF j = i THEN s ELSE results[j]]

\* Mutant of Settled: an instance already monitored is not compared.
SettledByName(i, c) ==
    IF entries[i] # None THEN "connected" ELSE Unusable(c)

\* The outcome of an instance that needs no connection: worker.yaml takes
\* precedence, an unusable credential, or unchanged settings.
Settled(i, c) ==
    IF entries[i] # None /\ entries[i].source = "file" THEN "connected"
    ELSE IF Unusable(c) # None THEN Unusable(c)
    ELSE IF entries[i] # None /\ entries[i].sig = c.rev THEN "connected"
    ELSE None

ReconcileSkip(i) ==
    /\ ens["queue"].pc = "loop" /\ i \in ens["queue"].todo
    /\ LET s == Settled(i, ens["queue"].set[i]) IN
       /\ s # None
       /\ ens' = [ens EXCEPT !["queue"].todo = @ \ {i},
                             !["queue"].results = WithResult(ens["queue"].results, i, s)]
    /\ UNCHANGED <<serverVars, netVars, hostKey, entries, awaiting, pools, wq, fails, polls, reported>>

\* After the loop, remote entries the set does not list are closed, and the
\* outcomes are sent if there is still a session to send them on.
ReconcileEnd ==
    /\ ens["queue"].pc = "loop" /\ ens["queue"].todo = {}
    /\ LET q == ens["queue"]
           drop == {i \in Inst : entries[i] # None /\ entries[i].source = "remote" /\ q.set[i] = None} IN
       /\ entries' = [i \in Inst |-> IF i \in drop THEN None ELSE entries[i]]
       /\ pools' = [i \in Inst |-> IF i \in drop THEN pools[i] - 1 ELSE pools[i]]
       /\ toServer' = IF acked
                      THEN [toServer EXCEPT ![link] = Append(@, [set |-> q.set, results |-> q.results])]
                      ELSE toServer
    /\ ens' = [ens EXCEPT !["queue"] = Idle]
    /\ UNCHANGED <<serverVars, link, opened, acked, hostKey, awaiting, wq, fails, polls, reported>>

\* #retryPending takes the list of instances still waiting when it fires; the
\* timer exists while there are any.
RetryStart ==
    /\ ens["retry"].pc = "idle" /\ awaiting # {}
    /\ ens' = [ens EXCEPT !["retry"] = [pc |-> "loop", now |-> None, todo |-> awaiting]]
    /\ UNCHANGED <<serverVars, netVars, hostKey, entries, awaiting, pools, wq, fails, polls, reported>>

\* addLocal and #retryPending have been through their lists.
LoopEnd(c) ==
    /\ c \in {"boot", "retry"} /\ ens[c].pc = "loop" /\ ens[c].todo = {}
    /\ ens' = [ens EXCEPT ![c] = Idle]
    /\ UNCHANGED <<serverVars, netVars, hostKey, entries, awaiting, pools, wq, fails, polls, reported>>

\* What a caller asks #ensure for.
Source(c) == IF c = "queue" THEN "remote" ELSE "file"
Sig(c, i) == IF c = "queue" THEN ens["queue"].set[i].rev ELSE 0

\* The caller goes on with its list; reconcileRemote also keeps the outcome.
Done(c, i, status) ==
    ens' = [ens EXCEPT ![c] = IF c = "queue"
                              THEN [ens[c] EXCEPT !.pc = "loop", !.now = None,
                                                  !.results = WithResult(ens[c].results, i, status)]
                              ELSE [ens[c] EXCEPT !.pc = "loop", !.now = None]]

\* Mutant of EnsureBegin: the previous monitor is not closed.
EnsureBeginOver(c, i) ==
    /\ ens[c].pc = "loop" /\ i \in ens[c].todo
    /\ c = "queue" => Settled(i, ens[c].set[i]) = None
    /\ ens' = [ens EXCEPT ![c].pc = "connecting", ![c].now = i, ![c].todo = @ \ {i}]
    /\ UNCHANGED <<serverVars, netVars, hostKey, entries, awaiting, pools, wq, fails, polls, reported>>

\* #ensure begins: a previous monitor is closed, which is awaited ...
EnsureBegin(c, i) ==
    /\ ens[c].pc = "loop" /\ i \in ens[c].todo
    /\ c = "queue" => Settled(i, ens[c].set[i]) = None
    /\ ens' = [ens EXCEPT ![c].pc = IF entries[i] # None THEN "closing" ELSE "connecting",
                          ![c].now = i, ![c].todo = @ \ {i}]
    /\ pools' = IF entries[i] # None THEN [pools EXCEPT ![i] = @ - 1] ELSE pools
    /\ UNCHANGED <<serverVars, netVars, hostKey, entries, awaiting, wq, fails, polls, reported>>

\* ... and whatever entry the name has by then is dropped.
EnsureClosed(c) ==
    /\ ens[c].pc = "closing"
    /\ entries' = [entries EXCEPT ![ens[c].now] = None]
    /\ ens' = [ens EXCEPT ![c].pc = "connecting"]
    /\ UNCHANGED <<serverVars, netVars, hostKey, awaiting, pools, wq, fails, polls, reported>>

\* Mutant of EnsureFails: the outcome is returned and the instance dropped.
EnsureGivesUp(c, status) ==
    /\ ens[c].pc = "connecting" /\ fails < MaxFails
    /\ fails' = fails + 1
    /\ Done(c, ens[c].now, status)
    /\ UNCHANGED <<serverVars, netVars, hostKey, entries, awaiting, pools, wq, polls, reported>>

\* Mutant of EnsureFails: the instance is kept, but only as long as it is
\* unreachable; a refused login is given up on.
EnsureFailsUnlessRefused(c, status) ==
    /\ ens[c].pc = "connecting" /\ fails < MaxFails
    /\ fails' = fails + 1
    /\ awaiting' = IF Source(c) = "file" /\ status = "unreachable" THEN awaiting \cup {ens[c].now} ELSE awaiting
    /\ Done(c, ens[c].now, status)
    /\ UNCHANGED <<serverVars, netVars, hostKey, entries, pools, wq, polls, reported>>

\* The connection fails: an instance of worker.yaml is kept for the retry
\* timer, a remote one only reports what went wrong.
EnsureFails(c, status) ==
    /\ ens[c].pc = "connecting" /\ fails < MaxFails
    /\ fails' = fails + 1
    /\ awaiting' = IF Source(c) = "file" THEN awaiting \cup {ens[c].now} ELSE awaiting
    /\ Done(c, ens[c].now, status)
    /\ UNCHANGED <<serverVars, netVars, hostKey, entries, pools, wq, polls, reported>>

\* It succeeds: the entry is set, and once a session has told the intervals
\* the first snapshot is awaited before the pollers start.
EnsureConnected(c) ==
    /\ ens[c].pc = "connecting"
    /\ LET i == ens[c].now IN
       /\ awaiting' = awaiting \ {i}
       /\ entries' = [entries EXCEPT ![i] = [source |-> Source(c), sig |-> Sig(c, i), polling |-> FALSE]]
       /\ pools' = [pools EXCEPT ![i] = @ + 1]
       /\ IF polls THEN ens' = [ens EXCEPT ![c].pc = "starting"] ELSE Done(c, i, "connected")
    /\ UNCHANGED <<serverVars, netVars, hostKey, wq, fails, polls, reported>>

\* The first snapshot: when it cannot be read the error is logged and the
\* pollers are not started.
EnsureStarted(c, ok) ==
    /\ ens[c].pc = "starting"
    /\ ~ok => fails < MaxFails
    /\ fails' = IF ok THEN fails ELSE fails + 1
    /\ LET i == ens[c].now IN
       /\ entries' = IF ok /\ entries[i] # None THEN [entries EXCEPT ![i].polling = TRUE] ELSE entries
       /\ Done(c, i, "connected")
    /\ UNCHANGED <<serverVars, netVars, hostKey, awaiting, pools, wq, polls, reported>>

-----------------------------------------------------------------------------
\* The worker starts, for the first time or again: then its key is known and
\* some instances are configured.
Init ==
    /\ \E known \in SUBSET Remotes :
          /\ table = [i \in Inst |-> IF i \in known
                                    THEN [auth |-> "sql", key |-> 1, rev |-> 0, status |-> "connected"]
                                    ELSE None]
          /\ pub = IF known = {} THEN 0 ELSE 1
    /\ detached = {} /\ live = 0 /\ saves = 0
    /\ task = [t \in Reqs \cup Sess |-> Idle]
    /\ toServer = [s \in Sess |-> <<>>]
    /\ link = 0 /\ opened = 0 /\ acked = FALSE /\ polls = FALSE
    /\ hostKey = 1 /\ entries = [i \in Inst |-> None] /\ pools = [i \in Inst |-> 0]
    /\ awaiting = {} /\ wq = <<>> /\ fails = 0
    /\ ens = [c \in Callers |-> IF c = "boot" THEN [pc |-> "loop", now |-> None, todo |-> Files] ELSE Idle]
    /\ reported = None

Request(r) ==
    \/ \E i \in Remotes :
          SealPassword(r, i) \/ Remove(r, i) \/ \E auth \in {"integrated", "sql"} : SaveWithoutPassword(r, i, auth)
    \/ CheckKey(r) \/ Upsert(r) \/ PushRead(r) \/ PushSend(r)

Hub(s) ==
    \/ HubHello(s) \/ HubRekeyed(s) \/ HubRegister(s) \/ PushRead(s) \/ PushSend(s)
    \/ HubStatus(s) \/ HubTeardown(s)

Ensure(c) ==
    \/ \E i \in Inst : EnsureBegin(c, i)
    \/ EnsureClosed(c) \/ EnsureConnected(c) \/ EnsureStarted(c, TRUE) \/ LoopEnd(c)

EnsureFailure(c) ==
    \/ \E status \in {"auth_failed", "unreachable"} : EnsureFails(c, status)
    \/ EnsureStarted(c, FALSE)

Worker ==
    \/ ReconcileStart \/ ReconcileEnd \/ RetryStart
    \/ \E i \in Inst : ReconcileSkip(i)

Next ==
    \/ \E r \in Reqs : Request(r)
    \/ \E s \in Sess : Hub(s)
    \/ Connect \/ Disconnect \/ \E lost \in BOOLEAN : Restart(lost)
    \/ Worker
    \/ \E c \in Callers : Ensure(c) \/ EnsureFailure(c)

\* Timers, handlers and promises run; edits, failures and restarts may not.
Fairness ==
    /\ WF_vars(Worker) /\ WF_vars(Connect)
    /\ \A c \in Callers : WF_vars(Ensure(c))
    /\ \A s \in Sess : WF_vars(Hub(s))

Spec == Init /\ [][Next]_vars
FairSpec == Spec /\ Fairness

-----------------------------------------------------------------------------
(***************************************************************************)
(* Properties                                                              *)
(***************************************************************************)

TypeOK ==
    /\ table \in [Inst -> Row \cup {None}] /\ entries \in [Inst -> Entry \cup {None}]
    /\ \A i \in Inst : pools[i] \in 0..1
    /\ detached \subseteq Inst /\ awaiting \subseteq Inst
    /\ pub \in 0..MaxKeys /\ hostKey \in 1..MaxKeys
    /\ live \in 0..MaxSessions /\ link \in 0..opened

\* Nothing is under way and the last set the worker answered, on the session
\* that is live, is the table as it stands.
CaughtUp ==
    /\ link # 0 /\ live = link
    /\ \A t \in Reqs \cup Sess : task[t] = Idle
    /\ \A s \in Sess : toServer[s] = <<>>
    /\ wq = <<>> /\ ens["queue"] = Idle
    /\ reported = [sess |-> link, set |-> BuildInstanceConfigSet]

\* Once a worker has answered the table as it stands, an instance removed in
\* the dashboard is no longer monitored, one shown as connected is monitored
\* with the settings shown, and one whose stored credential the worker cannot
\* open says so: no late answer of an earlier set is left in its place.
AnswerIsTrue ==
    CaughtUp =>
        \A i \in Inst \ Files :
            /\ table[i] = None => entries[i] = None
            /\ table[i] # None =>
                /\ table[i].status # "pending"
                /\ table[i].status = "connected" =>
                      entries[i] # None /\ entries[i].sig = table[i].rev
                /\ table[i].auth = "sql" /\ table[i].key # hostKey =>
                      table[i].status \in {"awaiting_credentials", "decrypt_failed"}

\* Whatever the dashboard saves and removes, an instance of worker.yaml is
\* monitored or is due another attempt.
HostConfigured ==
    \A f \in Files :
        \/ entries[f] # None
        \/ f \in awaiting
        \/ \E c \in {"boot", "retry"} : ens[c] # Idle /\ (f \in ens[c].todo \/ ens[c].now = f)

\* A monitor that holds a connection is one the set knows: no second monitor
\* of an instance is left polling beside it.
NoLostMonitor ==
    \A i \in Inst : pools[i] > 0 => pools[i] = 1 /\ entries[i] # None

\* An instance of worker.yaml that SQL Server lets in sooner or later is
\* monitored for good, however often the first attempts fail and the process
\* is restarted: the retry timer runs on its own, without a session.
FileMonitored == \A f \in Files : <>[](entries[f] # None)

\* "A newly configured instance must not sit idle until the next reconnect"
\* (monitor-set.ts): an instance monitored while a session is up is polled or
\* about to be.  The code does not keep it when the first snapshot fails.
NeverIdle ==
    \A i \in Inst : entries[i] # None /\ acked =>
        entries[i].polling \/ \E c \in Callers : ens[c].pc \in {"starting", "closing"} /\ ens[c].now = i

=============================================================================
