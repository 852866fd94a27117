------------------------ MODULE InstanceConfigProofs ------------------------
(***************************************************************************)
(* Proofs about InstanceConfig, for any number of instances, requests,     *)
(* saves, keys, sessions and failures.                                     *)
(***************************************************************************)
EXTENDS InstanceConfig, SequenceTheorems, TLAPS

-----------------------------------------------------------------------------
(* The shapes of what is stored, under way and in flight.                   *)
Saving == [pc : {"sealed", "checked"}, inst : Remotes, auth : {"integrated", "sql"},
           rev : 0..MaxSaves, key : 0..MaxKeys]
Sending == [pc : {"send"}, to : Sess, set : Sets]
Helloing == [pc : {"hello"}, key : 1..MaxKeys]
Marks == {[pc |-> pc] : pc \in {"idle", "push", "rekeyed", "register"}}
Tasks == Marks \cup Saving \cup Sending \cup Helloing
Results == UNION {[names -> Answers] : names \in SUBSET Inst}
Msgs == [set : Sets, results : Results]

ServerShape ==
    /\ table \in [Inst -> Row \cup {None}]
    /\ task \in [Reqs \cup Sess -> Tasks]
    /\ detached \subseteq Inst /\ pub \in 0..MaxKeys /\ live \in 0..MaxSessions /\ saves \in 0..MaxSaves
NetShape ==
    /\ toServer \in [Sess -> Seq(Msgs)]
    /\ opened \in 0..MaxSessions /\ link \in {0, opened} /\ acked \in BOOLEAN
    /\ reported \in Report \cup {None}

\* Where a caller of #ensure stands: at rest, in its loop, or about an instance.
About(e) == {"pc", "now", "todo"} \subseteq DOMAIN e /\ e.pc \in {"loop", "closing", "connecting", "starting"}
Mine(c) == IF c = "queue" THEN Remotes ELSE Files
Named(set, pc, now, todo) == (\A i \in todo : set[i] # None) /\ (pc # "loop" => set[now] # None)
EnsShape(c, e) ==
    \/ e = Idle
    \/ /\ About(e) /\ e.todo \subseteq Mine(c)
       /\ IF e.pc = "loop" THEN e.now = None ELSE e.now \in Mine(c)
       /\ c = "queue" => /\ {"set", "results"} \subseteq DOMAIN e /\ e.set \in Sets /\ e.results \in Results
                         /\ Named(e.set, e.pc, e.now, e.todo)
WorkerShape ==
    /\ hostKey \in 1..MaxKeys /\ entries \in [Inst -> Entry \cup {None}] /\ awaiting \subseteq Files
    /\ DOMAIN pools = Inst /\ wq \in Seq(Sets)
    /\ DOMAIN ens = Callers /\ \A c \in Callers : EnsShape(c, ens[c])

\* What is listed is what the dashboard configured.
Listed(set) == \A i \in Inst : set[i] # None => i \in Remotes
ListedInv ==
    /\ Listed(table)
    /\ \A t \in Reqs \cup Sess : task[t].pc = "send" => Listed(task[t].set)
    /\ \A n \in 1..Len(wq) : Listed(wq[n])
    /\ ens["queue"].pc # "idle" => Listed(ens["queue"].set)
Shapes == ServerShape /\ NetShape /\ WorkerShape /\ ListedInv

-----------------------------------------------------------------------------
(* The monitors, when worker.yaml and the dashboard name different          *)
(* instances.                                                               *)
Apart == Files \cap Remotes = {}
At(c, i) == ens[c].pc # "idle" /\ ens[c].now = i
Waits(c, i) == ens[c].pc # "idle" /\ i \in ens[c].todo
Closing(i) == \E c \in Callers : At(c, i) /\ ens[c].pc = "closing"

\* An instance is open once or not at all; who connects finds nothing there.
PoolsInv ==
    /\ \A i \in Inst : pools[i] = IF entries[i] = None \/ Closing(i) THEN 0 ELSE 1
    /\ \A c \in Callers : ens[c].pc = "closing" => c = "queue" /\ entries[ens[c].now] # None
    /\ \A c \in Callers : ens[c].pc = "connecting" => entries[ens[c].now] = None
    /\ \A c \in Callers : ens[c].pc = "starting" => entries[ens[c].now] # None

\* The source of an entry is whose instance it is.
SourceInv ==
    \A i \in Inst : entries[i] # None => entries[i].source = IF i \in Files THEN "file" ELSE "remote"

\* An instance of worker.yaml is with the start-up, or waiting, or monitored.
FileInv ==
    /\ \A f \in Files : Waits("boot", f) \/ (At("boot", f) /\ ens["boot"].pc = "connecting") =>
          f \notin awaiting /\ entries[f] = None
    /\ \A f \in awaiting : entries[f] = None
    /\ \A f \in Files : ~(Waits("boot", f) /\ At("boot", f))
    /\ ens["retry"].pc # "idle" => ens["retry"].todo \subseteq awaiting
    /\ ens["retry"].pc = "connecting" => ens["retry"].now \in awaiting \ ens["retry"].todo
    /\ HostConfigured
MonitorInv == PoolsInv /\ SourceInv /\ FileInv

-----------------------------------------------------------------------------
(* The answers.                                                             *)
Sealed(t) == task[t].pc \in {"sealed", "checked"}
Without(set, rev) == \A i \in Inst : set[i] # None => set[i].rev # rev
UpTo(set) == \A i \in Inst : set[i] # None => set[i].rev \in 0..saves

\* The sets built so far that somebody still has: a request that sends one, the
\* worker, the reports under way, the report handled last.
SendCopies == {task[u].set : u \in {t \in Reqs \cup Sess : task[t].pc = "send"}}
HeldCopies == {wq[n] : n \in 1..Len(wq)} \cup {e.set : e \in {x \in {ens["queue"]} : x.pc # "idle"}}
SentCopies == UNION {{toServer[s][n].set : n \in 1..Len(toServer[s])} : s \in Sess}
KnownCopies == {r.set : r \in {reported} \ {None}}
Copies == SendCopies \cup HeldCopies \cup SentCopies \cup KnownCopies

\* No save is in a set, or in the table, before it is made, and none is made twice.
FreshInv ==
    \A t \in Reqs \cup Sess : Sealed(t) =>
        /\ task[t].rev <= saves /\ Without(table, task[t].rev)
        /\ \A u \in Reqs \cup Sess : Sealed(u) /\ u # t => task[u].rev # task[t].rev
        /\ \A set \in Copies : Without(set, task[t].rev)
SavedInv == UpTo(table) /\ \A set \in Copies : UpTo(set)

\* What an answer about a configured instance must say, given what is monitored.
Sealable(c) == c.auth = "sql" => c.key = hostKey
Fits(status, c, i) ==
    /\ status # "pending"
    /\ status = "connected" => entries[i] # None /\ entries[i].sig = c.rev
    /\ ~Sealable(c) => status \in {"awaiting_credentials", "decrypt_failed"}
FitsMsg(msg, i) ==
    IF msg.set[i] = None THEN entries[i] = None
    ELSE i \in DOMAIN msg.results /\ Fits(msg.results[i], msg.set[i], i)

\* No report before the session is acknowledged; a session's reports are its own.
ReportInv ==
    /\ acked => link # 0
    /\ reported # None => reported.sess <= opened
    /\ \A s \in Sess : s > opened => toServer[s] = <<>>
    /\ link # 0 /\ ~acked => toServer[link] = <<>> /\ (reported # None => reported.sess # link)

\* Entries of the dashboard's instances are its own, and only the queue touches them.
RemoteInv == \A i \in Inst \ Files : entries[i] # None => entries[i].source = "remote"

\* The reconciliation under way.
QueueInv ==
    ens["queue"].pc # "idle" => \A i \in Inst \ Files :
        LET q == ens["queue"] IN
        /\ q.set[i] = None => i \notin q.todo /\ q.now # i
        /\ q.set[i] # None /\ i \notin q.todo /\ q.now # i => FitsMsg(q, i)
        /\ q.now = i => Sealable(q.set[i]) /\ i \notin q.todo
        /\ q.now = i /\ q.pc = "starting" => entries[i] # None /\ entries[i].sig = q.set[i].rev

\* The last report sent tells what is monitored, and so does the last one handled.
SentInv ==
    link # 0 /\ ens["queue"].pc = "idle" /\ toServer[link] # <<>> =>
        \A i \in Inst \ Files : FitsMsg(toServer[link][Len(toServer[link])], i)
HandledInv ==
    link # 0 /\ ens["queue"].pc = "idle" /\ toServer[link] = <<>> /\ reported # None /\ reported.sess = link =>
        \A i \in Inst \ Files :
            /\ reported.set[i] = None => entries[i] = None
            /\ table[i] # None /\ reported.set[i] = BuildInstanceConfigSet[i] => Fits(table[i].status, table[i], i)
AnswerInv == FreshInv /\ SavedInv /\ ReportInv /\ RemoteInv /\ QueueInv /\ SentInv /\ HandledInv

-----------------------------------------------------------------------------
(* What a step of the worker does to a caller of #ensure: it is afterwards  *)
(* at pc, about now, with todo left, and the outcomes so far.               *)
EnsOthers(c) == DOMAIN ens' = Callers /\ \A d \in Callers : d # c => ens'[d] = ens[d]
Turned(c, pc, now, todo, results) ==
    /\ EnsOthers(c) /\ {"pc", "now", "todo"} \subseteq DOMAIN ens'[c]
    /\ ens'[c].pc = pc /\ ens'[c].now = now /\ ens'[c].todo = todo
    /\ c = "queue" => /\ {"set", "results"} \subseteq DOMAIN ens'[c]
                      /\ ens'[c].set = ens[c].set /\ ens'[c].results = results
Rested(c) == EnsOthers(c) /\ ens'[c] = Idle
EnsDom == DOMAIN ens = Callers
EnsFields(c) == "pc" \in DOMAIN ens[c] /\ (ens[c].pc # "idle" => About(ens[c]))
                /\ (c = "queue" /\ ens[c].pc # "idle" => {"set", "results"} \subseteq DOMAIN ens[c])

LEMMA FieldsOf ==
  ASSUME WorkerShape, NEW c \in Callers
  PROVE  EnsFields(c) /\ EnsDom
<1>1. EnsShape(c, ens[c])
  BY DEF WorkerShape
<1> QED
  BY <1>1 DEF EnsShape, EnsFields, EnsDom, Idle, About, WorkerShape

LEMMA DoneTurns ==
  ASSUME NEW c \in Callers, EnsDom, EnsFields(c), ens[c].pc # "idle", NEW i, NEW status, Done(c, i, status)
  PROVE  Turned(c, "loop", None, ens[c].todo, WithResult(ens[c].results, i, status))
<1> DEFINE was == ens[c]
<1> DEFINE now == IF c = "queue" THEN [was EXCEPT !.pc = "loop", !.now = None, !.results = WithResult(was.results, i, status)]
                  ELSE [was EXCEPT !.pc = "loop", !.now = None]
<1>1. {"pc", "now", "todo"} \subseteq DOMAIN was /\ (c = "queue" => {"set", "results"} \subseteq DOMAIN was)
  BY DEF EnsFields, About
<1>2. ens' = [ens EXCEPT ![c] = now]
  BY DEF Done
<1>3. ens'[c] = now /\ EnsOthers(c)
  BY <1>2 DEF EnsDom, EnsOthers
<1> HIDE DEF was
<1>4. CASE c = "queue"
  <2>1. now = [was EXCEPT !.pc = "loop", !.now = None, !.results = WithResult(was.results, i, status)]
    BY <1>4
  <2>2. /\ now.pc = "loop" /\ now.now = None /\ now.todo = was.todo /\ now.set = was.set
        /\ now.results = WithResult(was.results, i, status) /\ DOMAIN now = DOMAIN was
    BY <2>1, <1>1, <1>4
  <2> HIDE DEF now
  <2> QED
    BY <1>1, <1>3, <1>4, <2>2 DEF Turned, was
<1>5. CASE c # "queue"
  <2>1. now = [was EXCEPT !.pc = "loop", !.now = None]
    BY <1>5
  <2>2. now.pc = "loop" /\ now.now = None /\ now.todo = was.todo /\ DOMAIN now = DOMAIN was
    BY <2>1, <1>1
  <2> HIDE DEF now
  <2> QED
    BY <1>1, <1>3, <1>5, <2>2 DEF Turned, was
<1> QED
  BY <1>4, <1>5

LEMMA BeginTurns ==
  ASSUME NEW c \in Callers, EnsDom, EnsFields(c), NEW i, EnsureBegin(c, i)
  PROVE  /\ ens[c].pc = "loop" /\ i \in ens[c].todo
         /\ Turned(c, IF entries[i] # None THEN "closing" ELSE "connecting", i, ens[c].todo \ {i}, ens[c].results)
<1> DEFINE was == ens[c]
<1> DEFINE pc == IF entries[i] # None THEN "closing" ELSE "connecting"
<1> DEFINE now == [was EXCEPT !.pc = pc, !.now = i, !.todo = was.todo \ {i}]
<1>0. ens[c].pc = "loop" /\ i \in ens[c].todo
  BY DEF EnsureBegin
<1>1. {"pc", "now", "todo"} \subseteq DOMAIN was /\ (c = "queue" => {"set", "results"} \subseteq DOMAIN was)
  BY <1>0 DEF EnsFields, About
<1>2. ens' = [ens EXCEPT ![c] = now]
  BY DEF EnsureBegin
<1>3. ens'[c] = now /\ EnsOthers(c)
  BY <1>2 DEF EnsDom, EnsOthers
<1> HIDE DEF was, pc
<1>4. /\ now.pc = pc /\ now.now = i /\ now.todo = was.todo \ {i} /\ DOMAIN now = DOMAIN was
      /\ c = "queue" => now.set = was.set /\ now.results = was.results
  BY <1>1
<1> HIDE DEF now
<1>5. Turned(c, pc, i, was.todo \ {i}, was.results)
  BY <1>1, <1>3, <1>4 DEF Turned, was
<1> QED
  BY <1>0, <1>5 DEF pc, was

LEMMA PcTurns ==
  ASSUME NEW c \in Callers, EnsDom, EnsFields(c), ens[c].pc # "idle", NEW pc, ens' = [ens EXCEPT ![c].pc = pc]
  PROVE  Turned(c, pc, ens[c].now, ens[c].todo, ens[c].results)
<1> DEFINE was == ens[c]
<1> DEFINE now == [was EXCEPT !.pc = pc]
<1>1. {"pc", "now", "todo"} \subseteq DOMAIN was /\ (c = "queue" => {"set", "results"} \subseteq DOMAIN was)
  BY DEF EnsFields, About
<1>2. ens' = [ens EXCEPT ![c] = now]
  OBVIOUS
<1>3. ens'[c] = now /\ EnsOthers(c)
  BY <1>2 DEF EnsDom, EnsOthers
<1> HIDE DEF was
<1>4. /\ now.pc = pc /\ now.now = was.now /\ now.todo = was.todo /\ DOMAIN now = DOMAIN was
      /\ c = "queue" => now.set = was.set /\ now.results = was.results
  BY <1>1
<1> HIDE DEF now
<1> QED
  BY <1>1, <1>3, <1>4 DEF Turned, was

LEMMA SkipTurns ==
  ASSUME EnsDom, EnsFields("queue"), NEW i, ReconcileSkip(i)
  PROVE  /\ ens["queue"].pc = "loop" /\ i \in ens["queue"].todo /\ Settled(i, ens["queue"].set[i]) # None
         /\ Turned("queue", "loop", ens["queue"].now, ens["queue"].todo \ {i},
                   WithResult(ens["queue"].results, i, Settled(i, ens["queue"].set[i])))
<1> DEFINE was == ens["queue"]
<1> DEFINE s == Settled(i, was.set[i])
<1> DEFINE now == [was EXCEPT !.todo = was.todo \ {i}, !.results = WithResult(was.results, i, s)]
<1>0. was.pc = "loop" /\ i \in was.todo /\ s # None /\ "queue" \in Callers
  BY DEF ReconcileSkip, Callers
<1>1. {"pc", "now", "todo", "set", "results"} \subseteq DOMAIN was
  BY <1>0 DEF EnsFields, About
<1>2. ens' = [ens EXCEPT !["queue"] = now]
  BY DEF ReconcileSkip
<1>3. ens'["queue"] = now /\ EnsOthers("queue")
  BY <1>0, <1>2 DEF EnsDom, EnsOthers
<1> HIDE DEF was, s
<1>4. /\ now.pc = was.pc /\ now.now = was.now /\ now.todo = was.todo \ {i} /\ DOMAIN now = DOMAIN was
      /\ now.set = was.set /\ now.results = WithResult(was.results, i, s)
  BY <1>1
<1> HIDE DEF now
<1>5. Turned("queue", "loop", was.now, was.todo \ {i}, WithResult(was.results, i, s))
  BY <1>0, <1>1, <1>3, <1>4 DEF Turned, was
<1> QED
  BY <1>0, <1>5 DEF s, was

LEMMA TurnedShape ==
  ASSUME WorkerShape, NEW c \in Callers, NEW pc, NEW now, NEW todo, NEW results,
         Turned(c, pc, now, todo, results), ens[c].pc # "idle",
         pc \in {"loop", "closing", "connecting", "starting"}, todo \subseteq Mine(c),
         IF pc = "loop" THEN now = None ELSE now \in Mine(c), c = "queue" => results \in Results /\ Named(ens[c].set, pc, now, todo)
  PROVE  DOMAIN ens' = Callers /\ \A d \in Callers : EnsShape(d, ens'[d])
<1>1. EnsShape(c, ens[c]) /\ ens[c] # Idle
  BY DEF WorkerShape, Idle
<1>2. EnsShape(c, ens'[c])
  BY <1>1 DEF EnsShape, About, Turned
<1> QED
  BY <1>2 DEF Turned, EnsOthers, WorkerShape

LEMMA RestedShape ==
  ASSUME WorkerShape, NEW c \in Callers, Rested(c)
  PROVE  DOMAIN ens' = Callers /\ \A d \in Callers : EnsShape(d, ens'[d])
BY DEF Rested, EnsOthers, WorkerShape, EnsShape

(* What the shape of a caller says of it.                                   *)
LEMMA ShapeOf ==
  ASSUME WorkerShape, NEW c \in Callers, ens[c].pc # "idle"
  PROVE  /\ ens[c].todo \subseteq Mine(c)
         /\ ens[c].pc \in {"loop", "closing", "connecting", "starting"}
         /\ IF ens[c].pc = "loop" THEN ens[c].now = None ELSE ens[c].now \in Mine(c)
         /\ c = "queue" => /\ ens[c].set \in Sets /\ ens[c].results \in Results
                           /\ Named(ens[c].set, ens[c].pc, ens[c].now, ens[c].todo)
<1>1. EnsShape(c, ens[c]) /\ ens[c] # Idle
  BY DEF WorkerShape, Idle
<1> QED
  BY <1>1 DEF EnsShape, About

LEMMA NamesInst == ASSUME NEW c PROVE Mine(c) \subseteq Inst
BY DEF Mine, Inst

LEMMA ResultAdded ==
  ASSUME NEW results \in Results, NEW i \in Inst, NEW status \in Answers
  PROVE  WithResult(results, i, status) \in Results
<1>1. PICK names \in SUBSET Inst : results \in [names -> Answers]
  BY DEF Results
<1>2. WithResult(results, i, status) \in [names \cup {i} -> Answers]
  BY <1>1 DEF WithResult
<1> QED
  BY <1>2 DEF Results

LEMMA AnswersSettle ==
  ASSUME ConfigAssumption, NEW i, NEW c, Settled(i, c) # None
  PROVE  Settled(i, c) \in Answers
BY DEF Settled, Unusable, Answers

-----------------------------------------------------------------------------
(* Tasks by what they stand at.                                             *)
LEMMA TaskOf ==
  ASSUME ServerShape, NEW t \in Reqs \cup Sess
  PROVE  /\ task[t].pc \in {"sealed", "checked"} => task[t] \in Saving
         /\ task[t].pc = "send" => task[t] \in Sending
         /\ task[t].pc = "hello" => task[t] \in Helloing
         /\ task[t].pc \in {"idle", "push", "rekeyed", "register"} => task[t] = [pc |-> task[t].pc]
<1>1. task[t] \in Tasks
  BY DEF ServerShape
<1>2. CASE task[t] \in Marks
  BY <1>2 DEF Marks
<1>3. CASE task[t] \in Saving
  BY <1>3 DEF Saving
<1>4. CASE task[t] \in Sending
  BY <1>4 DEF Sending
<1>5. CASE task[t] \in Helloing
  BY <1>5 DEF Helloing
<1> QED
  BY <1>1, <1>2, <1>3, <1>4, <1>5 DEF Tasks

TaskTo(t, x) == task' = [task EXCEPT ![t] = x]
LEMMA TaskTyped ==
  ASSUME ServerShape, NEW t \in Reqs \cup Sess, NEW x \in Tasks, TaskTo(t, x)
  PROVE  task' \in [Reqs \cup Sess -> Tasks]
BY DEF ServerShape, TaskTo

LEMMA SetIsSet ==
  ASSUME ServerShape
  PROVE  BuildInstanceConfigSet \in Sets /\ (Listed(table) => Listed(BuildInstanceConfigSet))
<1>1. ASSUME NEW i \in Inst PROVE BuildInstanceConfigSet[i] \in Wire \cup {None}
  <2>1. table[i] \in Row \cup {None}
    BY DEF ServerShape
  <2> QED
    BY <2>1 DEF BuildInstanceConfigSet, Row, Wire
<1>2. BuildInstanceConfigSet \in Sets
  BY <1>1 DEF BuildInstanceConfigSet, Sets
<1>3. \A i \in Inst : BuildInstanceConfigSet[i] # None => table[i] # None
  BY DEF BuildInstanceConfigSet
<1> QED
  BY <1>2, <1>3 DEF Listed

-----------------------------------------------------------------------------
(* The shapes are kept by every step.                                       *)
WorkerStill == UNCHANGED <<workerVars, netVars, reported>>
TaskListed(x) == x.pc = "send" => Listed(x.set)

LEMMA ServerStep ==
  ASSUME Shapes, WorkerStill, ServerShape', Listed(table'),
         NEW t \in Reqs \cup Sess, NEW x \in Tasks, task' = task \/ TaskTo(t, x), TaskListed(x)
  PROVE  Shapes'
<1>1. NetShape' /\ WorkerShape'
  BY DEF WorkerStill, workerVars, netVars, Shapes, NetShape, WorkerShape, EnsShape, About
<1>2. \A u \in Reqs \cup Sess : task'[u] = task[u] \/ task'[u] = x
  BY DEF TaskTo, Shapes, ServerShape
<1>3. \A u \in Reqs \cup Sess : task'[u].pc = "send" => Listed(task'[u].set)
  BY <1>2 DEF TaskListed, Shapes, ListedInv
<1>4. ListedInv'
  BY <1>3 DEF WorkerStill, workerVars, Shapes, ListedInv, Listed
<1> QED
  BY <1>1, <1>4 DEF Shapes

LEMMA RowTyped ==
  ASSUME ConfigAssumption, NEW old \in Row \cup {None}, NEW t \in Saving
  PROVE  Saved(old, t) \in Row
<1>1. None \notin Row
  BY DEF ConfigAssumption
<1> QED
  BY <1>1 DEF Saved, Row, Status, Saving, Answers, ConfigAssumption

LEMMA PushReadShape ==
  ASSUME ConfigAssumption, Shapes, NEW t \in Reqs \cup Sess, PushRead(t)
  PROVE  Shapes'
<1>0. ServerShape /\ Listed(table)
  BY DEF Shapes, ListedInv
<1> DEFINE x == IF live = 0 THEN Idle ELSE [pc |-> "send", to |-> live, set |-> BuildInstanceConfigSet]
<1>1. Idle \in Tasks /\ TaskListed(Idle)
  BY DEF Tasks, Marks, Idle, TaskListed
<1>2. ASSUME live # 0
      PROVE  LET y == [pc |-> "send", to |-> live, set |-> BuildInstanceConfigSet] IN y \in Tasks /\ TaskListed(y)
  BY <1>0, <1>2, SetIsSet DEF Tasks, Sending, TaskListed, ServerShape, Sess, ConfigAssumption
<1>3. x \in Tasks /\ TaskListed(x)
  BY <1>1, <1>2
<1>4. TaskTo(t, x) /\ WorkerStill /\ UNCHANGED <<table, detached, pub, live, saves>>
  BY DEF PushRead, TaskTo, WorkerStill
<1> HIDE DEF x
<1>5. ServerShape'
  BY <1>0, <1>3, <1>4, TaskTyped DEF ServerShape
<1> QED
  BY <1>0, <1>3, <1>4, <1>5, ServerStep

LEMMA PushSendShape ==
  ASSUME Shapes, NEW t \in Reqs \cup Sess, PushSend(t)
  PROVE  Shapes'
<1>0. task[t] \in Sending /\ ServerShape /\ Listed(task[t].set) /\ wq \in Seq(Sets)
  BY TaskOf DEF Shapes, PushSend, ListedInv, WorkerShape
<1>1. Idle \in Tasks /\ TaskTo(t, Idle)
  BY DEF Tasks, Marks, Idle, PushSend, TaskTo
<1>2. ServerShape' /\ NetShape'
  BY <1>0, <1>1, TaskTyped DEF Shapes, ServerShape, NetShape, PushSend, netVars
<1>3. wq' \in Seq(Sets) /\ \A n \in 1..Len(wq') : Listed(wq'[n])
  <2>1. \A n \in 1..Len(wq) : Listed(wq[n])
    BY DEF Shapes, ListedInv
  <2>2. task[t].set \in Sets
    BY <1>0 DEF Sending
  <2>3. CASE wq' = wq
    BY <1>0, <2>1, <2>3
  <2>4. CASE wq' = Append(wq, task[t].set)
    BY <1>0, <2>1, <2>2, <2>4, AppendProperties
  <2> QED
    BY <2>3, <2>4 DEF PushSend
<1>4. WorkerShape'
  BY <1>3 DEF Shapes, WorkerShape, PushSend, EnsShape, About
<1>5. \A u \in Reqs \cup Sess : task'[u] = task[u] \/ task'[u] = Idle
  BY <1>1 DEF TaskTo, Shapes, ServerShape
<1>6. UNCHANGED <<table, ens>>
  BY DEF PushSend
<1>7. ListedInv'
  BY <1>3, <1>5, <1>6 DEF Shapes, ListedInv, Listed, Idle
<1> QED
  BY <1>2, <1>4, <1>7 DEF Shapes

LEMMA RequestShape ==
  ASSUME ConfigAssumption, Shapes, NEW r \in Reqs, Request(r)
  PROVE  Shapes'
<1>0. ServerShape /\ r \in Reqs \cup Sess /\ Listed(table)
  BY DEF Shapes, ListedInv
<1>1. ASSUME NEW i \in Remotes, SealPassword(r, i) PROVE Shapes'
  <2> DEFINE x == [pc |-> "sealed", inst |-> i, auth |-> "sql", rev |-> saves + 1, key |-> pub]
  <2>1. x \in Tasks /\ TaskListed(x) /\ saves + 1 \in 0..MaxSaves
    BY <1>0, <1>1 DEF SealPassword, Tasks, Saving, TaskListed, ServerShape, ConfigAssumption
  <2>2. TaskTo(r, x) /\ WorkerStill /\ UNCHANGED <<table, detached, pub, live>> /\ saves' = saves + 1
    BY <1>1 DEF SealPassword, TaskTo, WorkerStill
  <2> HIDE DEF x
  <2>3. ServerShape'
    BY <1>0, <2>1, <2>2, TaskTyped DEF ServerShape
  <2> QED
    BY <1>0, <2>1, <2>2, <2>3, ServerStep
<1>2. ASSUME NEW i \in Remotes, NEW auth \in {"integrated", "sql"}, SaveWithoutPassword(r, i, auth) PROVE Shapes'
  <2> DEFINE x == [pc |-> "checked", inst |-> i, auth |-> auth, rev |-> saves + 1, key |-> 0]
  <2>1. x \in Tasks /\ TaskListed(x) /\ saves + 1 \in 0..MaxSaves
    BY <1>0, <1>2 DEF SaveWithoutPassword, Tasks, Saving, TaskListed, ServerShape, ConfigAssumption
  <2>2. TaskTo(r, x) /\ WorkerStill /\ UNCHANGED <<table, detached, pub, live>> /\ saves' = saves + 1
    BY <1>2 DEF SaveWithoutPassword, TaskTo, WorkerStill
  <2> HIDE DEF x
  <2>3. ServerShape'
    BY <1>0, <2>1, <2>2, TaskTyped DEF ServerShape
  <2> QED
    BY <1>0, <2>1, <2>2, <2>3, ServerStep
<1>3. ASSUME NEW i \in Remotes, Remove(r, i) PROVE Shapes'
  <2> DEFINE x == [pc |-> "push"]
  <2>1. x \in Tasks /\ TaskListed(x) /\ saves + 1 \in 0..MaxSaves
    BY <1>0, <1>3 DEF Remove, Tasks, Marks, TaskListed, ServerShape, ConfigAssumption
  <2>2. /\ TaskTo(r, x) /\ WorkerStill /\ UNCHANGED <<pub, live>> /\ saves' = saves + 1
        /\ table' = [table EXCEPT ![i] = None] /\ detached' = detached \cup {i}
    BY <1>3 DEF Remove, TaskTo, WorkerStill
  <2> HIDE DEF x
  <2>3. ServerShape' /\ Listed(table')
    BY <1>0, <2>1, <2>2, TaskTyped DEF ServerShape, Listed, Inst
  <2> QED
    BY <1>0, <2>1, <2>2, <2>3, ServerStep
<1>4. CASE CheckKey(r)
  <2>1. task[r] \in Saving /\ task[r].pc = "sealed"
    BY <1>0, <1>4, TaskOf DEF CheckKey
  <2> DEFINE x == IF task[r].key # pub THEN Idle ELSE [task[r] EXCEPT !.pc = "checked"]
  <2>2. [task[r] EXCEPT !.pc = "checked"] \in Saving
    BY <2>1 DEF Saving
  <2>3. x \in Tasks /\ TaskListed(x)
    BY <2>2 DEF Tasks, Saving, Idle, Marks, TaskListed
  <2>4. TaskTo(r, x) /\ WorkerStill /\ UNCHANGED <<table, detached, pub, live, saves>>
    BY <1>4 DEF CheckKey, TaskTo, WorkerStill
  <2> HIDE DEF x
  <2>5. ServerShape'
    BY <1>0, <2>3, <2>4, TaskTyped DEF ServerShape
  <2> QED
    BY <1>0, <2>3, <2>4, <2>5, ServerStep
<1>5. CASE Upsert(r)
  <2>1. task[r] \in Saving
    BY <1>0, <1>5, TaskOf DEF Upsert
  <2> DEFINE x == [pc |-> "push"]
  <2> DEFINE i == task[r].inst
  <2> DEFINE row == Saved(table[i], task[r])
  <2>2. x \in Tasks /\ TaskListed(x)
    BY DEF Tasks, Marks, TaskListed
  <2>3. i \in Remotes /\ i \in Inst /\ table[i] \in Row \cup {None}
    BY <1>0, <2>1 DEF Saving, Inst, ServerShape
  <2>4. row \in Row
    BY <2>1, <2>3, RowTyped
  <2>5. /\ TaskTo(r, x) /\ WorkerStill /\ UNCHANGED <<pub, live, saves>>
        /\ table' = [table EXCEPT ![i] = row] /\ detached' = detached \ {i}
    BY <1>5 DEF Upsert, TaskTo, WorkerStill
  <2> HIDE DEF x, i, row
  <2>6. ServerShape' /\ Listed(table')
    BY <1>0, <2>2, <2>3, <2>4, <2>5, TaskTyped DEF ServerShape, Listed
  <2> QED
    BY <1>0, <2>2, <2>5, <2>6, ServerStep
<1>6. PushRead(r) \/ PushSend(r) => Shapes'
  BY <1>0, PushReadShape, PushSendShape
<1> QED
  BY <1>1, <1>2, <1>3, <1>4, <1>5, <1>6 DEF Request

LEMMA HubHelloShape ==
  ASSUME ConfigAssumption, Shapes, NEW s \in Sess, HubHello(s)
  PROVE  Shapes'
<1>0. ServerShape /\ Listed(table) /\ s \in Reqs \cup Sess
  BY DEF Shapes, ListedInv
<1>1. task[s] \in Helloing
  BY <1>0, TaskOf DEF HubHello
<1> DEFINE x == [pc |-> IF pub # 0 /\ pub # task[s].key THEN "rekeyed" ELSE "register"]
<1>2. x \in Tasks /\ TaskListed(x)
  BY DEF Tasks, Marks, TaskListed
<1>3. TaskTo(s, x) /\ WorkerStill /\ UNCHANGED <<table, detached, live, saves>> /\ pub' = task[s].key
  BY DEF HubHello, TaskTo, WorkerStill
<1> HIDE DEF x
<1>4. pub' \in 0..MaxKeys
  BY <1>1, <1>3 DEF Helloing, ConfigAssumption
<1>5. ServerShape'
  BY <1>0, <1>2, <1>3, <1>4, TaskTyped DEF ServerShape
<1> QED
  BY <1>0, <1>2, <1>3, <1>5, ServerStep

LEMMA HubRekeyedShape ==
  ASSUME ConfigAssumption, Shapes, NEW s \in Sess, HubRekeyed(s)
  PROVE  Shapes'
<1>0. ServerShape /\ Listed(table) /\ s \in Reqs \cup Sess
  BY DEF Shapes, ListedInv
<1> DEFINE x == [pc |-> "register"]
<1>1. x \in Tasks /\ TaskListed(x)
  BY DEF Tasks, Marks, TaskListed
<1>2. TaskTo(s, x) /\ WorkerStill /\ UNCHANGED <<detached, pub, live, saves>>
  BY DEF HubRekeyed, TaskTo, WorkerStill
<1>3. ASSUME NEW i \in Inst PROVE table'[i] \in Row \cup {None} /\ (table'[i] # None => table[i] # None)
  <2>1. table[i] \in Row \cup {None}
    BY <1>0 DEF ServerShape
  <2> QED
    BY <2>1 DEF HubRekeyed, Row, Status, Answers
<1>4. table' \in [Inst -> Row \cup {None}]
  BY <1>3 DEF HubRekeyed
<1>5. Listed(table')
  BY <1>0, <1>3 DEF Listed
<1> HIDE DEF x
<1>6. ServerShape'
  BY <1>0, <1>1, <1>2, <1>4, TaskTyped DEF ServerShape
<1> QED
  BY <1>0, <1>1, <1>2, <1>5, <1>6, ServerStep

LEMMA HubRegisterShape ==
  ASSUME ConfigAssumption, Shapes, NEW s \in Sess, HubRegister(s)
  PROVE  Shapes'
<1>0. ServerShape /\ NetShape /\ WorkerShape /\ s \in Reqs \cup Sess
  BY DEF Shapes
<1> DEFINE x == [pc |-> "push"]
<1>1. x \in Tasks /\ TaskTo(s, x)
  BY DEF Tasks, Marks, HubRegister, TaskTo
<1>2. live' \in 0..MaxSessions
  BY DEF HubRegister, Sess, ConfigAssumption
<1>3. ServerShape'
  BY <1>0, <1>1, <1>2, TaskTyped DEF ServerShape, HubRegister
<1>4. NetShape'
  BY <1>0 DEF NetShape, HubRegister
<1>5. entries' \in [Inst -> Entry \cup {None}]
  <2>1. ASSUME NEW i \in Inst, entries[i] # None PROVE [entries[i] EXCEPT !.polling = TRUE] \in Entry
    BY <1>0, <2>1 DEF WorkerShape, Entry
  <2>2. CASE entries' = [i \in Inst |-> IF entries[i] = None THEN None ELSE [entries[i] EXCEPT !.polling = TRUE]]
    BY <2>1, <2>2
  <2> QED
    BY <1>0, <2>2 DEF HubRegister, WorkerShape
<1>6. WorkerShape'
  BY <1>0, <1>5 DEF WorkerShape, HubRegister, EnsShape, About
<1>7. \A u \in Reqs \cup Sess : task'[u] = task[u] \/ task'[u] = x
  BY <1>0, <1>1 DEF TaskTo, ServerShape
<1>8. UNCHANGED <<table, ens, wq>>
  BY DEF HubRegister
<1>9. ListedInv'
  BY <1>7, <1>8 DEF Shapes, ListedInv, Listed
<1> QED
  BY <1>3, <1>4, <1>6, <1>9 DEF Shapes

LEMMA HubStatusShape ==
  ASSUME ConfigAssumption, Shapes, NEW s \in Sess, HubStatus(s)
  PROVE  Shapes'
<1>0. ServerShape /\ NetShape /\ WorkerShape /\ s \in Reqs \cup Sess
  BY DEF Shapes
<1> DEFINE msg == Head(toServer[s])
<1>1. msg \in Msgs /\ Tail(toServer[s]) \in Seq(Msgs)
  BY <1>0, HeadTailProperties DEF NetShape, HubStatus
<1>2. msg.set \in Sets /\ msg.results \in Results
  BY <1>1 DEF Msgs
<1>3. PICK names \in SUBSET Inst : msg.results \in [names -> Answers]
  BY <1>2 DEF Results
<1>4. /\ table' = [i \in Inst |-> IF table[i] # None /\ i \in DOMAIN msg.results
                                  THEN [table[i] EXCEPT !.status = msg.results[i]] ELSE table[i]]
      /\ reported' = [sess |-> s, set |-> msg.set] /\ toServer' = [toServer EXCEPT ![s] = Tail(@)]
      /\ UNCHANGED <<detached, pub, live, task, saves, link, opened, acked, workerVars>>
  BY DEF HubStatus
<1> HIDE DEF msg
<1>5. ASSUME NEW i \in Inst PROVE table'[i] \in Row \cup {None} /\ (table'[i] # None => table[i] # None)
  <2>1. table[i] \in Row \cup {None}
    BY <1>0 DEF ServerShape
  <2>2. CASE table[i] # None /\ i \in DOMAIN msg.results
    <3>1. table[i] \in Row /\ msg.results[i] \in Status
      BY <1>3, <2>1, <2>2 DEF Status
    <3>2. [table[i] EXCEPT !.status = msg.results[i]] \in Row
      BY <3>1 DEF Row
    <3> QED
      BY <1>4, <2>2, <3>2
  <2> QED
    BY <1>4, <2>1, <2>2
<1>6. table' \in [Inst -> Row \cup {None}]
  BY <1>4, <1>5
<1>7. ServerShape'
  BY <1>0, <1>4, <1>6 DEF ServerShape
<1>8. reported' \in Report
  BY <1>2, <1>4 DEF Report
<1>9. NetShape'
  BY <1>0, <1>1, <1>4, <1>8 DEF NetShape
<1>10. WorkerShape'
  BY <1>0, <1>4 DEF WorkerShape, workerVars, EnsShape, About
<1>11. ListedInv'
  BY <1>4, <1>5 DEF workerVars, Shapes, ListedInv, Listed
<1> QED
  BY <1>7, <1>9, <1>10, <1>11 DEF Shapes

LEMMA HubShape ==
  ASSUME ConfigAssumption, Shapes, NEW s \in Sess, Hub(s)
  PROVE  Shapes'
<1>1. HubTeardown(s) => Shapes'
  <2>1. Idle \in Tasks /\ TaskListed(Idle)
    BY DEF Tasks, Marks, Idle, TaskListed
  <2>2. HubTeardown(s) => /\ WorkerStill /\ UNCHANGED <<table, detached, pub, task, saves>> /\ live' = 0
    BY DEF HubTeardown, WorkerStill
  <2>3. HubTeardown(s) => ServerShape' /\ Listed(table')
    BY <2>2 DEF Shapes, ServerShape, ConfigAssumption, ListedInv
  <2> QED
    BY <2>1, <2>2, <2>3, ServerStep
<1>2. PushRead(s) \/ PushSend(s) => Shapes'
  BY PushReadShape, PushSendShape
<1> QED
  BY <1>1, <1>2, HubHelloShape, HubRekeyedShape, HubRegisterShape, HubStatusShape DEF Hub

LEMMA ConnectShape ==
  ASSUME ConfigAssumption, Shapes, Connect
  PROVE  Shapes'
<1>0. ServerShape /\ NetShape /\ WorkerShape
  BY DEF Shapes
<1> DEFINE x == [pc |-> "hello", key |-> hostKey]
<1>1. opened + 1 \in Reqs \cup Sess /\ opened + 1 \in 0..MaxSessions
  BY <1>0 DEF NetShape, Connect, Sess, ConfigAssumption
<1>2. x \in Tasks /\ TaskTo(opened + 1, x)
  BY <1>0 DEF Tasks, Helloing, WorkerShape, Connect, TaskTo
<1>3. ServerShape'
  BY <1>0, <1>1, <1>2, TaskTyped DEF ServerShape, Connect
<1>4. NetShape'
  BY <1>0, <1>1 DEF NetShape, Connect
<1>5. WorkerShape'
  BY <1>0 DEF WorkerShape, Connect, workerVars, EnsShape, About
<1>6. \A u \in Reqs \cup Sess : task'[u] = task[u] \/ task'[u] = x
  BY <1>0, <1>2 DEF TaskTo, ServerShape
<1>7. UNCHANGED <<table, ens, wq>>
  BY DEF Connect, workerVars
<1>8. ListedInv'
  BY <1>6, <1>7 DEF Shapes, ListedInv, Listed
<1> QED
  BY <1>3, <1>4, <1>5, <1>8 DEF Shapes

LEMMA DisconnectShape ==
  ASSUME ConfigAssumption, Shapes, Disconnect
  PROVE  Shapes'
<1>0. ServerShape /\ NetShape /\ WorkerShape
  BY DEF Shapes
<1>1. link \in Sess /\ link \in Reqs \cup Sess
  BY <1>0 DEF NetShape, Disconnect, Sess, ConfigAssumption
<1>2. Idle \in Tasks /\ (task' = task \/ TaskTo(link, Idle))
  BY DEF Tasks, Marks, Idle, Disconnect, TaskTo
<1>3. ServerShape'
  BY <1>0, <1>1, <1>2, TaskTyped DEF ServerShape, Disconnect
<1>4. toServer' \in [Sess -> Seq(Msgs)]
  <2>1. PICK n \in 0..Len(toServer[link]) : toServer' = [toServer EXCEPT ![link] = SubSeq(@, 1, n)]
    BY DEF Disconnect
  <2>2. toServer[link] \in Seq(Msgs)
    BY <1>0, <1>1 DEF NetShape
  <2>3. SubSeq(toServer[link], 1, n) \in Seq(Msgs)
    BY <2>1, <2>2, SubSeqProperties
  <2> QED
    BY <1>0, <2>1, <2>3 DEF NetShape
<1>5. NetShape'
  BY <1>0, <1>4 DEF NetShape, Disconnect
<1>6. WorkerShape'
  BY <1>0 DEF WorkerShape, Disconnect, workerVars, EnsShape, About
<1>7. \A u \in Reqs \cup Sess : task'[u] = task[u] \/ task'[u] = Idle
  BY <1>0, <1>2 DEF TaskTo, ServerShape
<1>8. UNCHANGED <<table, ens, wq>>
  BY DEF Disconnect, workerVars
<1>9. ListedInv'
  BY <1>7, <1>8 DEF Shapes, ListedInv, Listed, Idle
<1> QED
  BY <1>3, <1>5, <1>6, <1>9 DEF Shapes

LEMMA RestartShape ==
  ASSUME ConfigAssumption, Shapes, NEW lost \in BOOLEAN, Restart(lost)
  PROVE  Shapes'
<1>0. ServerShape /\ NetShape /\ WorkerShape
  BY DEF Shapes
<1>1. ServerShape'
  BY <1>0 DEF ServerShape, Restart, serverVars
<1>2. NetShape'
  BY <1>0 DEF NetShape, Restart
<1>3. DOMAIN ens' = Callers /\ \A c \in Callers : EnsShape(c, ens'[c])
  BY DEF Restart, EnsShape, Callers, Mine, About
<1>4. wq' = <<>> /\ wq' \in Seq(Sets)
  BY DEF Restart
<1>5. hostKey' \in 1..MaxKeys
  BY <1>0 DEF WorkerShape, Restart, ConfigAssumption
<1>6. WorkerShape'
  BY <1>3, <1>4, <1>5 DEF WorkerShape, Restart
<1>7. ens'["queue"] = Idle
  BY DEF Restart, Callers
<1>8. UNCHANGED <<table, task>>
  BY DEF Restart, serverVars
<1>9. ListedInv'
  BY <1>4, <1>7, <1>8 DEF Shapes, ListedInv, Listed, Idle
<1> QED
  BY <1>1, <1>2, <1>6, <1>9 DEF Shapes

EnsTyped == DOMAIN ens' = Callers /\ \A c \in Callers : EnsShape(c, ens'[c])
QueueListed == ens'["queue"].pc # "idle" => Listed(ens'["queue"].set)
ServerStill == UNCHANGED serverVars
LEMMA WorkerStep ==
  ASSUME Shapes, ServerStill, NetShape', EnsTyped, QueueListed, hostKey' = hostKey,
         entries' \in [Inst -> Entry \cup {None}], awaiting' \subseteq Files, DOMAIN pools' = Inst,
         wq' = wq \/ (wq' \in Seq(Sets) /\ \A n \in 1..Len(wq') : Listed(wq'[n]))
  PROVE  Shapes'
<1>1. ServerShape'
  BY DEF ServerStill, serverVars, Shapes, ServerShape
<1>2. WorkerShape'
  BY DEF Shapes, WorkerShape, EnsTyped
<1>3. ListedInv'
  BY DEF Shapes, ListedInv, ServerStill, serverVars, QueueListed, Listed
<1> QED
  BY <1>1, <1>2, <1>3 DEF Shapes

LEMMA NetStill ==
  ASSUME Shapes, UNCHANGED <<netVars, reported>> PROVE NetShape'
BY DEF Shapes, NetShape, netVars

LEMMA QueueKept ==
  ASSUME Shapes, NEW c \in Callers, NEW pc, NEW now, NEW todo, NEW results,
         Turned(c, pc, now, todo, results), ens[c].pc # "idle"
  PROVE  QueueListed
<1>1. "queue" \in Callers
  BY DEF Callers
<1> QED
  BY <1>1 DEF Shapes, ListedInv, QueueListed, Turned, EnsOthers

LEMMA QueueRests ==
  ASSUME Shapes, NEW c \in Callers, Rested(c)
  PROVE  QueueListed
<1>1. "queue" \in Callers
  BY DEF Callers
<1> QED
  BY <1>1 DEF Shapes, ListedInv, QueueListed, Rested, EnsOthers, Idle

LEMMA ReconcileStartShape ==
  ASSUME ConfigAssumption, Shapes, ReconcileStart
  PROVE  /\ Shapes'
         /\ EnsOthers("queue") /\ ens["queue"] = Idle /\ wq # <<>> /\ wq' = Tail(wq)
         /\ ens'["queue"] = [pc |-> "loop", now |-> None, set |-> wq[1], results |-> <<>>,
                             todo |-> {i \in Inst : wq[1][i] # None}]
<1>0. WorkerShape /\ "queue" \in Callers
  BY DEF Shapes, Callers
<1> DEFINE set == wq[1]
<1> DEFINE e == [pc |-> "loop", now |-> None, set |-> set, results |-> <<>>, todo |-> {i \in Inst : set[i] # None}]
<1>1. ens["queue"] = Idle
  BY <1>0, ShapeOf DEF ReconcileStart, WorkerShape, EnsShape, About
<1>2. wq # <<>> /\ wq' = Tail(wq) /\ wq \in Seq(Sets) /\ Head(wq) = set
  BY <1>0 DEF ReconcileStart, WorkerShape
<1>3. 1 \in 1..Len(wq)
  BY <1>2
<1>4. set \in Sets /\ Listed(set)
  BY <1>2, <1>3 DEF Shapes, ListedInv
<1>5. Tail(wq) \in Seq(Sets) /\ \A n \in 1..Len(Tail(wq)) : n + 1 \in 1..Len(wq) /\ Tail(wq)[n] = wq[n + 1]
  BY <1>2, HeadTailProperties
<1>6. \A n \in 1..Len(Tail(wq)) : Listed(Tail(wq)[n])
  BY <1>5 DEF Shapes, ListedInv
<1>7. ens' = [ens EXCEPT !["queue"] = e]
  BY <1>2 DEF ReconcileStart
<1> HIDE DEF set
<1>8. {i \in Inst : set[i] # None} \subseteq Remotes
  BY <1>4 DEF Listed
<1>9. << >> \in Results
  <2>1. << >> = [x \in {} |-> "connected"]
    OBVIOUS
  <2>2. << >> \in [{} -> Answers]
    BY <2>1
  <2> QED
    BY <2>2 DEF Results
<1>10. EnsShape("queue", e)
  BY <1>4, <1>8, <1>9 DEF EnsShape, About, Mine, Named
<1>11. ens'["queue"] = e /\ EnsOthers("queue")
  BY <1>0, <1>7 DEF WorkerShape, EnsOthers
<1>12. EnsTyped /\ QueueListed
  <2>1. e.set = set
    OBVIOUS
  <2> HIDE DEF e
  <2> QED
    BY <1>0, <1>4, <1>10, <1>11, <2>1 DEF EnsTyped, QueueListed, EnsOthers, WorkerShape
<1>13. Shapes'
  <2>1. UNCHANGED <<serverVars, netVars, reported, hostKey, entries, awaiting, pools>>
    BY DEF ReconcileStart
  <2> QED
    BY <1>0, <1>2, <1>5, <1>6, <1>12, <2>1, WorkerStep, NetStill DEF WorkerShape, ServerStill
<1> QED
  BY <1>1, <1>2, <1>11, <1>13 DEF set

LEMMA ReconcileSkipShape ==
  ASSUME ConfigAssumption, Shapes, NEW i \in Inst, ReconcileSkip(i)
  PROVE  Shapes'
<1> DEFINE q == ens["queue"]
<1> DEFINE s == Settled(i, q.set[i])
<1>0. WorkerShape /\ "queue" \in Callers
  BY DEF Shapes, Callers
<1>1. EnsDom /\ EnsFields("queue")
  BY <1>0, FieldsOf
<1>2. /\ q.pc = "loop" /\ i \in q.todo /\ s # None
      /\ Turned("queue", "loop", q.now, q.todo \ {i}, WithResult(q.results, i, s))
  BY <1>1, SkipTurns
<1>3. q.todo \subseteq Mine("queue") /\ q.now = None /\ q.results \in Results /\ Named(q.set, q.pc, q.now, q.todo)
  BY <1>0, <1>2, ShapeOf
<1>4. WithResult(q.results, i, s) \in Results
  BY <1>2, <1>3, AnswersSettle, ResultAdded
<1> HIDE DEF s
<1>5. EnsTyped
  <2>1. Named(q.set, "loop", q.now, q.todo \ {i})
    BY <1>3 DEF Named
  <2> QED
    BY <1>0, <1>2, <1>3, <1>4, <2>1, TurnedShape DEF EnsTyped
<1>6. QueueListed
  BY <1>0, <1>2, QueueKept
<1>7. UNCHANGED <<serverVars, netVars, reported, hostKey, entries, awaiting, pools, wq>>
  BY DEF ReconcileSkip
<1> QED
  BY <1>0, <1>5, <1>6, <1>7, WorkerStep, NetStill DEF WorkerShape, ServerStill

Dropped == {i \in Inst : entries[i] # None /\ entries[i].source = "remote" /\ ens["queue"].set[i] = None}
LEMMA ReconcileEnds ==
  ASSUME Shapes, ReconcileEnd
  PROVE  /\ ens["queue"].pc = "loop" /\ ens["queue"].todo = {} /\ Rested("queue")
         /\ entries' = [i \in Inst |-> IF i \in Dropped THEN None ELSE entries[i]]
         /\ pools' = [i \in Inst |-> IF i \in Dropped THEN pools[i] - 1 ELSE pools[i]]
         /\ toServer' = IF acked
                        THEN [toServer EXCEPT ![link] =
                                Append(@, [set |-> ens["queue"].set, results |-> ens["queue"].results])]
                        ELSE toServer
         /\ UNCHANGED <<serverVars, link, opened, acked, hostKey, awaiting, wq, fails, polls, reported>>
<1>1. DOMAIN ens = Callers /\ "queue" \in Callers
  BY DEF Shapes, WorkerShape, Callers
<1>2. ens' = [ens EXCEPT !["queue"] = Idle]
  BY DEF ReconcileEnd
<1>3. Rested("queue")
  BY <1>1, <1>2 DEF Rested, EnsOthers
<1> QED
  BY <1>3 DEF ReconcileEnd, Dropped

LEMMA ReconcileEndShape ==
  ASSUME Shapes, ReconcileEnd
  PROVE  Shapes'
<1>0. WorkerShape /\ NetShape /\ "queue" \in Callers
  BY DEF Shapes, Callers
<1>1. ens["queue"].set \in Sets /\ ens["queue"].results \in Results
  BY <1>0, ReconcileEnds, ShapeOf
<1>2. [set |-> ens["queue"].set, results |-> ens["queue"].results] \in Msgs
  BY <1>1 DEF Msgs
<1>3. toServer' \in [Sess -> Seq(Msgs)]
  <2> DEFINE m == [set |-> ens["queue"].set, results |-> ens["queue"].results]
  <2>1. toServer' = IF acked THEN [toServer EXCEPT ![link] = Append(@, m)] ELSE toServer
    BY ReconcileEnds
  <2>2. m \in Msgs
    BY <1>2
  <2> HIDE DEF m
  <2>3. ASSUME NEW x \in Sess PROVE Append(toServer[x], m) \in Seq(Msgs)
    BY <1>0, <2>2, AppendProperties DEF NetShape
  <2>4. \A x \in Sess : toServer'[x] = toServer[x] \/ toServer'[x] = Append(toServer[x], m)
    BY <1>0, <2>1 DEF NetShape
  <2>5. DOMAIN toServer' = Sess /\ toServer' = [x \in Sess |-> toServer'[x]]
    BY <1>0, <2>1 DEF NetShape
  <2> QED
    BY <1>0, <2>3, <2>4, <2>5 DEF NetShape
<1>4. NetShape'
  BY <1>0, <1>3, ReconcileEnds DEF NetShape
<1>5. EnsTyped /\ QueueListed
  BY <1>0, ReconcileEnds, RestedShape, QueueRests DEF EnsTyped
<1>6. entries' \in [Inst -> Entry \cup {None}] /\ DOMAIN pools' = Inst
  BY <1>0, ReconcileEnds DEF WorkerShape
<1> QED
  BY <1>0, <1>4, <1>5, <1>6, ReconcileEnds, WorkerStep DEF WorkerShape, ServerStill

LEMMA RetryStarts ==
  ASSUME Shapes, RetryStart
  PROVE  /\ Shapes'
         /\ ens["retry"] = Idle /\ EnsOthers("retry") /\ ens'["retry"] = [pc |-> "loop", now |-> None, todo |-> awaiting]
         /\ UNCHANGED <<serverVars, netVars, hostKey, entries, awaiting, pools, wq, fails, polls, reported>>
<1>0. WorkerShape /\ "retry" \in Callers
  BY DEF Shapes, Callers
<1> DEFINE e == [pc |-> "loop", now |-> None, todo |-> awaiting]
<1>1. ens' = [ens EXCEPT !["retry"] = e]
  BY DEF RetryStart
<1>2. ens'["retry"] = e /\ EnsOthers("retry") /\ ens["retry"] = Idle
  BY <1>0, <1>1 DEF WorkerShape, EnsOthers, RetryStart, EnsShape, About
<1>3. EnsShape("retry", e)
  BY <1>0 DEF EnsShape, About, Mine, WorkerShape
<1>4. EnsTyped
  BY <1>0, <1>2, <1>3 DEF EnsTyped, EnsOthers, WorkerShape
<1>5. ens'["queue"] = ens["queue"]
  BY <1>2 DEF EnsOthers, Callers
<1>6. QueueListed
  BY <1>5 DEF QueueListed, Shapes, ListedInv
<1>7. UNCHANGED <<serverVars, netVars, hostKey, entries, awaiting, pools, wq, fails, polls, reported>>
  BY DEF RetryStart
<1>8. Shapes'
  BY <1>0, <1>4, <1>6, <1>7, WorkerStep, NetStill DEF WorkerShape, ServerStill
<1> QED
  BY <1>2, <1>7, <1>8

LEMMA LoopEnds ==
  ASSUME Shapes, NEW c, LoopEnd(c)
  PROVE  /\ Shapes' /\ c \in {"boot", "retry"} /\ c \in Callers
         /\ ens[c].pc = "loop" /\ ens[c].todo = {} /\ Rested(c)
         /\ UNCHANGED <<serverVars, netVars, hostKey, entries, awaiting, pools, wq, fails, polls, reported>>
<1>0. WorkerShape /\ c \in Callers /\ ens' = [ens EXCEPT ![c] = Idle]
  BY DEF Shapes, Callers, LoopEnd
<1>1. Rested(c)
  BY <1>0 DEF WorkerShape, Rested, EnsOthers
<1>2. EnsTyped /\ QueueListed
  BY <1>0, <1>1, RestedShape, QueueRests DEF EnsTyped
<1>3. UNCHANGED <<serverVars, netVars, hostKey, entries, awaiting, pools, wq, fails, polls, reported>>
  BY DEF LoopEnd
<1>4. Shapes'
  BY <1>0, <1>2, <1>3, WorkerStep, NetStill DEF WorkerShape, ServerStill
<1> QED
  BY <1>0, <1>1, <1>3, <1>4 DEF LoopEnd

-----------------------------------------------------------------------------
(* The steps of #ensure.                                                    *)
OnlyEns == UNCHANGED <<serverVars, netVars, reported, hostKey, wq>>
LEMMA EnsureStep ==
  ASSUME Shapes, OnlyEns, NEW c \in Callers, ens[c].pc # "idle",
         NEW pc \in {"loop", "closing", "connecting", "starting"}, NEW now, NEW todo \in SUBSET ens[c].todo, NEW results,
         Turned(c, pc, now, todo, results),
         IF pc = "loop" THEN now = None ELSE now \in ens[c].todo \/ (now = ens[c].now /\ ens[c].pc # "loop"),
         results = ens[c].results \/ (c = "queue" => results \in Results),
         entries' \in [Inst -> Entry \cup {None}], awaiting' \subseteq Files, DOMAIN pools' = Inst
  PROVE  Shapes'
<1>0. WorkerShape
  BY DEF Shapes
<1>1. /\ ens[c].todo \subseteq Mine(c)
      /\ IF ens[c].pc = "loop" THEN ens[c].now = None ELSE ens[c].now \in Mine(c)
      /\ c = "queue" => /\ ens[c].set \in Sets /\ ens[c].results \in Results
                        /\ Named(ens[c].set, ens[c].pc, ens[c].now, ens[c].todo)
  BY <1>0, ShapeOf
<1>2. todo \subseteq Mine(c) /\ IF pc = "loop" THEN now = None ELSE now \in Mine(c)
  BY <1>1
<1>3. c = "queue" => results \in Results /\ Named(ens[c].set, pc, now, todo)
  BY <1>1 DEF Named
<1>4. EnsTyped /\ QueueListed
  BY <1>0, <1>2, <1>3, TurnedShape, QueueKept DEF EnsTyped
<1> QED
  BY <1>4, WorkerStep, NetStill DEF OnlyEns, ServerStill

Begun(i) == IF entries[i] # None THEN "closing" ELSE "connecting"
LEMMA EnsureBegins ==
  ASSUME Shapes, NEW c \in Callers, NEW i \in Inst, EnsureBegin(c, i)
  PROVE  /\ Shapes' /\ OnlyEns /\ UNCHANGED <<entries, awaiting, polls>>
         /\ ens[c].pc = "loop" /\ i \in ens[c].todo /\ (c = "queue" => Settled(i, ens[c].set[i]) = None)
         /\ Turned(c, Begun(i), i, ens[c].todo \ {i}, ens[c].results)
         /\ pools' = IF entries[i] # None THEN [pools EXCEPT ![i] = @ - 1] ELSE pools
<1>0. WorkerShape /\ EnsDom /\ EnsFields(c)
  BY FieldsOf DEF Shapes
<1>1. /\ ens[c].pc = "loop" /\ i \in ens[c].todo
      /\ Turned(c, Begun(i), i, ens[c].todo \ {i}, ens[c].results)
  BY <1>0, BeginTurns DEF Begun
<1>2. /\ OnlyEns /\ UNCHANGED <<entries, awaiting, polls>> /\ (c = "queue" => Settled(i, ens[c].set[i]) = None)
      /\ pools' = IF entries[i] # None THEN [pools EXCEPT ![i] = @ - 1] ELSE pools
  BY DEF EnsureBegin, OnlyEns
<1>3. Begun(i) \in {"loop", "closing", "connecting", "starting"} /\ Begun(i) # "loop" /\ ens[c].todo \ {i} \in SUBSET ens[c].todo
  BY DEF Begun
<1>4. DOMAIN pools' = Inst /\ awaiting' \subseteq Files /\ entries' \in [Inst -> Entry \cup {None}]
  BY <1>0, <1>2 DEF WorkerShape
<1>5. Shapes'
  BY <1>1, <1>2, <1>3, <1>4, EnsureStep
<1> QED
  BY <1>1, <1>2, <1>5

LEMMA EnsureCloses ==
  ASSUME ConfigAssumption, Shapes, NEW c \in Callers, EnsureClosed(c)
  PROVE  /\ Shapes' /\ OnlyEns /\ UNCHANGED <<pools, awaiting, polls>>
         /\ ens[c].pc = "closing" /\ ens[c].now \in Inst
         /\ Turned(c, "connecting", ens[c].now, ens[c].todo, ens[c].results)
         /\ entries' = [entries EXCEPT ![ens[c].now] = None]
<1>0. WorkerShape /\ EnsDom /\ EnsFields(c)
  BY FieldsOf DEF Shapes
<1>1. ens[c].pc = "closing" /\ Turned(c, "connecting", ens[c].now, ens[c].todo, ens[c].results)
  BY <1>0, PcTurns DEF EnsureClosed
<1>2. ens[c].now \in Inst
  BY <1>0, <1>1, ShapeOf, NamesInst
<1>3. /\ OnlyEns /\ UNCHANGED <<pools, awaiting, polls>>
      /\ entries' = [entries EXCEPT ![ens[c].now] = None]
  BY DEF EnsureClosed, OnlyEns
<1>4. DOMAIN pools' = Inst /\ awaiting' \subseteq Files /\ entries' \in [Inst -> Entry \cup {None}]
  BY <1>0, <1>3 DEF WorkerShape
<1>5. Shapes'
  BY <1>1, <1>3, <1>4, EnsureStep
<1> QED
  BY <1>1, <1>2, <1>3, <1>5

OutcomeOf(c, i, status) == WithResult(ens[c].results, i, status)
LEMMA OutcomeTyped ==
  ASSUME Shapes, NEW c \in Callers, ens[c].pc # "idle", NEW i \in Inst, NEW status \in Answers
  PROVE  c = "queue" => OutcomeOf(c, i, status) \in Results
<1>1. c = "queue" => ens[c].results \in Results
  BY ShapeOf DEF Shapes
<1> QED
  BY <1>1, ResultAdded DEF OutcomeOf

Started(c) == [source |-> Source(c), sig |-> Sig(c, ens[c].now), polling |-> FALSE]
LEMMA EnsureConnects ==
  ASSUME ConfigAssumption, Shapes, NEW c \in Callers, EnsureConnected(c)
  PROVE  /\ Shapes' /\ OnlyEns /\ UNCHANGED polls
         /\ ens[c].pc = "connecting" /\ ens[c].now \in Inst
         /\ \/ Turned(c, "starting", ens[c].now, ens[c].todo, ens[c].results)
            \/ Turned(c, "loop", None, ens[c].todo, OutcomeOf(c, ens[c].now, "connected"))
         /\ awaiting' = awaiting \ {ens[c].now} /\ Started(c) # None
         /\ entries' = [entries EXCEPT ![ens[c].now] = Started(c)]
         /\ pools' = [pools EXCEPT ![ens[c].now] = @ + 1]
<1> DEFINE i == ens[c].now
<1>0. WorkerShape /\ EnsDom /\ EnsFields(c) /\ ens[c].pc = "connecting"
  BY FieldsOf DEF Shapes, EnsureConnected
<1>1. i \in Mine(c) /\ i \in Inst /\ (c = "queue" => ens[c].set \in Sets /\ ens[c].set[i] # None)
  BY <1>0, ShapeOf, NamesInst DEF Named
<1>2. polls => Turned(c, "starting", i, ens[c].todo, ens[c].results)
  BY <1>0, PcTurns DEF EnsureConnected
<1>3. ~polls => Turned(c, "loop", None, ens[c].todo, OutcomeOf(c, i, "connected"))
  BY <1>0, DoneTurns DEF EnsureConnected, OutcomeOf
<1>4. /\ OnlyEns /\ UNCHANGED polls /\ awaiting' = awaiting \ {i}
      /\ entries' = [entries EXCEPT ![i] = Started(c)] /\ pools' = [pools EXCEPT ![i] = @ + 1]
  BY DEF EnsureConnected, OnlyEns, Started
<1>5. Sig(c, i) \in 0..MaxSaves
  BY <1>1 DEF Sig, Sets, Wire, ConfigAssumption
<1>6. Started(c) \in Entry /\ Started(c) # None
  <2>1. Started(c) \in Entry
    BY <1>5 DEF Started, Source, Entry
  <2>2. None \notin Entry
    BY DEF ConfigAssumption
  <2> QED
    BY <2>1, <2>2
<1>7. DOMAIN pools' = Inst /\ awaiting' \subseteq Files /\ entries' \in [Inst -> Entry \cup {None}]
  BY <1>0, <1>4, <1>6 DEF WorkerShape
<1>8. c = "queue" => OutcomeOf(c, i, "connected") \in Results
  BY <1>0, <1>1, OutcomeTyped DEF Answers
<1>9. Shapes'
  <2>1. CASE Turned(c, "starting", i, ens[c].todo, ens[c].results)
    BY <1>0, <1>4, <1>7, <2>1, EnsureStep
  <2>2. CASE Turned(c, "loop", None, ens[c].todo, OutcomeOf(c, i, "connected"))
    BY <1>0, <1>4, <1>7, <1>8, <2>2, EnsureStep
  <2> QED
    BY <1>2, <1>3, <2>1, <2>2
<1> QED
  BY <1>0, <1>1, <1>2, <1>3, <1>4, <1>6, <1>9

LEMMA EnsureStarts ==
  ASSUME Shapes, NEW c \in Callers, NEW ok \in BOOLEAN, EnsureStarted(c, ok)
  PROVE  /\ Shapes' /\ OnlyEns /\ UNCHANGED <<awaiting, pools, polls>>
         /\ ens[c].pc = "starting" /\ ens[c].now \in Inst
         /\ Turned(c, "loop", None, ens[c].todo, OutcomeOf(c, ens[c].now, "connected"))
         /\ entries' = IF ok /\ entries[ens[c].now] # None
                       THEN [entries EXCEPT ![ens[c].now].polling = TRUE] ELSE entries
<1> DEFINE i == ens[c].now
<1>0. WorkerShape /\ EnsDom /\ EnsFields(c) /\ ens[c].pc = "starting"
  BY FieldsOf DEF Shapes, EnsureStarted
<1>1. i \in Inst
  BY <1>0, ShapeOf, NamesInst
<1>2. Turned(c, "loop", None, ens[c].todo, OutcomeOf(c, i, "connected"))
  BY <1>0, DoneTurns DEF EnsureStarted, OutcomeOf
<1>3. /\ OnlyEns /\ UNCHANGED <<awaiting, pools, polls>>
      /\ entries' = IF ok /\ entries[i] # None THEN [entries EXCEPT ![i].polling = TRUE] ELSE entries
  BY DEF EnsureStarted, OnlyEns
<1>4. entries' \in [Inst -> Entry \cup {None}]
  <2>1. entries \in [Inst -> Entry \cup {None}]
    BY <1>0 DEF WorkerShape
  <2>2. entries[i] # None => [entries[i] EXCEPT !.polling = TRUE] \in Entry
    BY <1>1, <2>1 DEF Entry
  <2> QED
    BY <1>3, <2>1, <2>2
<1>5. DOMAIN pools' = Inst /\ awaiting' \subseteq Files
  BY <1>0, <1>3 DEF WorkerShape
<1>6. c = "queue" => OutcomeOf(c, i, "connected") \in Results
  BY <1>0, <1>1, OutcomeTyped DEF Answers
<1>7. Shapes'
  BY <1>0, <1>2, <1>3, <1>4, <1>5, <1>6, EnsureStep
<1> QED
  BY <1>0, <1>1, <1>2, <1>3, <1>7

LEMMA EnsureFailed ==
  ASSUME Shapes, NEW c \in Callers, NEW status \in {"auth_failed", "unreachable"}, EnsureFails(c, status)
  PROVE  /\ Shapes' /\ OnlyEns /\ UNCHANGED <<entries, pools, polls>>
         /\ ens[c].pc = "connecting" /\ ens[c].now \in Inst
         /\ Turned(c, "loop", None, ens[c].todo, OutcomeOf(c, ens[c].now, status))
         /\ awaiting' = IF c = "queue" THEN awaiting ELSE awaiting \cup {ens[c].now}
<1> DEFINE i == ens[c].now
<1>0. WorkerShape /\ EnsDom /\ EnsFields(c) /\ ens[c].pc = "connecting"
  BY FieldsOf DEF Shapes, EnsureFails
<1>1. i \in Mine(c) /\ i \in Inst
  BY <1>0, ShapeOf, NamesInst
<1>2. Turned(c, "loop", None, ens[c].todo, OutcomeOf(c, i, status))
  BY <1>0, DoneTurns DEF EnsureFails, OutcomeOf
<1>3. /\ OnlyEns /\ UNCHANGED <<entries, pools, polls>>
      /\ awaiting' = IF c = "queue" THEN awaiting ELSE awaiting \cup {i}
  BY DEF EnsureFails, OnlyEns, Source
<1>4. entries' \in [Inst -> Entry \cup {None}] /\ DOMAIN pools' = Inst
  BY <1>0, <1>3 DEF WorkerShape
<1>5. awaiting' \subseteq Files
  BY <1>0, <1>1, <1>3 DEF WorkerShape, Mine
<1>6. c = "queue" => OutcomeOf(c, i, status) \in Results
  BY <1>0, <1>1, OutcomeTyped DEF Answers
<1>7. Shapes'
  BY <1>0, <1>2, <1>3, <1>4, <1>5, <1>6, EnsureStep
<1> QED
  BY <1>0, <1>1, <1>2, <1>3, <1>7

-----------------------------------------------------------------------------
(* The steps of the worker, by what they do.                                *)
LEMMA InitShape == ASSUME ConfigAssumption, Init PROVE Shapes
<1>1. ServerShape
  <2>1. Idle \in Tasks
    BY DEF Tasks, Marks, Idle
  <2>2. task \in [Reqs \cup Sess -> Tasks]
    BY <2>1 DEF Init
  <2>3. table \in [Inst -> Row \cup {None}]
    <3>1. [auth |-> "sql", key |-> 1, rev |-> 0, status |-> "connected"] \in Row
      BY DEF Row, Status, Answers, ConfigAssumption
    <3> QED
      BY <3>1 DEF Init
  <2>4. detached \subseteq Inst /\ pub \in 0..MaxKeys /\ live \in 0..MaxSessions /\ saves \in 0..MaxSaves
    BY DEF Init, ConfigAssumption
  <2> QED
    BY <2>2, <2>3, <2>4 DEF ServerShape
<1>2. NetShape
  <2>1. <<>> \in Seq(Msgs)
    OBVIOUS
  <2>2. toServer \in [Sess -> Seq(Msgs)]
    BY <2>1 DEF Init
  <2>3. opened \in 0..MaxSessions /\ link \in {0, opened} /\ reported \in {None}
    BY DEF Init, ConfigAssumption
  <2>4. acked \in BOOLEAN
    BY Zenon DEF Init
  <2> QED
    BY <2>2, <2>3, <2>4 DEF NetShape
<1>3. WorkerShape
  <2>1. <<>> \in Seq(Sets)
    OBVIOUS
  <2>2. \A c \in Callers : EnsShape(c, ens[c])
    BY DEF Init, EnsShape, Callers, Mine, About
  <2> QED
    BY <2>1, <2>2 DEF Init, WorkerShape, ConfigAssumption
<1>4. ListedInv
  BY DEF Init, ListedInv, Listed, Idle, Inst, Callers
<1> QED
  BY <1>1, <1>2, <1>3, <1>4 DEF Shapes

LEMMA StutterShape == ASSUME Shapes, UNCHANGED vars PROVE Shapes'
<1>1. ServerShape' /\ NetShape'
  BY DEF vars, serverVars, netVars, Shapes, ServerShape, NetShape
<1>2. WorkerShape'
  BY DEF vars, workerVars, Shapes, WorkerShape, EnsShape, About
<1>3. ListedInv'
  BY DEF vars, serverVars, workerVars, Shapes, ListedInv, Listed
<1> QED
  BY <1>1, <1>2, <1>3 DEF Shapes

LEMMA ShapesStep ==
  ASSUME ConfigAssumption, Shapes, [Next]_vars
  PROVE  Shapes'
<1>1. ASSUME NEW r \in Reqs, Request(r) PROVE Shapes'
  BY <1>1, RequestShape
<1>2. ASSUME NEW s \in Sess, Hub(s) PROVE Shapes'
  BY <1>2, HubShape
<1>3. Connect \/ Disconnect => Shapes'
  BY ConnectShape, DisconnectShape
<1>4. ASSUME NEW lost \in BOOLEAN, Restart(lost) PROVE Shapes'
  BY <1>4, RestartShape
<1>5. ReconcileStart \/ ReconcileEnd \/ RetryStart => Shapes'
  BY ReconcileStartShape, ReconcileEndShape, RetryStarts
<1>6. ASSUME NEW i \in Inst, ReconcileSkip(i) PROVE Shapes'
  BY <1>6, ReconcileSkipShape
<1>7. ASSUME NEW c \in Callers, Ensure(c) PROVE Shapes'
  <2>1. ASSUME NEW i \in Inst, EnsureBegin(c, i) PROVE Shapes'
    BY <2>1, EnsureBegins
  <2>2. EnsureClosed(c) \/ EnsureConnected(c) \/ EnsureStarted(c, TRUE) \/ LoopEnd(c) => Shapes'
    BY EnsureCloses, EnsureConnects, EnsureStarts, LoopEnds
  <2> QED
    BY <1>7, <2>1, <2>2 DEF Ensure
<1>8. ASSUME NEW c \in Callers, EnsureFailure(c) PROVE Shapes'
  BY <1>8, EnsureFailed, EnsureStarts DEF EnsureFailure
<1> QED
  BY <1>1, <1>2, <1>3, <1>4, <1>5, <1>6, <1>7, <1>8, StutterShape DEF Next, Worker

LEMMA ShapesKept == Spec => []Shapes
<1> USE ConfigAssumption
<1>1. Init => Shapes
  BY InitShape
<1>2. Shapes /\ [Next]_vars => Shapes'
  BY ShapesStep
<1> QED
  BY <1>1, <1>2, PTL DEF Spec

-----------------------------------------------------------------------------
(* The monitors, under Apart.                                               *)
LEMMA Places ==
  ASSUME ConfigAssumption, Shapes, Apart
  PROVE  /\ None \notin Inst /\ awaiting \subseteq Files /\ Files \subseteq Inst /\ Remotes \subseteq Inst
         /\ DOMAIN entries = Inst /\ DOMAIN pools = Inst
         /\ \A c \in {"boot", "retry"} : ens[c].pc # "idle" =>
              ens[c].todo \subseteq Files /\ IF ens[c].pc = "loop" THEN ens[c].now = None ELSE ens[c].now \in Files
         /\ ens["queue"].pc # "idle" =>
              /\ ens["queue"].todo \subseteq Inst \ Files
              /\ IF ens["queue"].pc = "loop" THEN ens["queue"].now = None ELSE ens["queue"].now \in Inst \ Files
<1>1. WorkerShape
  BY DEF Shapes
<1>2. \A c \in Callers : ens[c].pc # "idle" =>
        ens[c].todo \subseteq Mine(c) /\ IF ens[c].pc = "loop" THEN ens[c].now = None ELSE ens[c].now \in Mine(c)
  BY <1>1, ShapeOf
<1>3. None \notin Inst
  BY DEF ConfigAssumption
<1> QED
  BY <1>1, <1>2, <1>3 DEF Callers, Mine, Apart, Inst, WorkerShape

(* Nothing about the monitors changes but what their pollers do.            *)
SameEntries ==
    /\ DOMAIN entries' = DOMAIN entries
    /\ \A i \in DOMAIN entries :
         /\ entries'[i] = None <=> entries[i] = None
         /\ entries[i] # None => entries'[i].source = entries[i].source /\ entries'[i].sig = entries[i].sig

LEMMA MonitorsStill ==
  ASSUME ConfigAssumption, Shapes, Apart, MonitorInv, SameEntries, UNCHANGED <<awaiting, pools, ens>>
  PROVE  MonitorInv'
<1>0. Files \subseteq Inst /\ awaiting \subseteq Files /\ DOMAIN entries = Inst
  BY Places
<1>1. \A i : Closing(i)' <=> Closing(i)
  BY DEF Closing, At
<1>2. \A c \in Callers : ens[c].pc \in {"closing", "connecting", "starting"} => ens[c].now \in Inst
  BY ShapeOf, NamesInst DEF Shapes
<1>3. PoolsInv'
  BY <1>0, <1>1, <1>2 DEF MonitorInv, PoolsInv, SameEntries
<1>4. SourceInv'
  BY <1>0 DEF MonitorInv, SourceInv, SameEntries
<1>5. FileInv'
  BY <1>0 DEF MonitorInv, FileInv, SameEntries, HostConfigured, Waits, At
<1> QED
  BY <1>3, <1>4, <1>5 DEF MonitorInv

(* A caller moves on without touching a monitor.                            *)
LEMMA MonitorsMove ==
  ASSUME ConfigAssumption, Shapes, Apart, MonitorInv, SameEntries, UNCHANGED <<awaiting, pools>>,
         NEW c \in Callers, EnsOthers(c), ens'[c].pc \in {"idle", "loop"},
         ens[c].pc \in {"idle", "loop"} \/ (ens[c].pc = "starting"),
         ens'[c].pc = "idle" => ens'[c] = Idle,
         c # "queue" /\ ens'[c].pc = "loop" => ens'[c].now = None /\
            IF c = "retry" /\ ens[c].pc = "idle" THEN ens'[c].todo = awaiting ELSE ens[c].pc # "idle" /\ ens'[c].todo = ens[c].todo,
         c # "queue" /\ ens'[c].pc = "idle" => ens[c].pc = "loop" /\ ens[c].todo = {}
  PROVE  MonitorInv'
<1>0. /\ Files \subseteq Inst /\ awaiting \subseteq Files /\ DOMAIN entries = Inst /\ None \notin Inst
      /\ ens[c].pc = "loop" => ens[c].now = None
  BY Places DEF Callers
<1>1. \A d \in Callers : d # c => ens'[d] = ens[d]
  BY DEF EnsOthers
<1>2. \A i : Closing(i)' <=> Closing(i)
  BY <1>1 DEF Closing, At
<1>3. \A d \in Callers : ens[d].pc \in {"closing", "connecting", "starting"} => ens[d].now \in Inst
  BY ShapeOf, NamesInst DEF Shapes
<1>4. \A i \in Inst : entries'[i] = None <=> entries[i] = None
  BY <1>0 DEF SameEntries
<1>5. PoolsInv'
  BY <1>0, <1>1, <1>2, <1>3, <1>4 DEF MonitorInv, PoolsInv
<1>6. SourceInv'
  BY <1>0 DEF MonitorInv, SourceInv, SameEntries
<1>7. FileInv'
  <2> USE <1>0, <1>1, <1>4 DEF MonitorInv, Callers
  <2>1. \A f \in Files : Waits("boot", f)' \/ (At("boot", f) /\ ens["boot"].pc = "connecting")' =>
          Waits("boot", f) \/ (At("boot", f) /\ ens["boot"].pc = "connecting")
    BY DEF Waits, At
  <2>2. \A f \in Files : ~(Waits("boot", f) /\ At("boot", f))'
    BY DEF FileInv, Waits, At
  <2>3. (ens["retry"].pc # "idle" => ens["retry"].todo \subseteq awaiting)'
    BY DEF FileInv
  <2>4. (ens["retry"].pc = "connecting" => ens["retry"].now \in awaiting \ ens["retry"].todo)'
    BY DEF FileInv
  <2>5. HostConfigured'
    <3>1. ASSUME NEW f \in Files, entries[f] = None, f \notin awaiting
          PROVE  \E d \in {"boot", "retry"} : (ens[d] # Idle /\ (f \in ens[d].todo \/ ens[d].now = f))'
      <4>1. PICK d \in {"boot", "retry"} : ens[d] # Idle /\ (f \in ens[d].todo \/ ens[d].now = f)
        BY <3>1 DEF FileInv, HostConfigured
      <4>2. CASE d # c
        BY <4>1, <4>2
      <4>3. CASE d = c
        <5>1. ens[c].pc = "starting" => entries[ens[c].now] # None
          BY DEF PoolsInv
        <5>2. ens[c].pc # "idle"
          BY <4>1, <4>3 DEF Shapes, WorkerShape, EnsShape, About
        <5> QED
          BY <3>1, <4>1, <4>3, <5>1, <5>2 DEF Idle
      <4> QED
        BY <4>2, <4>3
    <3> QED
      BY <3>1 DEF HostConfigured
  <2> QED
    BY <2>1, <2>2, <2>3, <2>4, <2>5 DEF FileInv
<1> QED
  BY <1>5, <1>6, <1>7 DEF MonitorInv

LEMMA BeginKeepsMonitors ==
  ASSUME ConfigAssumption, Shapes, Apart, MonitorInv, NEW c \in Callers, NEW i \in Inst, EnsureBegin(c, i)
  PROVE  MonitorInv'
<1> USE DEF MonitorInv, Callers
<1>0. /\ Files \subseteq Inst /\ awaiting \subseteq Files /\ DOMAIN entries = Inst /\ None \notin Inst /\ DOMAIN pools = Inst
      /\ \A d \in {"boot", "retry"} : ens[d].pc # "idle" =>
           ens[d].todo \subseteq Files /\ IF ens[d].pc = "loop" THEN ens[d].now = None ELSE ens[d].now \in Files
      /\ ens["queue"].pc # "idle" => ens["queue"].todo \subseteq Inst \ Files
  BY Places
<1>1. /\ UNCHANGED <<entries, awaiting>> /\ ens[c].pc = "loop" /\ i \in ens[c].todo
      /\ Turned(c, Begun(i), i, ens[c].todo \ {i}, ens[c].results)
      /\ pools' = IF entries[i] # None THEN [pools EXCEPT ![i] = @ - 1] ELSE pools
  BY EnsureBegins
<1>2. \A d \in Callers : d # c => ens'[d] = ens[d]
  BY <1>1 DEF Turned, EnsOthers
<1>3. ens'[c].pc = Begun(i) /\ ens'[c].now = i /\ ens'[c].todo = ens[c].todo \ {i}
  BY <1>1 DEF Turned
<1>4. entries[i] # None => c = "queue" /\ i \notin Files /\ ~Closing(i)
  <2>1. c = "boot" => Waits("boot", i)
    BY <1>1 DEF Waits
  <2>2. c # "queue" => entries[i] = None
    BY <1>0, <1>1, <2>1 DEF FileInv
  <2>3. c = "queue" => i \notin Files /\ ~Closing(i)
    BY <1>0, <1>1 DEF PoolsInv, Closing, At
  <2> QED
    BY <2>2, <2>3
<1>5. PoolsInv'
  <2>1. \A j \in Inst \ {i} : Closing(j)' <=> Closing(j)
    BY <1>1, <1>2, <1>3 DEF Closing, At
  <2>2. CASE entries[i] = None
    <3>1. ~Closing(i) /\ ~Closing(i)'
      BY <1>1, <1>2, <1>3, <2>2 DEF Closing, At, PoolsInv, Begun
    <3> QED
      BY <1>0, <1>1, <1>2, <1>3, <2>1, <2>2, <3>1 DEF PoolsInv, Begun
  <2>3. CASE entries[i] # None
    <3>1. Closing(i)' /\ pools[i] = 1
      BY <1>3, <1>4, <2>3 DEF Closing, At, PoolsInv, Begun
    <3>2. pools'[i] = 0 /\ \A j \in Inst \ {i} : pools'[j] = pools[j]
      BY <1>0, <1>1, <2>3, <3>1
    <3> QED
      BY <1>0, <1>1, <1>2, <1>3, <1>4, <2>1, <2>3, <3>1, <3>2 DEF PoolsInv, Begun
  <2> QED
    BY <2>2, <2>3
<1>6. SourceInv'
  BY <1>1 DEF SourceInv
<1>7. FileInv'
  <2>1. \A f \in Files : Waits("boot", f)' \/ (At("boot", f) /\ ens["boot"].pc = "connecting")' =>
          f \notin awaiting /\ entries[f] = None
    BY <1>1, <1>2, <1>3 DEF FileInv, Waits, At
  <2>2. \A f \in Files : ~(Waits("boot", f) /\ At("boot", f))'
    BY <1>2, <1>3 DEF FileInv, Waits, At
  <2>3. (ens["retry"].pc # "idle" => ens["retry"].todo \subseteq awaiting)'
    BY <1>1, <1>2, <1>3 DEF FileInv
  <2>4. (ens["retry"].pc = "connecting" => ens["retry"].now \in awaiting \ ens["retry"].todo)'
    BY <1>1, <1>2, <1>3 DEF FileInv
  <2>5. HostConfigured'
    <3>1. \A d \in {"boot", "retry"}, f \in Files : ens[d] # Idle /\ (f \in ens[d].todo \/ ens[d].now = f)
            => (ens[d] # Idle /\ (f \in ens[d].todo \/ ens[d].now = f))'
      BY <1>0, <1>1, <1>2, <1>3 DEF Idle, Begun
    <3> QED
      BY <1>1, <3>1 DEF FileInv, HostConfigured
  <2> QED
    BY <1>1, <2>1, <2>2, <2>3, <2>4, <2>5 DEF FileInv
<1> QED
  BY <1>5, <1>6, <1>7

LEMMA CloseKeepsMonitors ==
  ASSUME ConfigAssumption, Shapes, Apart, MonitorInv, NEW c \in Callers, EnsureClosed(c)
  PROVE  MonitorInv'
<1> USE DEF MonitorInv, Callers
<1> DEFINE i == ens[c].now
<1>1. /\ UNCHANGED <<pools, awaiting>> /\ ens[c].pc = "closing" /\ i \in Inst
      /\ Turned(c, "connecting", i, ens[c].todo, ens[c].results)
      /\ entries' = [entries EXCEPT ![i] = None]
  BY EnsureCloses
<1>2. c = "queue"
  BY <1>1 DEF PoolsInv
<1>3. \A d \in Callers : d # c => ens'[d] = ens[d]
  BY <1>1 DEF Turned, EnsOthers
<1>4. ens'[c].pc = "connecting" /\ ens'[c].now = i
  BY <1>1 DEF Turned
<1>5. /\ Files \subseteq Inst /\ DOMAIN entries = Inst /\ i \notin Files /\ awaiting \subseteq Files
      /\ \A d \in {"boot", "retry"} : ens[d].pc \notin {"idle", "loop"} => ens[d].now \in Files
  BY <1>1, <1>2, Places
<1> HIDE DEF i
<1>6. /\ entries'[i] = None /\ \A j \in Inst \ {i} : entries'[j] = entries[j]
      /\ ens'["boot"] = ens["boot"] /\ ens'["retry"] = ens["retry"]
  BY <1>1, <1>2, <1>3, <1>5
<1>7. PoolsInv'
  <2>1. \A j \in Inst \ {i} : Closing(j)' <=> Closing(j)
    BY <1>2, <1>4, <1>6 DEF Closing, At, i
  <2>2. pools[i] = 0
    BY <1>1 DEF PoolsInv, Closing, At, i
  <2> QED
    BY <1>1, <1>2, <1>4, <1>5, <1>6, <2>1, <2>2 DEF PoolsInv
<1>8. SourceInv'
  BY <1>1, <1>6 DEF SourceInv
<1>9. FileInv'
  BY <1>1, <1>5, <1>6 DEF FileInv, HostConfigured, Waits, At
<1> QED
  BY <1>7, <1>8, <1>9

LEMMA FailKeepsMonitors ==
  ASSUME ConfigAssumption, Shapes, Apart, MonitorInv, NEW c \in Callers,
         NEW status \in {"auth_failed", "unreachable"}, EnsureFails(c, status)
  PROVE  MonitorInv'
<1> USE DEF MonitorInv, Callers
<1> DEFINE i == ens[c].now
<1>1. /\ UNCHANGED <<entries, pools>> /\ ens[c].pc = "connecting" /\ i \in Inst
      /\ Turned(c, "loop", None, ens[c].todo, OutcomeOf(c, i, status))
      /\ awaiting' = IF c = "queue" THEN awaiting ELSE awaiting \cup {i}
  BY EnsureFailed
<1>2. \A d \in Callers : d # c => ens'[d] = ens[d]
  BY <1>1 DEF Turned, EnsOthers
<1>3. ens'[c].pc = "loop" /\ ens'[c].now = None /\ ens'[c].todo = ens[c].todo
  BY <1>1 DEF Turned
<1>4. /\ Files \subseteq Inst /\ DOMAIN entries = Inst /\ awaiting \subseteq Files /\ None \notin Inst
      /\ c # "queue" => i \in Files
  BY <1>1, Places
<1>5. entries[i] = None
  BY <1>1 DEF PoolsInv
<1>6. PoolsInv'
  <2>1. \A j \in Inst : Closing(j)' <=> Closing(j)
    BY <1>1, <1>2, <1>3 DEF Closing, At
  <2> QED
    BY <1>1, <1>2, <1>3, <2>1 DEF PoolsInv
<1>7. SourceInv'
  BY <1>1 DEF SourceInv
<1> HIDE DEF i
<1>8. FileInv'
  <2>0. c = "boot" => i \notin ens["boot"].todo
    BY <1>1, <1>4 DEF FileInv, Waits, At, i
  <2>1. \A f \in Files : Waits("boot", f)' \/ (At("boot", f) /\ ens["boot"].pc = "connecting")' => f \notin awaiting' /\ entries[f] = None
    <3>1. CASE c = "boot"
      BY <1>1, <1>2, <1>3, <1>4, <2>0, <3>1 DEF FileInv, Waits, At
    <3>2. CASE c = "retry"
      BY <1>1, <1>2, <1>3, <1>4, <3>2 DEF FileInv, Waits, At, i
    <3>3. CASE c = "queue"
      BY <1>1, <1>2, <1>3, <1>4, <3>3 DEF FileInv, Waits, At
    <3> QED
      BY <3>1, <3>2, <3>3
  <2>2. \A f \in Files : ~(Waits("boot", f) /\ At("boot", f))'
    BY <1>2, <1>3, <1>4 DEF FileInv, Waits, At
  <2>3. (ens["retry"].pc # "idle" => ens["retry"].todo \subseteq awaiting)'
    BY <1>1, <1>2, <1>3 DEF FileInv
  <2>4. (ens["retry"].pc = "connecting" => ens["retry"].now \in awaiting \ ens["retry"].todo)'
    BY <1>1, <1>2, <1>3 DEF FileInv
  <2>5. \A f \in awaiting' : entries[f] = None
    BY <1>1, <1>5 DEF FileInv
  <2>6. HostConfigured'
    <3>1. \A d \in {"boot", "retry"}, f \in Files : ens[d] # Idle /\ (f \in ens[d].todo \/ ens[d].now = f)
            => f \in awaiting' \/ (ens[d] # Idle /\ (f \in ens[d].todo \/ ens[d].now = f))'
      BY <1>1, <1>2, <1>3 DEF Idle, i
    <3> QED
      BY <1>1, <3>1 DEF FileInv, HostConfigured
  <2> QED
    BY <1>1, <2>1, <2>2, <2>3, <2>4, <2>5, <2>6 DEF FileInv
<1> QED
  BY <1>6, <1>7, <1>8

LEMMA OpenKeepsMonitors ==
  ASSUME ConfigAssumption, Shapes, Apart, MonitorInv, NEW c \in Callers, EnsureConnected(c)
  PROVE  MonitorInv'
<1> USE DEF MonitorInv, Callers
<1> DEFINE i == ens[c].now
<1>1. /\ ens[c].pc = "connecting" /\ i \in Inst
      /\ \/ Turned(c, "starting", i, ens[c].todo, ens[c].results)
         \/ Turned(c, "loop", None, ens[c].todo, OutcomeOf(c, i, "connected"))
      /\ awaiting' = awaiting \ {i} /\ Started(c) # None
      /\ entries' = [entries EXCEPT ![i] = Started(c)] /\ pools' = [pools EXCEPT ![i] = @ + 1]
  BY EnsureConnects
<1>2. \A d \in Callers : d # c => ens'[d] = ens[d]
  BY <1>1 DEF Turned, EnsOthers
<1>3. /\ ens'[c].todo = ens[c].todo
      /\ (ens'[c].pc = "starting" /\ ens'[c].now = i) \/ (ens'[c].pc = "loop" /\ ens'[c].now = None)
  BY <1>1 DEF Turned
<1>4. /\ Files \subseteq Inst /\ DOMAIN entries = Inst /\ DOMAIN pools = Inst /\ awaiting \subseteq Files /\ None \notin Inst
      /\ IF c = "queue" THEN i \notin Files ELSE i \in Files
      /\ \A d \in {"boot", "retry"} : ens[d].pc \notin {"idle", "loop"} => ens[d].now \in Files
      /\ ens["queue"].pc \notin {"idle", "loop"} => ens["queue"].now \notin Files
  BY <1>1, Places
<1>5. entries[i] = None /\ pools[i] = 0
  BY <1>1 DEF PoolsInv
<1>6. Started(c).source = IF i \in Files THEN "file" ELSE "remote"
  BY <1>4 DEF Started, Source
<1> DEFINE e == Started(c)
<1>7. /\ entries'[i] = e /\ e # None /\ pools'[i] = 1
      /\ \A j \in Inst \ {i} : entries'[j] = entries[j] /\ pools'[j] = pools[j]
  BY <1>1, <1>4, <1>5
<1> HIDE DEF e
<1>8. \A d \in Callers : d # c /\ ens[d].pc = "connecting" => ens[d].now # i
  <2>1. ASSUME c = "boot" PROVE ens["retry"].pc = "connecting" => ens["retry"].now # i
    BY <1>1, <1>4, <2>1 DEF FileInv, At
  <2>2. ASSUME c = "retry" PROVE ens["boot"].pc = "connecting" => ens["boot"].now # i
    BY <1>1, <1>4, <2>2 DEF FileInv, At
  <2> QED
    BY <1>1, <1>4, <2>1, <2>2
<1>9. PoolsInv'
  <2>1. \A j \in Inst : Closing(j)' <=> Closing(j)
    BY <1>1, <1>2, <1>3 DEF Closing, At
  <2>2. ~Closing(i)
    BY <1>1, <1>4 DEF Closing, At, PoolsInv
  <2>3. \A j \in Inst : pools'[j] = IF entries'[j] = None \/ Closing(j)' THEN 0 ELSE 1
    BY <1>7, <2>1, <2>2 DEF PoolsInv
  <2>4. \A d \in Callers : d # c /\ ens[d].pc \in {"connecting", "starting", "closing"} => ens[d].now \in Inst
    BY ShapeOf, NamesInst DEF Shapes
  <2>5. \A d \in Callers : d # c =>
          /\ ens[d].pc = "closing" => d = "queue" /\ entries'[ens[d].now] # None
          /\ ens[d].pc = "connecting" => entries'[ens[d].now] = None
          /\ ens[d].pc = "starting" => entries'[ens[d].now] # None
    BY <1>7, <1>8, <2>4 DEF PoolsInv
  <2> QED
    BY <1>2, <1>3, <1>7, <2>3, <2>5 DEF PoolsInv
<1>10. SourceInv'
  BY <1>6, <1>7 DEF SourceInv, e
<1> HIDE DEF i
<1>11. FileInv'
  <2>0. c = "boot" => i \notin ens["boot"].todo /\ i \notin awaiting
    BY <1>1, <1>4 DEF FileInv, Waits, At, i
  <2>1. c = "retry" => i \in awaiting \ ens["retry"].todo
    BY <1>1 DEF FileInv, i
  <2>2. \A f \in Files : Waits("boot", f)' \/ (At("boot", f) /\ ens["boot"].pc = "connecting")' => f \notin awaiting' /\ entries'[f] = None
    <3>1. CASE c = "boot"
      BY <1>1, <1>2, <1>3, <1>4, <1>7, <2>0, <3>1 DEF FileInv, Waits, At
    <3>2. CASE c # "boot"
      BY <1>1, <1>2, <1>3, <1>4, <1>7, <2>1, <3>2 DEF FileInv, Waits, At
    <3> QED
      BY <3>1, <3>2
  <2>3. \A f \in Files : ~(Waits("boot", f) /\ At("boot", f))'
    BY <1>1, <1>2, <1>3, <1>4, <2>0 DEF FileInv, Waits, At
  <2>4. (ens["retry"].pc # "idle" => ens["retry"].todo \subseteq awaiting)'
    BY <1>1, <1>2, <1>3, <1>4, <2>0, <2>1 DEF FileInv
  <2>5. (ens["retry"].pc = "connecting" => ens["retry"].now \in awaiting \ ens["retry"].todo)'
    BY <1>1, <1>2, <1>3, <1>4, <2>0, <2>1, <1>8 DEF FileInv
  <2>6. \A f \in awaiting' : entries'[f] = None
    BY <1>1, <1>4, <1>7 DEF FileInv
  <2>7. HostConfigured'
    <3>1. \A d \in {"boot", "retry"}, f \in Files : ens[d] # Idle /\ (f \in ens[d].todo \/ ens[d].now = f)
            => entries'[f] # None \/ (ens[d] # Idle /\ (f \in ens[d].todo \/ ens[d].now = f))'
      BY <1>1, <1>2, <1>3, <1>7 DEF Idle, i
    <3> QED
      BY <1>1, <1>4, <1>7, <3>1 DEF FileInv, HostConfigured
  <2> QED
    BY <1>4, <2>2, <2>3, <2>4, <2>5, <2>6, <2>7 DEF FileInv
<1> QED
  BY <1>9, <1>10, <1>11

LEMMA EndKeepsMonitors ==
  ASSUME ConfigAssumption, Shapes, Apart, MonitorInv, ReconcileEnd
  PROVE  MonitorInv'
<1> USE DEF MonitorInv, Callers
<1>1. /\ ens["queue"].pc = "loop" /\ Rested("queue") /\ UNCHANGED awaiting
      /\ entries' = [i \in Inst |-> IF i \in Dropped THEN None ELSE entries[i]]
      /\ pools' = [i \in Inst |-> IF i \in Dropped THEN pools[i] - 1 ELSE pools[i]]
  BY ReconcileEnds
<1>2. ens'["boot"] = ens["boot"] /\ ens'["retry"] = ens["retry"] /\ ens'["queue"].pc = "idle"
  BY <1>1 DEF Rested, EnsOthers, Idle
<1>3. /\ Files \subseteq Inst /\ awaiting \subseteq Files
      /\ \A d \in {"boot", "retry"} : ens[d].pc \notin {"idle", "loop"} => ens[d].now \in Files
  BY Places
<1>4. \A i \in Dropped : i \in Inst \ Files /\ entries[i] # None
  BY DEF Dropped, SourceInv
<1>5. \A i \in Inst : ~Closing(i) /\ ~Closing(i)'
  BY <1>1, <1>2 DEF Closing, At, PoolsInv
<1>6. PoolsInv'
  BY <1>1, <1>2, <1>3, <1>4, <1>5 DEF PoolsInv
<1>7. SourceInv'
  BY <1>1 DEF SourceInv
<1>8. \A f \in Files : entries'[f] = entries[f]
  BY <1>1, <1>3, <1>4
<1>9. FileInv'
  BY <1>1, <1>2, <1>3, <1>8 DEF FileInv, HostConfigured, Waits, At
<1> QED
  BY <1>6, <1>7, <1>9

(* A process that starts has opened nothing and has all of worker.yaml ahead. *)
Blank ==
    /\ entries = [i \in Inst |-> None] /\ pools = [i \in Inst |-> 0] /\ awaiting = {}
    /\ ens = [c \in Callers |-> IF c = "boot" THEN [pc |-> "loop", now |-> None, todo |-> Files] ELSE Idle]
LEMMA BlankMonitors ==
  ASSUME ConfigAssumption, Blank
  PROVE  MonitorInv
<1>1. None \notin Inst /\ Files \subseteq Inst
  BY DEF ConfigAssumption, Inst
<1>2. /\ ens["boot"] = [pc |-> "loop", now |-> None, todo |-> Files]
      /\ ens["retry"] = Idle /\ ens["queue"] = Idle
  BY DEF Blank, Callers
<1>3. \A i \in Inst : entries[i] = None /\ pools[i] = 0
  BY DEF Blank
<1>4. PoolsInv
  BY <1>2, <1>3 DEF PoolsInv, Callers, Idle
<1>5. SourceInv
  BY <1>3 DEF SourceInv
<1>6. HostConfigured
  <2>1. ens["boot"] # Idle /\ Files \subseteq ens["boot"].todo
    BY <1>2 DEF Idle
  <2> QED
    BY <2>1 DEF HostConfigured
<1>7. FileInv
  BY <1>1, <1>2, <1>3, <1>6 DEF FileInv, Blank, Waits, At, Idle
<1> QED
  BY <1>4, <1>5, <1>7 DEF MonitorInv

LEMMA MovesKeepMonitors ==
  ASSUME ConfigAssumption, Shapes, Apart, MonitorInv
  PROVE  /\ ReconcileStart \/ RetryStart => MonitorInv'
         /\ \A i \in Inst : ReconcileSkip(i) => MonitorInv'
         /\ \A c \in Callers : LoopEnd(c) \/ EnsureStarted(c, TRUE) \/ EnsureStarted(c, FALSE) => MonitorInv'
<1>0. "queue" \in Callers /\ "retry" \in Callers
  BY DEF Callers
<1>1. ASSUME ReconcileStart PROVE MonitorInv'
  <2>1. EnsOthers("queue") /\ ens["queue"].pc = "idle" /\ ens'["queue"].pc = "loop"
    BY <1>1, ReconcileStartShape DEF Idle
  <2>2. SameEntries /\ UNCHANGED <<awaiting, pools>>
    BY <1>1 DEF ReconcileStart, SameEntries
  <2> QED
    BY <1>0, <2>1, <2>2, MonitorsMove
<1>2. ASSUME RetryStart PROVE MonitorInv'
  <2>1. /\ EnsOthers("retry") /\ ens["retry"].pc = "idle" /\ ens'["retry"].pc = "loop"
        /\ ens'["retry"].now = None /\ ens'["retry"].todo = awaiting
    BY <1>2, RetryStarts DEF Idle
  <2>2. SameEntries /\ UNCHANGED <<awaiting, pools>>
    BY <1>2 DEF RetryStart, SameEntries
  <2> QED
    BY <1>0, <2>1, <2>2, MonitorsMove
<1>3. ASSUME NEW i \in Inst, ReconcileSkip(i) PROVE MonitorInv'
  <2>1. EnsDom /\ EnsFields("queue")
    BY <1>0, FieldsOf DEF Shapes
  <2>2. EnsOthers("queue") /\ ens["queue"].pc = "loop" /\ ens'["queue"].pc = "loop"
    BY <1>3, <2>1, SkipTurns DEF Turned
  <2>3. SameEntries /\ UNCHANGED <<awaiting, pools>>
    BY <1>3 DEF ReconcileSkip, SameEntries
  <2> QED
    BY <1>0, <2>2, <2>3, MonitorsMove
<1>4. ASSUME NEW c \in Callers, LoopEnd(c) PROVE MonitorInv'
  <2>1. EnsOthers(c) /\ ens[c].pc = "loop" /\ ens'[c].pc = "idle" /\ ens'[c] = Idle /\ ens[c].todo = {}
    BY <1>4, LoopEnds DEF Rested, Idle
  <2>2. SameEntries /\ UNCHANGED <<awaiting, pools>>
    BY <1>4 DEF LoopEnd, SameEntries
  <2> QED
    BY <2>1, <2>2, MonitorsMove
<1>5. ASSUME NEW c \in Callers, NEW ok \in BOOLEAN, EnsureStarted(c, ok) PROVE MonitorInv'
  <2>1. /\ UNCHANGED <<awaiting, pools>>
        /\ ens[c].pc = "starting" /\ ens[c].now \in Inst
        /\ Turned(c, "loop", None, ens[c].todo, OutcomeOf(c, ens[c].now, "connected"))
        /\ entries' = IF ok /\ entries[ens[c].now] # None
                      THEN [entries EXCEPT ![ens[c].now].polling = TRUE] ELSE entries
    BY <1>5, EnsureStarts
  <2>2. EnsOthers(c) /\ ens'[c].pc = "loop" /\ ens'[c].now = None /\ ens'[c].todo = ens[c].todo
    BY <2>1 DEF Turned
  <2>3. SameEntries
    <3> DEFINE i == ens[c].now
    <3>1. entries \in [Inst -> Entry \cup {None}] /\ None \notin Entry
      BY DEF Shapes, WorkerShape, ConfigAssumption
    <3>2. CASE entries' = entries
      BY <3>2 DEF SameEntries
    <3>3. CASE entries[i] # None /\ entries' = [entries EXCEPT ![i].polling = TRUE]
      <4>1. entries[i] \in Entry
        BY <2>1, <3>1, <3>3
      <4> DEFINE e == [entries[i] EXCEPT !.polling = TRUE]
      <4>2. e \in Entry /\ e.source = entries[i].source /\ e.sig = entries[i].sig
        BY <4>1 DEF Entry
      <4>3. entries' = [entries EXCEPT ![i] = e]
        BY <3>3
      <4> HIDE DEF e, i
      <4> QED
        BY <3>1, <3>3, <4>2, <4>3 DEF SameEntries
    <3> QED
      BY <2>1, <3>2, <3>3
  <2> QED
    BY <2>1, <2>2, <2>3, MonitorsMove
<1> QED
  BY <1>1, <1>2, <1>3, <1>4, <1>5

LEMMA RegisterKeepsEntries ==
  ASSUME ConfigAssumption, Shapes, NEW s, HubRegister(s)
  PROVE  SameEntries /\ UNCHANGED <<awaiting, pools, ens>>
<1>1. entries \in [Inst -> Entry \cup {None}] /\ None \notin Entry
  BY DEF Shapes, WorkerShape, ConfigAssumption
<1>2. \A i \in Inst : entries[i] # None =>
        LET e == [entries[i] EXCEPT !.polling = TRUE] IN e # None /\ e.source = entries[i].source /\ e.sig = entries[i].sig
  <2>1. ASSUME NEW i \in Inst, entries[i] # None PROVE [entries[i] EXCEPT !.polling = TRUE] \in Entry
    BY <1>1, <2>1 DEF Entry
  <2> QED
    BY <1>1, <2>1 DEF Entry
<1>3. CASE entries' = entries
  BY <1>3 DEF SameEntries, HubRegister
<1>4. CASE entries' = [i \in Inst |-> IF entries[i] = None THEN None ELSE [entries[i] EXCEPT !.polling = TRUE]]
  BY <1>1, <1>2, <1>4 DEF SameEntries, HubRegister
<1> QED
  BY <1>3, <1>4 DEF HubRegister

LEMMA MonitorsStep ==
  ASSUME ConfigAssumption, Shapes, Apart, MonitorInv, [Next]_vars
  PROVE  MonitorInv'
<1> DEFINE Frame == UNCHANGED <<entries, awaiting, pools, ens>>
<1>1. Frame => MonitorInv'
  BY MonitorsStill DEF SameEntries
<1>2. ASSUME NEW r \in Reqs \cup Sess, PushRead(r) \/ PushSend(r) PROVE Frame
  BY <1>2 DEF PushRead, PushSend, workerVars
<1>3. ASSUME NEW r \in Reqs, Request(r) PROVE Frame
  <2>1. ASSUME NEW i \in Remotes, SealPassword(r, i) \/ Remove(r, i) PROVE Frame
    BY <2>1 DEF SealPassword, Remove, workerVars
  <2>2. ASSUME NEW i \in Remotes, NEW auth, SaveWithoutPassword(r, i, auth) PROVE Frame
    BY <2>2 DEF SaveWithoutPassword, workerVars
  <2>3. CheckKey(r) \/ Upsert(r) => Frame
    BY DEF CheckKey, Upsert, workerVars
  <2> QED
    BY <1>2, <1>3, <2>1, <2>2, <2>3 DEF Request
<1>4. ASSUME NEW s \in Sess, Hub(s) PROVE MonitorInv'
  <2>1. HubHello(s) \/ HubRekeyed(s) \/ HubStatus(s) \/ HubTeardown(s) => Frame
    BY DEF HubHello, HubRekeyed, HubStatus, HubTeardown, workerVars
  <2>2. HubRegister(s) => MonitorInv'
    BY RegisterKeepsEntries, MonitorsStill
  <2> QED
    BY <1>1, <1>2, <1>4, <2>1, <2>2 DEF Hub
<1>5. Connect \/ Disconnect \/ UNCHANGED vars => Frame
  BY DEF Connect, Disconnect, workerVars, vars
<1>6. ASSUME NEW lost, Restart(lost) PROVE MonitorInv'
  <2>1. Blank'
    BY <1>6 DEF Restart, Blank
  <2>2. (ConfigAssumption /\ Blank => MonitorInv)'
    BY BlankMonitors, PTL
  <2> QED
    BY <2>1, <2>2
<1>7. ReconcileEnd => MonitorInv'
  BY EndKeepsMonitors
<1>8. ASSUME NEW c \in Callers, Ensure(c) PROVE MonitorInv'
  BY <1>8, MovesKeepMonitors, BeginKeepsMonitors, CloseKeepsMonitors, OpenKeepsMonitors DEF Ensure
<1>9. ASSUME NEW c \in Callers, EnsureFailure(c) PROVE MonitorInv'
  BY <1>9, MovesKeepMonitors, FailKeepsMonitors DEF EnsureFailure
<1> HIDE DEF Frame
<1> QED
  BY <1>1, <1>3, <1>4, <1>5, <1>6, <1>7, <1>8, <1>9, MovesKeepMonitors DEF Next, Worker

LEMMA MonitorsKept ==
  ASSUME Apart
  PROVE  Spec => [](Shapes /\ MonitorInv)
<1> USE ConfigAssumption
<1>1. Init => Shapes /\ MonitorInv
  BY InitShape, BlankMonitors DEF Init, Blank
<1>2. (Shapes /\ MonitorInv) /\ [Next]_vars => (Shapes /\ MonitorInv)'
  BY ShapesStep, MonitorsStep
<1> QED
  BY <1>1, <1>2, PTL DEF Spec

-----------------------------------------------------------------------------
(* Sets in flight, and the saves they are of.                               *)
Kept == Copies' \subseteq Copies \cup {BuildInstanceConfigSet}
RevsKept == \A i \in Inst : table'[i] # None => table[i] # None /\ table'[i].rev = table[i].rev
SealedKept == \A t \in Reqs \cup Sess : Sealed(t)' => Sealed(t) /\ task'[t].rev = task[t].rev

LEMMA FreshKept ==
  ASSUME Shapes, FreshInv, SavedInv, Kept, RevsKept, SealedKept, saves' = saves \/ saves' = saves + 1
  PROVE  FreshInv' /\ SavedInv'
<1>0. saves \in Nat /\ 0..saves \subseteq 0..saves'
  BY ConfigAssumption DEF Shapes, ServerShape
<1>1. ASSUME NEW rev, Without(table, rev) PROVE Without(BuildInstanceConfigSet, rev)
  BY <1>1 DEF Without, BuildInstanceConfigSet
<1>2. UpTo(BuildInstanceConfigSet)
  BY DEF UpTo, SavedInv, BuildInstanceConfigSet
<1>3. FreshInv'
  <2> SUFFICES ASSUME NEW t \in Reqs \cup Sess, Sealed(t)'
               PROVE /\ task'[t].rev <= saves' /\ Without(table', task'[t].rev)
                     /\ \A u \in Reqs \cup Sess : Sealed(u)' /\ u # t => task'[u].rev # task'[t].rev
                     /\ \A set \in Copies' : Without(set, task'[t].rev)
    BY DEF FreshInv, Without
  <2>1. Sealed(t) /\ task'[t].rev = task[t].rev
    BY DEF SealedKept
  <2>2. task[t].rev \in Nat
    <3>1. task[t] \in Saving
      BY <2>1, TaskOf DEF Sealed, Shapes
    <3> QED
      BY <3>1, ConfigAssumption DEF Saving
  <2>3. task'[t].rev <= saves'
    BY <1>0, <2>1, <2>2 DEF FreshInv
  <2>4. Without(table', task'[t].rev)
    BY <2>1 DEF FreshInv, Without, RevsKept
  <2>5. \A u \in Reqs \cup Sess : Sealed(u)' /\ u # t => task'[u].rev # task'[t].rev
    BY <2>1 DEF FreshInv, SealedKept
  <2>6. \A set \in Copies' : Without(set, task'[t].rev)
    BY <1>1, <2>1 DEF FreshInv, Kept
  <2> QED
    BY <2>3, <2>4, <2>5, <2>6
<1>4. SavedInv'
  <2>1. UpTo(table)'
    BY <1>0 DEF SavedInv, UpTo, RevsKept
  <2>2. \A set \in Copies' : UpTo(set)
    BY <1>2 DEF SavedInv, Kept
  <2>3. \A set \in Copies' : \A i \in Inst : set[i] # None => set[i].rev \in 0..saves'
    BY <1>0, <2>2 DEF UpTo
  <2> QED
    BY <2>1, <2>3 DEF SavedInv, UpTo
<1> QED
  BY <1>3, <1>4

(* Which sets are in flight after a step.                                   *)
LEMMA SendCopiesTo ==
  ASSUME Shapes, NEW t \in Reqs \cup Sess, NEW x, task' = task \/ TaskTo(t, x)
  PROVE  /\ SendCopies' \subseteq SendCopies \cup {x.set}
         /\ x.pc # "send" => SendCopies' \subseteq SendCopies
<1>1. \A u \in Reqs \cup Sess : task'[u] = task[u] \/ task'[u] = x
  BY DEF Shapes, ServerShape, TaskTo
<1> QED
  BY <1>1 DEF SendCopies

LEMMA ServerCopies ==
  ASSUME Shapes, WorkerStill, NEW t \in Reqs \cup Sess, NEW x, task' = task \/ TaskTo(t, x),
         x.pc = "send" => x.set = BuildInstanceConfigSet
  PROVE  Kept
<1>1. HeldCopies' = HeldCopies /\ SentCopies' = SentCopies /\ KnownCopies' = KnownCopies
  BY DEF WorkerStill, workerVars, netVars, HeldCopies, SentCopies, KnownCopies
<1> QED
  BY <1>1, SendCopiesTo DEF Kept, Copies

(* A task that is not now a save is none that was not one.                  *)
LEMMA SealedTo ==
  ASSUME Shapes, NEW t \in Reqs \cup Sess, NEW x, task' = task \/ TaskTo(t, x),
         x.pc \in {"sealed", "checked"} => Sealed(t) /\ x.rev = task[t].rev
  PROVE  SealedKept
BY DEF Shapes, ServerShape, TaskTo, SealedKept, Sealed

(* A step of the control plane that is no save.                             *)
LEMMA ServerFresh ==
  ASSUME Shapes, FreshInv, SavedInv, WorkerStill, NEW t \in Reqs \cup Sess, NEW x, task' = task \/ TaskTo(t, x),
         x.pc = "send" => x.set = BuildInstanceConfigSet, RevsKept,
         x.pc \in {"sealed", "checked"} => Sealed(t) /\ x.rev = task[t].rev,
         saves' = saves \/ saves' = saves + 1
  PROVE  FreshInv' /\ SavedInv'
BY ServerCopies, SealedTo, FreshKept

(* A save begins.                                                           *)
LEMMA SealFresh ==
  ASSUME Shapes, FreshInv, SavedInv, WorkerStill, NEW t \in Reqs \cup Sess, NEW x, TaskTo(t, x),
         x.pc \in {"sealed", "checked"}, x.rev = saves + 1, saves' = saves + 1, UNCHANGED table
  PROVE  FreshInv' /\ SavedInv'
<1>0. saves \in Nat
  BY ConfigAssumption DEF Shapes, ServerShape
<1>1. Copies' \subseteq Copies
  <2>1. HeldCopies' = HeldCopies /\ SentCopies' = SentCopies /\ KnownCopies' = KnownCopies
    BY DEF WorkerStill, workerVars, netVars, HeldCopies, SentCopies, KnownCopies
  <2> QED
    BY <2>1, SendCopiesTo DEF Copies
<1>2. ASSUME NEW set, UpTo(set) PROVE Without(set, saves + 1) /\ \A i \in Inst : set[i] # None => set[i].rev \in 0..saves + 1
  BY <1>0, <1>2 DEF UpTo, Without
<1>3. SavedInv'
  BY <1>1, <1>2 DEF SavedInv, UpTo
<1>4. /\ task'[t] = x /\ \A u \in Reqs \cup Sess : u # t => task'[u] = task[u]
      /\ \A u \in Reqs \cup Sess : Sealed(u) => task[u].rev \in 0..saves
  <2>1. ASSUME NEW u \in Reqs \cup Sess, Sealed(u) PROVE task[u].rev \in 0..saves
    <3>1. task[u] \in Saving
      BY <2>1, TaskOf DEF Sealed, Shapes
    <3> QED
      BY <1>0, <2>1, <3>1, ConfigAssumption DEF Saving, FreshInv
  <2> QED
    BY <2>1 DEF Shapes, ServerShape, TaskTo
<1>5. FreshInv'
  <2> SUFFICES ASSUME NEW u \in Reqs \cup Sess, Sealed(u)'
               PROVE /\ task'[u].rev <= saves' /\ Without(table', task'[u].rev)
                     /\ \A v \in Reqs \cup Sess : Sealed(v)' /\ v # u => task'[v].rev # task'[u].rev
                     /\ \A set \in Copies' : Without(set, task'[u].rev)
    BY DEF FreshInv, Without
  <2>1. CASE u = t
    <3>1. task'[u].rev = saves + 1
      BY <1>4, <2>1
    <3>2. \A v \in Reqs \cup Sess : Sealed(v)' /\ v # u => task'[v].rev # saves + 1
      BY <1>0, <1>4, <2>1 DEF Sealed
    <3>3. \A set \in Copies' : Without(set, saves + 1)
      BY <1>1, <1>2 DEF SavedInv
    <3>4. Without(table', saves + 1)
      BY <1>2 DEF SavedInv
    <3> QED
      BY <1>0, <3>1, <3>2, <3>3, <3>4
  <2>2. CASE u # t
    <3>1. Sealed(u) /\ task'[u].rev = task[u].rev /\ task[u].rev \in 0..saves
      BY <1>4, <2>2 DEF Sealed
    <3>2. \A v \in Reqs \cup Sess : Sealed(v)' /\ v # u => task'[v].rev # task[u].rev
      BY <1>0, <1>4, <3>1 DEF Sealed, FreshInv
    <3>3. \A set \in Copies' : Without(set, task[u].rev)
      BY <1>1, <3>1 DEF FreshInv
    <3> QED
      BY <1>0, <3>1, <3>2, <3>3 DEF FreshInv, Without
  <2> QED
    BY <2>1, <2>2
<1> QED
  BY <1>3, <1>5

(* A save is stored.                                                        *)
LEMMA UpsertFresh ==
  ASSUME Shapes, FreshInv, SavedInv, NEW r \in Reqs, Upsert(r)
  PROVE  FreshInv' /\ SavedInv'
<1> DEFINE i == task[r].inst
<1> DEFINE row == Saved(table[i], task[r])
<1> DEFINE x == [pc |-> "push"]
<1>0. r \in Reqs \cup Sess /\ task[r] \in Saving /\ Sealed(r) /\ saves \in Nat
  <2>1. ServerShape /\ r \in Reqs \cup Sess /\ task[r].pc = "checked"
    BY DEF Shapes, Upsert
  <2>2. task[r] \in Saving
    BY <2>1, TaskOf
  <2> QED
    BY <2>1, <2>2, ConfigAssumption DEF ServerShape, Sealed
<1>1. /\ TaskTo(r, x) /\ WorkerStill /\ saves' = saves
      /\ table' = [table EXCEPT ![i] = row]
  BY DEF Upsert, TaskTo, WorkerStill
<1>2. row.rev = task[r].rev /\ task[r].rev \in 0..saves
  BY <1>0, ConfigAssumption DEF Saved, Saving, FreshInv
<1>3. Copies' \subseteq Copies
  <2>1. HeldCopies' = HeldCopies /\ SentCopies' = SentCopies /\ KnownCopies' = KnownCopies
    BY <1>1 DEF WorkerStill, workerVars, netVars, HeldCopies, SentCopies, KnownCopies
  <2>2. x.pc # "send"
    OBVIOUS
  <2> QED
    BY <1>0, <1>1, <2>1, <2>2, SendCopiesTo DEF Copies
<1>4. \A u \in Reqs \cup Sess : Sealed(u)' => u # r /\ Sealed(u) /\ task'[u] = task[u]
  <2>1. x.pc = "push" /\ \A u \in Reqs \cup Sess : task'[u] = IF u = r THEN x ELSE task[u]
    BY <1>0, <1>1 DEF Shapes, ServerShape, TaskTo
  <2> QED
    BY <2>1 DEF Sealed
<1> HIDE DEF i, row, x
<1>5. \A j \in Inst : table'[j] = table[j] \/ table'[j] = row
  BY <1>1 DEF Shapes, ServerShape
<1>6. FreshInv'
  <2> SUFFICES ASSUME NEW u \in Reqs \cup Sess, Sealed(u)'
               PROVE /\ task'[u].rev <= saves' /\ Without(table', task'[u].rev)
                     /\ \A v \in Reqs \cup Sess : Sealed(v)' /\ v # u => task'[v].rev # task'[u].rev
                     /\ \A set \in Copies' : Without(set, task'[u].rev)
    BY DEF FreshInv, Without
  <2>1. u # r /\ Sealed(u) /\ task'[u] = task[u]
    BY <1>4
  <2>2. task[u].rev # row.rev
    BY <1>0, <1>2, <2>1 DEF FreshInv
  <2>3. Without(table', task[u].rev)
    BY <1>5, <2>1, <2>2 DEF FreshInv, Without
  <2> QED
    BY <1>1, <1>3, <1>4, <2>1, <2>3 DEF FreshInv
<1>7. SavedInv'
  BY <1>1, <1>2, <1>3, <1>5 DEF SavedInv, UpTo
<1> QED
  BY <1>6, <1>7

LEMMA RequestFresh ==
  ASSUME Shapes, FreshInv, SavedInv, NEW r \in Reqs, Request(r), ~PushSend(r)
  PROVE  FreshInv' /\ SavedInv'
<1>0. r \in Reqs \cup Sess /\ ServerShape
  BY DEF Shapes
<1>1. ASSUME NEW i \in Remotes, SealPassword(r, i) PROVE FreshInv' /\ SavedInv'
  <2> DEFINE x == [pc |-> "sealed", inst |-> i, auth |-> "sql", rev |-> saves + 1, key |-> pub]
  <2>1. TaskTo(r, x) /\ WorkerStill /\ UNCHANGED table /\ saves' = saves + 1
    BY <1>1 DEF SealPassword, TaskTo, WorkerStill
  <2>2. x.pc \in {"sealed", "checked"} /\ x.rev = saves + 1
    OBVIOUS
  <2> HIDE DEF x
  <2> QED
    BY <1>0, <2>1, <2>2, SealFresh
<1>2. ASSUME NEW i \in Remotes, NEW auth, SaveWithoutPassword(r, i, auth) PROVE FreshInv' /\ SavedInv'
  <2> DEFINE x == [pc |-> "checked", inst |-> i, auth |-> auth, rev |-> saves + 1, key |-> 0]
  <2>1. TaskTo(r, x) /\ WorkerStill /\ UNCHANGED table /\ saves' = saves + 1
    BY <1>2 DEF SaveWithoutPassword, TaskTo, WorkerStill
  <2>2. x.pc \in {"sealed", "checked"} /\ x.rev = saves + 1
    OBVIOUS
  <2> HIDE DEF x
  <2> QED
    BY <1>0, <2>1, <2>2, SealFresh
<1>3. ASSUME NEW i \in Remotes, Remove(r, i) PROVE FreshInv' /\ SavedInv'
  <2> DEFINE x == [pc |-> "push"]
  <2>1. TaskTo(r, x) /\ WorkerStill /\ saves' = saves + 1 /\ table' = [table EXCEPT ![i] = None]
    BY <1>3 DEF Remove, TaskTo, WorkerStill
  <2>2. x.pc = "push" /\ RevsKept
    BY <1>0, <2>1 DEF RevsKept, ServerShape
  <2> HIDE DEF x
  <2> QED
    BY <1>0, <2>1, <2>2, ServerFresh
<1>4. CASE CheckKey(r)
  <2> DEFINE x == IF task[r].key # pub THEN Idle ELSE [task[r] EXCEPT !.pc = "checked"]
  <2>1. TaskTo(r, x) /\ WorkerStill /\ UNCHANGED <<table, saves>> /\ task[r].pc = "sealed"
    BY <1>4 DEF CheckKey, TaskTo, WorkerStill
  <2>2. task[r] \in Saving
    BY <1>0, <2>1, TaskOf
  <2>3. x.pc # "send" /\ (x.pc \in {"sealed", "checked"} => Sealed(r) /\ x.rev = task[r].rev)
    BY <2>1, <2>2 DEF Saving, Idle, Sealed
  <2>4. RevsKept
    BY <2>1 DEF RevsKept
  <2> HIDE DEF x
  <2> QED
    BY <1>0, <2>1, <2>3, <2>4, ServerFresh
<1>5. CASE Upsert(r)
  BY <1>5, UpsertFresh
<1>6. CASE PushRead(r)
  <2> DEFINE x == IF live = 0 THEN Idle ELSE [pc |-> "send", to |-> live, set |-> BuildInstanceConfigSet]
  <2>1. TaskTo(r, x) /\ WorkerStill /\ UNCHANGED <<table, saves>>
    BY <1>6 DEF PushRead, TaskTo, WorkerStill
  <2>2. x.pc \in {"idle", "send"} /\ (x.pc = "send" => x.set = BuildInstanceConfigSet) /\ RevsKept
    BY <2>1 DEF RevsKept, Idle
  <2> HIDE DEF x
  <2> QED
    BY <1>0, <2>1, <2>2, ServerFresh
<1> QED
  BY <1>1, <1>2, <1>3, <1>4, <1>5, <1>6 DEF Request

LEMMA HubServerFresh ==
  ASSUME Shapes, FreshInv, SavedInv, NEW s \in Sess, PushRead(s) \/ HubHello(s) \/ HubRekeyed(s) \/ HubTeardown(s)
  PROVE  FreshInv' /\ SavedInv'
<1>0. s \in Reqs \cup Sess /\ ServerShape
  BY DEF Shapes
<1>1. CASE PushRead(s)
  <2> DEFINE x == IF live = 0 THEN Idle ELSE [pc |-> "send", to |-> live, set |-> BuildInstanceConfigSet]
  <2>1. TaskTo(s, x) /\ WorkerStill /\ UNCHANGED <<table, saves>>
    BY <1>1 DEF PushRead, TaskTo, WorkerStill
  <2>2. x.pc \in {"idle", "send"} /\ (x.pc = "send" => x.set = BuildInstanceConfigSet) /\ RevsKept
    BY <2>1 DEF RevsKept, Idle
  <2> HIDE DEF x
  <2> QED
    BY <1>0, <2>1, <2>2, ServerFresh
<1>2. CASE HubHello(s)
  <2> DEFINE x == [pc |-> IF pub # 0 /\ pub # task[s].key THEN "rekeyed" ELSE "register"]
  <2>1. TaskTo(s, x) /\ WorkerStill /\ UNCHANGED <<table, saves>>
    BY <1>2 DEF HubHello, TaskTo, WorkerStill
  <2>2. x.pc \in {"rekeyed", "register"} /\ RevsKept
    BY <2>1 DEF RevsKept
  <2> HIDE DEF x
  <2> QED
    BY <1>0, <2>1, <2>2, ServerFresh
<1>3. CASE HubRekeyed(s)
  <2> DEFINE x == [pc |-> "register"]
  <2>1. TaskTo(s, x) /\ WorkerStill /\ UNCHANGED saves
    BY <1>3 DEF HubRekeyed, TaskTo, WorkerStill
  <2>2. ASSUME NEW i \in Inst, table'[i] # None PROVE table[i] # None /\ table'[i].rev = table[i].rev
    <3>1. table[i] \in Row \cup {None}
      BY <1>0 DEF ServerShape
    <3> QED
      BY <1>3, <2>2, <3>1 DEF HubRekeyed, Row
  <2>3. x.pc = "register" /\ RevsKept
    BY <2>2 DEF RevsKept
  <2> HIDE DEF x
  <2> QED
    BY <1>0, <2>1, <2>3, ServerFresh
<1>4. CASE HubTeardown(s)
  <2>1. task' = task /\ WorkerStill /\ UNCHANGED <<table, saves>>
    BY <1>4 DEF HubTeardown, WorkerStill
  <2>2. Idle.pc = "idle" /\ RevsKept
    BY <2>1 DEF RevsKept, Idle
  <2> QED
    BY <1>0, <2>1, <2>2, ServerFresh
<1> QED
  BY <1>1, <1>2, <1>3, <1>4

(* The other steps make no set.                                             *)
NoNewSet == Copies' \subseteq Copies
LEMMA NoNewSetFresh ==
  ASSUME Shapes, FreshInv, SavedInv, NoNewSet, RevsKept, SealedKept, UNCHANGED saves
  PROVE  FreshInv' /\ SavedInv'
BY FreshKept DEF NoNewSet, Kept

LEMMA PushSendFresh ==
  ASSUME Shapes, FreshInv, SavedInv, NEW t \in Reqs \cup Sess, PushSend(t)
  PROVE  FreshInv' /\ SavedInv'
<1>0. /\ ServerShape /\ wq \in Seq(Sets) /\ task[t].pc = "send" /\ TaskTo(t, Idle) /\ Idle.pc = "idle"
      /\ UNCHANGED <<table, saves, toServer, reported, ens>>
  BY DEF Shapes, WorkerShape, PushSend, TaskTo, netVars, Idle
<1>1. task[t].set \in Sets /\ task[t].set \in SendCopies
  BY <1>0, TaskOf DEF Sending, SendCopies
<1>2. HeldCopies' \subseteq HeldCopies \cup {task[t].set}
  <2>1. CASE wq' = wq
    BY <1>0, <2>1 DEF HeldCopies
  <2>2. CASE wq' = Append(wq, task[t].set)
    <3>1. \A n \in 1..Len(wq') : wq'[n] = task[t].set \/ (n \in 1..Len(wq) /\ wq'[n] = wq[n])
      BY <1>0, <1>1, <2>2, AppendProperties
    <3> QED
      BY <1>0, <3>1 DEF HeldCopies
  <2> QED
    BY <2>1, <2>2 DEF PushSend
<1>3. SendCopies' \subseteq SendCopies /\ SentCopies' = SentCopies /\ KnownCopies' = KnownCopies
  BY <1>0, SendCopiesTo DEF SentCopies, KnownCopies
<1>4. NoNewSet
  BY <1>1, <1>2, <1>3 DEF NoNewSet, Copies
<1>5. RevsKept /\ SealedKept
  BY <1>0, SealedTo DEF RevsKept
<1> QED
  BY <1>0, <1>4, <1>5, NoNewSetFresh

LEMMA SessionFresh ==
  ASSUME Shapes, FreshInv, SavedInv
  PROVE  /\ \A s \in Sess : HubRegister(s) => FreshInv' /\ SavedInv'
         /\ Connect => FreshInv' /\ SavedInv'
<1>1. ASSUME NEW s \in Sess, HubRegister(s) PROVE FreshInv' /\ SavedInv'
  <2> DEFINE x == [pc |-> "push"]
  <2>1. TaskTo(s, x) /\ UNCHANGED <<table, saves, toServer, reported, ens, wq>>
    BY <1>1 DEF HubRegister, TaskTo
  <2>2. x.pc = "push" /\ s \in Reqs \cup Sess
    OBVIOUS
  <2> HIDE DEF x
  <2>3. NoNewSet
    BY <2>1, <2>2, SendCopiesTo DEF NoNewSet, Copies, HeldCopies, SentCopies, KnownCopies
  <2>4. RevsKept /\ SealedKept
    BY <2>1, <2>2, SealedTo DEF RevsKept
  <2> QED
    BY <2>1, <2>3, <2>4, NoNewSetFresh
<1>2. ASSUME Connect PROVE FreshInv' /\ SavedInv'
  <2> DEFINE x == [pc |-> "hello", key |-> hostKey]
  <2>1. TaskTo(opened + 1, x) /\ UNCHANGED <<table, saves, toServer, reported, ens, wq>>
    BY <1>2 DEF Connect, TaskTo, workerVars
  <2>2. x.pc = "hello" /\ opened + 1 \in Reqs \cup Sess
    BY <1>2, ConfigAssumption DEF Connect, Sess, Shapes, NetShape
  <2> HIDE DEF x
  <2>3. NoNewSet
    BY <2>1, <2>2, SendCopiesTo DEF NoNewSet, Copies, HeldCopies, SentCopies, KnownCopies
  <2>4. RevsKept /\ SealedKept
    BY <2>1, <2>2, SealedTo DEF RevsKept
  <2> QED
    BY <2>1, <2>3, <2>4, NoNewSetFresh
<1> QED
  BY <1>1, <1>2

LEMMA DisconnectFresh ==
  ASSUME Shapes, FreshInv, SavedInv, Disconnect
  PROVE  FreshInv' /\ SavedInv'
<1>0. /\ UNCHANGED <<table, saves, reported, ens, wq>> /\ Idle.pc = "idle"
      /\ task' = task \/ TaskTo(link, Idle)
  BY DEF Disconnect, TaskTo, workerVars, Idle
<1>1. link \in Sess /\ link \in Reqs \cup Sess /\ toServer \in [Sess -> Seq(Msgs)]
  BY ConfigAssumption DEF Disconnect, Sess, Shapes, NetShape
<1>2. PICK n \in 0..Len(toServer[link]) : toServer' = [toServer EXCEPT ![link] = SubSeq(@, 1, n)]
  BY DEF Disconnect
<1> DEFINE cut == SubSeq(toServer[link], 1, n)
<1>3. toServer[link] \in Seq(Msgs) /\ Len(toServer[link]) \in Nat
  BY <1>1
<1>4. Len(cut) = n /\ \A k \in 1..n : k \in 1..Len(toServer[link]) /\ cut[k] = toServer[link][k]
  BY <1>2, <1>3
<1>5. \A s \in Sess : toServer'[s] = IF s = link THEN cut ELSE toServer[s]
  BY <1>1, <1>2
<1> HIDE DEF cut
<1>6. SentCopies' \subseteq SentCopies
  BY <1>1, <1>4, <1>5 DEF SentCopies
<1>7. NoNewSet
  BY <1>0, <1>1, <1>6, SendCopiesTo DEF NoNewSet, Copies, HeldCopies, KnownCopies
<1>8. RevsKept /\ SealedKept
  BY <1>0, <1>1, SealedTo DEF RevsKept
<1> QED
  BY <1>0, <1>7, <1>8, NoNewSetFresh

LEMMA StatusFresh ==
  ASSUME Shapes, FreshInv, SavedInv, NEW s \in Sess, HubStatus(s)
  PROVE  FreshInv' /\ SavedInv'
<1> DEFINE msg == Head(toServer[s])
<1>0. toServer \in [Sess -> Seq(Msgs)] /\ toServer[s] # <<>> /\ toServer[s] \in Seq(Msgs)
  BY DEF Shapes, NetShape, HubStatus
<1>1. /\ UNCHANGED <<task, saves, ens, wq>>
      /\ reported' = [sess |-> s, set |-> msg.set] /\ toServer' = [toServer EXCEPT ![s] = Tail(@)]
  BY DEF HubStatus, workerVars
<1>2. msg = toServer[s][1] /\ 1 \in 1..Len(toServer[s])
  BY <1>0
<1>3. Len(toServer[s]) \in Nat /\ Len(Tail(toServer[s])) = Len(toServer[s]) - 1
      /\ \A k \in 1..Len(Tail(toServer[s])) : k + 1 \in 1..Len(toServer[s]) /\ Tail(toServer[s])[k] = toServer[s][k + 1]
  BY <1>0, HeadTailProperties
<1>4. ASSUME NEW i \in Inst, table'[i] # None PROVE table[i] # None /\ table'[i].rev = table[i].rev
  <2>1. table[i] \in Row \cup {None}
    BY DEF Shapes, ServerShape
  <2> QED
    BY <1>4, <2>1 DEF HubStatus, Row
<1>5. \A u \in Sess : toServer'[u] = IF u = s THEN Tail(toServer[s]) ELSE toServer[u]
  BY <1>0, <1>1
<1>6. reported'.set = msg.set
  BY <1>1
<1> HIDE DEF msg
<1>7. SentCopies' \subseteq SentCopies
  <2>1. ASSUME NEW u \in Sess, NEW n \in 1..Len(toServer'[u]) PROVE toServer'[u][n].set \in SentCopies
    <3>1. CASE u = s
      <4>1. toServer'[u] = Tail(toServer[s])
        BY <1>5, <3>1
      <4>2. n + 1 \in 1..Len(toServer[s]) /\ toServer'[u][n] = toServer[s][n + 1]
        BY <1>3, <4>1
      <4> QED
        BY <4>2 DEF SentCopies
    <3>2. CASE u # s
      BY <1>5, <3>2 DEF SentCopies
    <3> QED
      BY <3>1, <3>2
  <2>2. \A u \in Sess : {toServer'[u][n].set : n \in 1..Len(toServer'[u])} \subseteq SentCopies
    BY <2>1
  <2> QED
    BY <2>2 DEF SentCopies
<1>8. KnownCopies' \subseteq SentCopies
  BY <1>2, <1>6 DEF SentCopies, KnownCopies
<1>9. NoNewSet
  BY <1>1, <1>7, <1>8 DEF NoNewSet, Copies, HeldCopies, SendCopies
<1>10. RevsKept /\ SealedKept
  BY <1>1, <1>4 DEF RevsKept, SealedKept, Sealed
<1> QED
  BY <1>1, <1>9, <1>10, NoNewSetFresh

(* The worker's steps.                                                      *)
LEMMA WorkerFresh ==
  ASSUME Shapes, FreshInv, SavedInv, UNCHANGED <<table, task, saves, reported>>,
         HeldCopies' \subseteq HeldCopies, SentCopies' \subseteq SentCopies \cup HeldCopies
  PROVE  FreshInv' /\ SavedInv'
<1>1. NoNewSet
  BY DEF NoNewSet, Copies, SendCopies, KnownCopies
<1> QED
  BY <1>1, NoNewSetFresh DEF RevsKept, SealedKept, Sealed

LEMMA RestartFresh ==
  ASSUME Shapes, FreshInv, SavedInv, NEW lost, Restart(lost)
  PROVE  FreshInv' /\ SavedInv'
<1>1. wq' = <<>> /\ ens'["queue"].pc = "idle" /\ UNCHANGED <<table, task, saves, reported, toServer>>
  BY DEF Restart, serverVars, Callers, Idle
<1>2. HeldCopies' = {} /\ SentCopies' = SentCopies
  BY <1>1 DEF HeldCopies, SentCopies
<1> QED
  BY <1>1, <1>2, WorkerFresh

LEMMA ReconcileFresh ==
  ASSUME Shapes, FreshInv, SavedInv, ReconcileStart \/ ReconcileEnd
  PROVE  FreshInv' /\ SavedInv'
<1>0. wq \in Seq(Sets) /\ toServer \in [Sess -> Seq(Msgs)] /\ DOMAIN ens = Callers /\ "queue" \in Callers
  BY DEF Shapes, WorkerShape, NetShape, Callers
<1>1. CASE ReconcileStart
  <2>1. ens' = [ens EXCEPT !["queue"] = [pc |-> "loop", now |-> None, set |-> Head(wq), results |-> <<>>,
                                         todo |-> {i \in Inst : Head(wq)[i] # None}]]
        /\ wq # <<>> /\ wq' = Tail(wq) /\ UNCHANGED <<table, task, saves, reported, toServer>>
    BY <1>1 DEF ReconcileStart, serverVars, netVars
  <2>2. ens'["queue"].set = wq[1] /\ 1 \in 1..Len(wq)
    BY <1>0, <2>1
  <2>3. \A n \in 1..Len(Tail(wq)) : n + 1 \in 1..Len(wq) /\ Tail(wq)[n] = wq[n + 1]
    BY <1>0, <2>1, HeadTailProperties
  <2>4. HeldCopies' \subseteq HeldCopies
    BY <2>1, <2>2, <2>3 DEF HeldCopies
  <2>5. SentCopies' = SentCopies
    BY <2>1 DEF SentCopies
  <2> QED
    BY <2>1, <2>4, <2>5, WorkerFresh
<1>2. CASE ReconcileEnd
  <2> DEFINE q == ens["queue"]
  <2> DEFINE m == [set |-> q.set, results |-> q.results]
  <2>1. /\ q.pc = "loop" /\ ens'["queue"].pc = "idle" /\ UNCHANGED <<table, task, saves, reported, wq>>
        /\ toServer' = IF acked THEN [toServer EXCEPT ![link] = Append(@, m)] ELSE toServer
    BY <1>2, ReconcileEnds DEF Rested, Idle, serverVars
  <2>2. m.set = q.set /\ q.set \in HeldCopies
    BY <2>1 DEF HeldCopies
  <2> HIDE DEF m
  <2>3. HeldCopies' \subseteq HeldCopies
    BY <2>1 DEF HeldCopies
  <2>4. ASSUME NEW s \in Sess PROVE {toServer'[s][n].set : n \in 1..Len(toServer'[s])} \subseteq SentCopies \cup HeldCopies
    <3>1. CASE toServer'[s] = toServer[s]
      BY <3>1 DEF SentCopies
    <3>2. CASE toServer'[s] = Append(toServer[s], m)
      <4>1. toServer[s] \in Seq(Msgs) /\ Len(toServer[s]) \in Nat
        BY <1>0
      <4>2. Len(toServer'[s]) = Len(toServer[s]) + 1
        BY <3>2, <4>1
      <4>3. \A n \in 1..Len(toServer'[s]) : toServer'[s][n] = m \/ (n \in 1..Len(toServer[s]) /\ toServer'[s][n] = toServer[s][n])
        BY <3>2, <4>1, <4>2
      <4> QED
        BY <2>2, <4>3 DEF SentCopies
    <3> QED
      BY <1>0, <2>1, <3>1, <3>2
  <2>5. SentCopies' \subseteq SentCopies \cup HeldCopies
    BY <2>4 DEF SentCopies
  <2> QED
    BY <2>1, <2>3, <2>5, WorkerFresh
<1> QED
  BY <1>1, <1>2

(* A caller that is under way keeps its set.                                *)
LEMMA QueueSetFresh ==
  ASSUME Shapes, FreshInv, SavedInv, UNCHANGED <<table, task, saves, reported, toServer, wq>>,
         NEW c \in Callers, EnsOthers(c),
         c = "queue" /\ ens'[c].pc # "idle" => ens[c].pc # "idle" /\ ens'[c].set = ens[c].set
  PROVE  FreshInv' /\ SavedInv'
<1>1. ens'["queue"].pc # "idle" => ens["queue"].pc # "idle" /\ ens'["queue"].set = ens["queue"].set
  BY DEF EnsOthers, Callers
<1>2. HeldCopies' \subseteq HeldCopies
  BY <1>1 DEF HeldCopies
<1>3. SentCopies' = SentCopies
  BY DEF SentCopies
<1> QED
  BY <1>2, <1>3, WorkerFresh

LEMMA TurnedFresh ==
  ASSUME Shapes, FreshInv, SavedInv, OnlyEns, NEW c \in Callers, ens[c].pc # "idle",
         NEW pc, NEW now, NEW todo, NEW results, Turned(c, pc, now, todo, results)
  PROVE  FreshInv' /\ SavedInv'
BY QueueSetFresh DEF Turned, OnlyEns, serverVars, netVars

LEMMA FreshStep ==
  ASSUME ConfigAssumption, Shapes, FreshInv, SavedInv, [Next]_vars
  PROVE  FreshInv' /\ SavedInv'
<1> DEFINE Goal == FreshInv' /\ SavedInv'
<1>1. ASSUME NEW r \in Reqs, Request(r) PROVE Goal
  BY <1>1, RequestFresh, PushSendFresh
<1>2. ASSUME NEW s \in Sess, Hub(s) PROVE Goal
  BY <1>2, HubServerFresh, SessionFresh, StatusFresh, PushSendFresh DEF Hub
<1>3. Connect \/ Disconnect => Goal
  BY SessionFresh, DisconnectFresh
<1>4. ASSUME NEW lost, Restart(lost) PROVE Goal
  BY <1>4, RestartFresh
<1>5. ASSUME NEW i \in Inst, ReconcileSkip(i) PROVE Goal
  <2>1. "queue" \in Callers /\ EnsDom /\ EnsFields("queue")
    BY FieldsOf DEF Shapes, Callers
  <2>2. ens["queue"].pc = "loop" /\ EnsOthers("queue") /\ ens'["queue"].set = ens["queue"].set
    BY <1>5, <2>1, SkipTurns DEF Turned
  <2>3. UNCHANGED <<table, task, saves, reported, toServer, wq>>
    BY <1>5 DEF ReconcileSkip, serverVars, netVars
  <2> QED
    BY <2>1, <2>2, <2>3, QueueSetFresh
<1>6. ASSUME RetryStart PROVE Goal
  <2>1. "retry" \in Callers /\ EnsOthers("retry") /\ UNCHANGED <<table, task, saves, reported, toServer, wq>>
    BY <1>6, RetryStarts DEF Callers, serverVars, netVars
  <2> QED
    BY <2>1, QueueSetFresh
<1>7. ReconcileStart \/ ReconcileEnd => Goal
  BY ReconcileFresh
<1>8. ASSUME NEW c \in Callers, LoopEnd(c) PROVE Goal
  <2>1. c # "queue" /\ EnsOthers(c) /\ UNCHANGED <<table, task, saves, reported, toServer, wq>>
    BY <1>8, LoopEnds DEF Rested, serverVars, netVars
  <2> QED
    BY <2>1, QueueSetFresh
<1>9. ASSUME NEW c \in Callers, NEW i \in Inst, EnsureBegin(c, i) PROVE Goal
  <2>1. OnlyEns /\ ens[c].pc = "loop" /\ Turned(c, Begun(i), i, ens[c].todo \ {i}, ens[c].results)
    BY <1>9, EnsureBegins
  <2> QED
    BY <2>1, TurnedFresh
<1>10. ASSUME NEW c \in Callers, EnsureClosed(c) PROVE Goal
  <2>1. OnlyEns /\ ens[c].pc = "closing" /\ Turned(c, "connecting", ens[c].now, ens[c].todo, ens[c].results)
    BY <1>10, EnsureCloses
  <2> QED
    BY <2>1, TurnedFresh
<1>11. ASSUME NEW c \in Callers, EnsureConnected(c) PROVE Goal
  <2>1. /\ OnlyEns /\ ens[c].pc = "connecting"
        /\ \/ Turned(c, "starting", ens[c].now, ens[c].todo, ens[c].results)
           \/ Turned(c, "loop", None, ens[c].todo, OutcomeOf(c, ens[c].now, "connected"))
    BY <1>11, EnsureConnects
  <2>2. CASE Turned(c, "starting", ens[c].now, ens[c].todo, ens[c].results)
    BY <2>1, <2>2, TurnedFresh
  <2>3. CASE Turned(c, "loop", None, ens[c].todo, OutcomeOf(c, ens[c].now, "connected"))
    BY <2>1, <2>3, TurnedFresh
  <2> QED
    BY <2>1, <2>2, <2>3
<1>12. ASSUME NEW c \in Callers, NEW ok \in BOOLEAN, EnsureStarted(c, ok) PROVE Goal
  <2>1. /\ OnlyEns /\ ens[c].pc = "starting"
        /\ Turned(c, "loop", None, ens[c].todo, OutcomeOf(c, ens[c].now, "connected"))
    BY <1>12, EnsureStarts
  <2> QED
    BY <2>1, TurnedFresh
<1>13. ASSUME NEW c \in Callers, NEW status \in {"auth_failed", "unreachable"}, EnsureFails(c, status) PROVE Goal
  <2>1. /\ OnlyEns /\ ens[c].pc = "connecting"
        /\ Turned(c, "loop", None, ens[c].todo, OutcomeOf(c, ens[c].now, status))
    BY <1>13, EnsureFailed
  <2> QED
    BY <2>1, TurnedFresh
<1>14. ASSUME UNCHANGED vars PROVE Goal
  <2>1. UNCHANGED <<table, task, saves, reported, toServer, wq, ens>>
    BY <1>14 DEF vars, serverVars, workerVars, netVars
  <2>2. HeldCopies' = HeldCopies /\ SentCopies' = SentCopies
    BY <2>1 DEF HeldCopies, SentCopies
  <2> QED
    BY <2>1, <2>2, WorkerFresh
<1> HIDE DEF Goal
<1>15. ASSUME NEW c \in Callers, Ensure(c) PROVE Goal
  BY <1>8, <1>9, <1>10, <1>11, <1>12, <1>15 DEF Ensure
<1>16. ASSUME NEW c \in Callers, EnsureFailure(c) PROVE Goal
  BY <1>12, <1>13, <1>16 DEF EnsureFailure
<1>17. Worker => Goal
  BY <1>5, <1>6, <1>7 DEF Worker
<1>18. Next => Goal
  BY <1>1, <1>2, <1>3, <1>4, <1>15, <1>16, <1>17 DEF Next
<1>19. Goal
  BY <1>14, <1>18
<1> QED
  BY <1>19 DEF Goal

-----------------------------------------------------------------------------
(* Reports and sessions.                                                    *)
NetSame == UNCHANGED <<toServer, link, opened, acked, reported>>
LEMMA ReportStep ==
  ASSUME ConfigAssumption, Shapes, ReportInv, [Next]_vars
  PROVE  ReportInv'
<1>0. NetShape
  BY DEF Shapes
<1>1. NetSame => ReportInv'
  BY DEF NetSame, ReportInv
<1>2. ASSUME NEW t, PushRead(t) \/ PushSend(t) PROVE NetSame
  BY <1>2 DEF PushRead, PushSend, netVars, NetSame
<1>3. ASSUME NEW r \in Reqs, Request(r) PROVE NetSame
  <2>1. ASSUME NEW i, SealPassword(r, i) \/ Remove(r, i) PROVE NetSame
    BY <2>1 DEF SealPassword, Remove, netVars, NetSame
  <2>2. ASSUME NEW i, NEW auth, SaveWithoutPassword(r, i, auth) PROVE NetSame
    BY <2>2 DEF SaveWithoutPassword, netVars, NetSame
  <2>3. CheckKey(r) \/ Upsert(r) => NetSame
    BY DEF CheckKey, Upsert, netVars, NetSame
  <2> QED
    BY <1>2, <1>3, <2>1, <2>2, <2>3 DEF Request
<1>4. ASSUME NEW s \in Sess, Hub(s) PROVE ReportInv'
  <2>1. HubHello(s) \/ HubRekeyed(s) \/ HubTeardown(s) => NetSame
    BY DEF HubHello, HubRekeyed, HubTeardown, netVars, NetSame
  <2>2. ASSUME HubRegister(s) PROVE ReportInv'
    <3>1. UNCHANGED <<toServer, link, opened, reported>> /\ (acked' = acked \/ link = s) /\ s # 0
      BY <2>2 DEF HubRegister, Sess
    <3>2. link # s => acked' = acked
      BY <2>2 DEF HubRegister
    <3>3. link = s => acked' = TRUE
      BY <2>2 DEF HubRegister
    <3> QED
      BY <3>1, <3>2, <3>3 DEF ReportInv
  <2>3. ASSUME HubStatus(s) PROVE ReportInv'
    <3>1. /\ toServer[s] # <<>> /\ reported' = [sess |-> s, set |-> Head(toServer[s]).set]
          /\ toServer' = [toServer EXCEPT ![s] = Tail(@)] /\ UNCHANGED <<link, opened, acked>>
      BY <2>3 DEF HubStatus
    <3>2. s <= opened /\ (link # 0 /\ ~acked => link # s) /\ reported'.sess = s
      BY <1>0, <3>1 DEF ReportInv, NetShape, Sess
    <3>3. \A x \in Sess : x # s => toServer'[x] = toServer[x]
      BY <1>0, <3>1 DEF NetShape
    <3>4. link # 0 => link \in Sess
      BY <1>0, ConfigAssumption DEF NetShape, Sess
    <3>5. \A x \in Sess : x > opened => x # s
      BY <1>0, <3>2, ConfigAssumption DEF NetShape, Sess
    <3> QED
      BY <3>1, <3>2, <3>3, <3>4, <3>5 DEF ReportInv
  <2> QED
    BY <1>1, <1>2, <1>4, <2>1, <2>2, <2>3 DEF Hub
<1>5. ASSUME Connect PROVE ReportInv'
  <2>1. /\ link' = opened + 1 /\ opened' = opened + 1 /\ acked' = FALSE /\ UNCHANGED <<toServer, reported>>
        /\ opened \in 0..MaxSessions /\ opened < MaxSessions
    BY <1>0, <1>5 DEF Connect, NetShape
  <2>2. link' \in Sess /\ link' > opened /\ toServer[link'] = <<>>
    BY <2>1, ConfigAssumption DEF ReportInv, Sess
  <2>3. \A s \in Sess : s > opened' => s > opened
    BY <2>1, ConfigAssumption DEF Sess
  <2>4. reported # None => reported.sess \in Nat /\ reported.sess <= opened
    BY <1>0, ConfigAssumption DEF ReportInv, NetShape, Report, Sess
  <2> QED
    BY <2>1, <2>2, <2>3, <2>4 DEF ReportInv
<1>6. ASSUME Disconnect PROVE ReportInv'
  <2>1. link' = 0 /\ acked' = FALSE /\ link # 0 /\ UNCHANGED <<opened, reported>>
    BY <1>6 DEF Disconnect
  <2>2. PICK n \in 0..Len(toServer[link]) : toServer' = [toServer EXCEPT ![link] = SubSeq(@, 1, n)]
    BY <1>6 DEF Disconnect
  <2>3. \A s \in Sess : s > opened => s # link /\ toServer'[s] = toServer[s]
    BY <1>0, <2>1, <2>2 DEF NetShape, Sess
  <2> QED
    BY <2>1, <2>3 DEF ReportInv
<1>7. ASSUME NEW lost, Restart(lost) PROVE ReportInv'
  BY <1>7 DEF Restart, ReportInv
<1>8. ASSUME ReconcileEnd PROVE ReportInv'
  <2>1. UNCHANGED <<link, opened, acked, reported>> /\ (~acked => toServer' = toServer)
    BY <1>8, ReconcileEnds
  <2>2. acked => \A s \in Sess : s # link => toServer'[s] = toServer[s]
    BY <1>0, <1>8, ReconcileEnds DEF NetShape
  <2>3. \A s \in Sess : s > opened => s # link
    BY <1>0 DEF NetShape, Sess
  <2> QED
    BY <2>1, <2>2, <2>3 DEF ReportInv
<1>9. ReconcileStart \/ RetryStart => NetSame
  BY DEF ReconcileStart, RetryStart, netVars, NetSame
<1>10. ASSUME NEW i, ReconcileSkip(i) PROVE NetSame
  BY <1>10 DEF ReconcileSkip, netVars, NetSame
<1>11. ASSUME NEW c, Ensure(c) \/ EnsureFailure(c) PROVE NetSame
  BY <1>11 DEF Ensure, EnsureFailure, EnsureBegin, EnsureClosed, EnsureConnected, EnsureStarted, EnsureFails, LoopEnd,
     netVars, NetSame
<1>12. UNCHANGED vars => NetSame
  BY DEF vars, netVars, NetSame
<1> QED
  BY <1>1, <1>3, <1>4, <1>5, <1>6, <1>7, <1>8, <1>9, <1>10, <1>11, <1>12 DEF Next, Worker

-----------------------------------------------------------------------------
(* What is said of the dashboard's instances.                               *)
SaidInv == RemoteInv /\ QueueInv /\ SentInv /\ HandledInv
OwnSame ==
    \A i \in Inst \ Files :
        /\ entries'[i] = None <=> entries[i] = None
        /\ entries[i] # None => entries'[i].source = entries[i].source /\ entries'[i].sig = entries[i].sig
QueueSame == ens'["queue"] = ens["queue"] /\ hostKey' = hostKey

LEMMA FitsStill ==
  ASSUME OwnSame, hostKey' = hostKey, NEW i \in Inst \ Files
  PROVE  /\ \A status, c : Fits(status, c, i) => Fits(status, c, i)'
         /\ \A msg : FitsMsg(msg, i) => FitsMsg(msg, i)'
<1>1. ASSUME NEW status, NEW c, Fits(status, c, i) PROVE Fits(status, c, i)'
  BY <1>1 DEF Fits, OwnSame, Sealable
<1>2. ASSUME NEW msg, FitsMsg(msg, i) PROVE FitsMsg(msg, i)'
  BY <1>2 DEF FitsMsg, Fits, OwnSame, Sealable
<1> QED
  BY <1>1, <1>2

LEMMA QueueStill ==
  ASSUME RemoteInv, QueueInv, OwnSame, QueueSame
  PROVE  RemoteInv' /\ QueueInv'
<1>1. RemoteInv'
  BY DEF RemoteInv, OwnSame
<1>2. ASSUME ens["queue"].pc # "idle", NEW i \in Inst \ Files
      PROVE  LET q == ens["queue"] IN
             /\ q.set[i] = None => i \notin q.todo /\ q.now # i
             /\ q.set[i] # None /\ i \notin q.todo /\ q.now # i => FitsMsg(q, i)'
             /\ q.now = i => Sealable(q.set[i])' /\ i \notin q.todo
             /\ q.now = i /\ q.pc = "starting" => entries'[i] # None /\ entries'[i].sig = q.set[i].rev
  <2> DEFINE q == ens["queue"]
  <2>1. /\ q.set[i] = None => i \notin q.todo /\ q.now # i
        /\ q.set[i] # None /\ i \notin q.todo /\ q.now # i => FitsMsg(q, i)
        /\ q.now = i => Sealable(q.set[i]) /\ i \notin q.todo
        /\ q.now = i /\ q.pc = "starting" => entries[i] # None /\ entries[i].sig = q.set[i].rev
    BY <1>2 DEF QueueInv
  <2>2. FitsMsg(q, i) => FitsMsg(q, i)'
    BY DEF FitsMsg, Fits, OwnSame, Sealable, QueueSame
  <2>3. Sealable(q.set[i]) => Sealable(q.set[i])'
    BY DEF Sealable, QueueSame
  <2> QED
    BY <2>1, <2>2, <2>3 DEF OwnSame, QueueSame
<1>3. QueueInv'
  BY <1>2 DEF QueueInv, QueueSame
<1> QED
  BY <1>1, <1>3

LEMMA SentStill ==
  ASSUME SentInv, OwnSame, QueueSame, UNCHANGED <<toServer, link>>
  PROVE  SentInv'
<1>1. ASSUME link # 0, ens["queue"].pc = "idle", toServer[link] # <<>>, NEW i \in Inst \ Files
      PROVE  FitsMsg(toServer[link][Len(toServer[link])], i)'
  <2>1. FitsMsg(toServer[link][Len(toServer[link])], i)
    BY <1>1 DEF SentInv
  <2> QED
    BY <2>1, <1>1 DEF FitsMsg, Fits, OwnSame, Sealable, QueueSame
<1> QED
  BY <1>1 DEF SentInv, QueueSame

(* The rows a step changes are ones the last report is not about, or say    *)
(* what is so.                                                              *)
RowsFit ==
    \A i \in Inst \ Files :
        \/ table'[i] = table[i] \/ table'[i] = None
        \/ reported = None \/ reported.set[i] # BuildInstanceConfigSet'[i]
        \/ table'[i].status = "awaiting_credentials"

LEMMA HandledStill ==
  ASSUME Shapes, HandledInv, OwnSame, QueueSame, RowsFit, UNCHANGED <<toServer, link, reported>>
  PROVE  HandledInv'
<1>1. ASSUME link # 0, ens["queue"].pc = "idle", toServer[link] = <<>>, reported # None, reported.sess = link,
             NEW i \in Inst \ Files
      PROVE  /\ reported.set[i] = None => entries'[i] = None
             /\ table'[i] # None /\ reported.set[i] = BuildInstanceConfigSet'[i] => Fits(table[i].status, table[i], i)'
  <2>0. /\ reported.set[i] = None => entries[i] = None
        /\ table[i] # None /\ reported.set[i] = BuildInstanceConfigSet[i] => Fits(table[i].status, table[i], i)
    BY <1>1 DEF HandledInv
  <2>1. reported.set[i] = None => entries'[i] = None
    BY <2>0 DEF OwnSame
  <2>2. ASSUME table'[i] # None, reported.set[i] = BuildInstanceConfigSet'[i]
        PROVE  Fits(table[i].status, table[i], i)'
    <3>1. CASE table'[i] = table[i]
      <4>1. BuildInstanceConfigSet'[i] = BuildInstanceConfigSet[i]
        BY <3>1 DEF BuildInstanceConfigSet
      <4>2. Fits(table[i].status, table[i], i)
        BY <2>0, <2>2, <3>1, <4>1
      <4> QED
        BY <3>1, <4>2 DEF Fits, OwnSame, Sealable, QueueSame
    <3>2. CASE table'[i].status = "awaiting_credentials"
      BY <3>2 DEF Fits
    <3> QED
      BY <1>1, <2>2, <3>1, <3>2 DEF RowsFit
  <2> QED
    BY <2>1, <2>2
<1> QED
  BY <1>1 DEF HandledInv, QueueSame

LEMMA SaidStill ==
  ASSUME Shapes, SaidInv, OwnSame, QueueSame, RowsFit, UNCHANGED <<toServer, link, reported>>
  PROVE  SaidInv'
BY QueueStill, SentStill, HandledStill DEF SaidInv

LEMMA ServerSaid ==
  ASSUME Shapes, SaidInv, WorkerStill, RowsFit
  PROVE  SaidInv'
<1>1. OwnSame /\ QueueSame /\ UNCHANGED <<toServer, link, reported>>
  BY DEF WorkerStill, workerVars, netVars, OwnSame, QueueSame
<1> QED
  BY <1>1, SaidStill

LEMMA TableStillFits == ASSUME UNCHANGED table PROVE RowsFit
BY DEF RowsFit

LEMMA UpsertFits ==
  ASSUME ConfigAssumption, Shapes, FreshInv, NEW r \in Reqs, Upsert(r)
  PROVE  RowsFit
<1> DEFINE i == task[r].inst
<1>0. ServerShape /\ NetShape /\ r \in Reqs \cup Sess /\ task[r].pc = "checked" /\ UNCHANGED reported
  BY DEF Shapes, Upsert
<1>1. task[r] \in Saving /\ Sealed(r)
  BY <1>0, TaskOf DEF Sealed
<1>2. i \in Inst /\ table' = [table EXCEPT ![i] = Saved(table[i], task[r])]
  BY <1>1 DEF Upsert, Saving, Inst
<1>3. table[i] \in Row \cup {None} /\ Saved(table[i], task[r]).rev = task[r].rev
  BY <1>0, <1>2 DEF ServerShape, Saved
<1>4. Saved(table[i], task[r]) \in Row
  BY <1>1, <1>3, RowTyped
<1>5. None \notin Row /\ None \notin Wire
  BY DEF ConfigAssumption
<1>6. ASSUME reported # None PROVE reported.set[i] # BuildInstanceConfigSet'[i]
  <2>1. reported.set \in Copies /\ reported.set \in Sets
    BY <1>0, <1>6 DEF Copies, KnownCopies, NetShape, Report
  <2>2. reported.set[i] # None => reported.set[i].rev # task[r].rev
    BY <1>0, <1>1, <1>2, <2>1 DEF FreshInv, Without
  <2>3. table'[i] = Saved(table[i], task[r]) /\ table'[i] # None
    BY <1>0, <1>2, <1>4, <1>5 DEF ServerShape
  <2>4. BuildInstanceConfigSet'[i] = [auth |-> table'[i].auth, key |-> table'[i].key, rev |-> table'[i].rev]
    BY <1>2, <2>3 DEF BuildInstanceConfigSet
  <2>5. BuildInstanceConfigSet'[i].rev = task[r].rev
    BY <1>3, <2>3, <2>4
  <2>6. BuildInstanceConfigSet'[i] \in Wire
    BY <1>4, <2>3, <2>4 DEF Row, Wire
  <2> QED
    BY <1>5, <2>2, <2>5, <2>6
<1> HIDE DEF i
<1>7. \A j \in Inst \ {i} : table'[j] = table[j]
  BY <1>0, <1>2 DEF ServerShape
<1> QED
  BY <1>6, <1>7 DEF RowsFit

LEMMA RequestSaid ==
  ASSUME ConfigAssumption, Shapes, FreshInv, SaidInv, NEW r \in Reqs, Request(r), ~PushSend(r)
  PROVE  SaidInv'
<1>1. ASSUME NEW i \in Remotes, SealPassword(r, i) PROVE SaidInv'
  <2>1. WorkerStill /\ UNCHANGED table
    BY <1>1 DEF SealPassword, WorkerStill
  <2> QED
    BY <2>1, ServerSaid, TableStillFits
<1>2. ASSUME NEW i \in Remotes, NEW auth, SaveWithoutPassword(r, i, auth) PROVE SaidInv'
  <2>1. WorkerStill /\ UNCHANGED table
    BY <1>2 DEF SaveWithoutPassword, WorkerStill
  <2> QED
    BY <2>1, ServerSaid, TableStillFits
<1>3. ASSUME NEW i \in Remotes, Remove(r, i) PROVE SaidInv'
  <2>1. WorkerStill /\ table' = [table EXCEPT ![i] = None]
    BY <1>3 DEF Remove, WorkerStill
  <2>2. RowsFit
    BY <2>1 DEF RowsFit, Shapes, ServerShape
  <2> QED
    BY <2>1, <2>2, ServerSaid
<1>4. ASSUME CheckKey(r) \/ PushRead(r) PROVE SaidInv'
  <2>1. WorkerStill /\ UNCHANGED table
    BY <1>4 DEF CheckKey, PushRead, WorkerStill
  <2> QED
    BY <2>1, ServerSaid, TableStillFits
<1>5. ASSUME Upsert(r) PROVE SaidInv'
  <2>1. WorkerStill
    BY <1>5 DEF Upsert, WorkerStill
  <2> QED
    BY <1>5, <2>1, ServerSaid, UpsertFits
<1> QED
  BY <1>1, <1>2, <1>3, <1>4, <1>5 DEF Request

LEMMA PushSendSaid ==
  ASSUME Shapes, SaidInv, NEW t, PushSend(t)
  PROVE  SaidInv'
<1>1. OwnSame /\ QueueSame /\ UNCHANGED <<toServer, link, reported, table>>
  BY DEF PushSend, netVars, OwnSame, QueueSame
<1> QED
  BY <1>1, SaidStill, TableStillFits

(* The report handled is the last one: it is about what is monitored.       *)
LEMMA StatusSaid ==
  ASSUME ConfigAssumption, Shapes, ReportInv, SaidInv, NEW s \in Sess, HubStatus(s)
  PROVE  SaidInv'
<1> DEFINE msg == Head(toServer[s])
<1>0. toServer \in [Sess -> Seq(Msgs)] /\ toServer[s] # <<>> /\ toServer[s] \in Seq(Msgs) /\ table \in [Inst -> Row \cup {None}]
  BY DEF Shapes, NetShape, ServerShape, HubStatus
<1>1. /\ table' = [i \in Inst |-> IF table[i] # None /\ i \in DOMAIN msg.results
                                  THEN [table[i] EXCEPT !.status = msg.results[i]] ELSE table[i]]
      /\ reported' = [sess |-> s, set |-> msg.set] /\ toServer' = [toServer EXCEPT ![s] = Tail(@)]
      /\ UNCHANGED <<link, hostKey, entries, ens>>
  BY DEF HubStatus, workerVars
<1>2. OwnSame /\ QueueSame
  BY <1>1 DEF OwnSame, QueueSame
<1>3. Len(toServer[s]) \in Nat \ {0} /\ Tail(toServer[s]) \in Seq(Msgs) /\ Len(Tail(toServer[s])) = Len(toServer[s]) - 1
      /\ \A k \in 1..Len(Tail(toServer[s])) : Tail(toServer[s])[k] = toServer[s][k + 1]
  BY <1>0, HeadTailProperties, EmptySeq
<1>4. reported'.set = msg.set /\ reported'.sess = s /\ msg = toServer[s][1]
  BY <1>0, <1>1
<1>5. ASSUME NEW i \in Inst, table[i] # None, i \in DOMAIN msg.results
      PROVE  /\ table'[i] # None /\ table'[i].status = msg.results[i] /\ table'[i].auth = table[i].auth
             /\ table'[i].key = table[i].key /\ table'[i].rev = table[i].rev
  <2>1. table[i] \in Row /\ None \notin Row
    BY <1>0, <1>5 DEF ConfigAssumption
  <2> DEFINE row == [table[i] EXCEPT !.status = msg.results[i]]
  <2>2. table'[i] = row
    BY <1>1, <1>5
  <2>3. /\ row.status = msg.results[i] /\ row.auth = table[i].auth /\ row.key = table[i].key /\ row.rev = table[i].rev
        /\ DOMAIN row = {"auth", "key", "rev", "status"}
    BY <2>1 DEF Row
  <2>4. row # None
    <3>1. msg.results[i] \in Status
      <4>1. msg \in Msgs
        BY <1>0, <1>3, <1>4
      <4>2. PICK names \in SUBSET Inst : msg.results \in [names -> Answers]
        BY <4>1 DEF Msgs, Results
      <4> QED
        BY <1>5, <4>2 DEF Status
    <3>2. row \in Row
      BY <2>1, <3>1 DEF Row
    <3> QED
      BY <2>1, <3>2
  <2> HIDE DEF row
  <2> QED
    BY <2>2, <2>3, <2>4
<1>6. \A i \in Inst : ~(table[i] # None /\ i \in DOMAIN msg.results) => table'[i] = table[i]
  BY <1>1
<1> HIDE DEF msg
<1>7. SentInv'
  <2>1. ASSUME link # 0, ens["queue"].pc = "idle", toServer'[link] # <<>>
        PROVE  toServer[link] # <<>> /\ toServer'[link][Len(toServer'[link])] = toServer[link][Len(toServer[link])]
    <3>1. CASE link = s
      <4>1. toServer'[link] = Tail(toServer[s])
        BY <1>0, <1>1, <3>1
      <4>2. Len(Tail(toServer[s])) \in Nat \ {0}
        BY <1>3, <2>1, <4>1, EmptySeq, LenProperties
      <4>3. Len(Tail(toServer[s])) \in 1..Len(Tail(toServer[s])) /\ Len(Tail(toServer[s])) + 1 = Len(toServer[s])
        <5>1. ASSUME NEW n \in Nat, NEW k \in Nat \ {0}, k = n - 1 PROVE k \in 1..k /\ k + 1 = n
          BY <5>1
        <5>2. Len(toServer[s]) \in Nat /\ Len(Tail(toServer[s])) = Len(toServer[s]) - 1
          BY <1>3
        <5> HIDE <1>3
        <5> QED
          BY <4>2, <5>1, <5>2
      <4> QED
        BY <1>0, <1>3, <3>1, <4>1, <4>3
    <3>2. CASE link # s
      BY <1>0, <1>1, <2>1, <3>2
    <3> QED
      BY <3>1, <3>2
  <2>2. ASSUME link # 0, ens["queue"].pc = "idle", toServer'[link] # <<>>, NEW i \in Inst \ Files
        PROVE  FitsMsg(toServer[link][Len(toServer[link])], i)
    BY <2>1, <2>2 DEF SaidInv, SentInv
  <2>3. ASSUME NEW m, NEW i \in Inst \ Files, FitsMsg(m, i)
        PROVE  IF m.set[i] = None THEN entries'[i] = None
               ELSE i \in DOMAIN m.results /\ Fits(m.results[i], m.set[i], i)
    BY <1>1, <2>3 DEF FitsMsg
  <2> QED
    BY <1>1, <2>1, <2>2 DEF SentInv, FitsMsg, Fits, Sealable
<1>8. HandledInv'
  <2> SUFFICES ASSUME link # 0, ens["queue"].pc = "idle", toServer'[link] = <<>>, reported'.sess = link,
                      NEW i \in Inst \ Files
               PROVE  /\ reported'.set[i] = None => entries'[i] = None
                      /\ table'[i] # None /\ reported'.set[i] = BuildInstanceConfigSet'[i]
                           => Fits(table[i].status, table[i], i)'
    BY <1>1 DEF HandledInv
  <2>1. link = s /\ toServer[s] # <<>> /\ Len(toServer[s]) = 1
    <3>1. toServer'[s] = Tail(toServer[s]) /\ link = s
      BY <1>0, <1>1, <1>4
    <3>2. Len(Tail(toServer[s])) = 0
      BY <3>1, EmptySeq
    <3> QED
      BY <1>0, <1>3, <3>1, <3>2
  <2>2. FitsMsg(msg, i)
    BY <1>4, <2>1 DEF SaidInv, SentInv
  <2>3. reported'.set[i] = None => entries'[i] = None
    BY <1>1, <1>4, <2>2 DEF FitsMsg
  <2>4. ASSUME table'[i] # None, reported'.set[i] = BuildInstanceConfigSet'[i]
        PROVE  Fits(table[i].status, table[i], i)'
    <3>1. BuildInstanceConfigSet'[i] = [auth |-> table'[i].auth, key |-> table'[i].key, rev |-> table'[i].rev]
      BY <2>4 DEF BuildInstanceConfigSet
    <3>2. table'[i] \in Row
      <4>1. Shapes'
        BY HubStatusShape
      <4> QED
        BY <2>4, <4>1 DEF Shapes, ServerShape
    <3>3. msg.set[i] \in Wire /\ None \notin Wire
      BY <1>4, <2>4, <3>1, <3>2 DEF Row, Wire, ConfigAssumption
    <3>4. i \in DOMAIN msg.results /\ Fits(msg.results[i], msg.set[i], i)
      BY <2>2, <3>3 DEF FitsMsg
    <3>5. table[i] # None /\ table'[i].status = msg.results[i]
      BY <1>5, <1>6, <2>4, <3>4
    <3>6. msg.set[i].auth = table'[i].auth /\ msg.set[i].key = table'[i].key /\ msg.set[i].rev = table'[i].rev
      BY <1>4, <2>4, <3>1
    <3> QED
      BY <1>1, <3>4, <3>5, <3>6 DEF Fits, Sealable
  <2> QED
    BY <2>3, <2>4
<1> QED
  BY <1>2, <1>7, <1>8, QueueStill DEF SaidInv

LEMMA HubSaid ==
  ASSUME ConfigAssumption, Shapes, ReportInv, SaidInv, NEW s \in Sess, Hub(s)
  PROVE  SaidInv'
<1>1. ASSUME PushRead(s) \/ HubHello(s) \/ HubTeardown(s) PROVE SaidInv'
  <2>1. WorkerStill /\ UNCHANGED table
    BY <1>1 DEF PushRead, HubHello, HubTeardown, WorkerStill
  <2> QED
    BY <2>1, ServerSaid, TableStillFits
<1>2. ASSUME HubRekeyed(s) PROVE SaidInv'
  <2>1. WorkerStill
    BY <1>2 DEF HubRekeyed, WorkerStill
  <2>2. ASSUME NEW i \in Inst PROVE table'[i] = table[i] \/ table'[i].status = "awaiting_credentials"
    <3>1. table[i] \in Row \cup {None}
      BY DEF Shapes, ServerShape
    <3> QED
      BY <1>2, <3>1 DEF HubRekeyed, Row
  <2>3. RowsFit
    BY <2>2 DEF RowsFit
  <2> QED
    BY <2>1, <2>3, ServerSaid
<1>3. ASSUME HubRegister(s) PROVE SaidInv'
  <2>1. OwnSame
    BY <1>3, RegisterKeepsEntries DEF SameEntries, OwnSame, Shapes, WorkerShape
  <2>2. QueueSame /\ UNCHANGED <<toServer, link, reported, table>>
    BY <1>3 DEF HubRegister, QueueSame
  <2> QED
    BY <2>1, <2>2, SaidStill, TableStillFits
<1> QED
  BY <1>1, <1>2, <1>3, PushSendSaid, StatusSaid DEF Hub

LEMMA SessionSaid ==
  ASSUME ConfigAssumption, Shapes, ReportInv, SaidInv, Connect \/ Disconnect
  PROVE  SaidInv'
<1>0. OwnSame /\ QueueSame /\ UNCHANGED reported
  BY DEF Connect, Disconnect, workerVars, OwnSame, QueueSame
<1>1. RemoteInv' /\ QueueInv'
  BY <1>0, QueueStill DEF SaidInv
<1>2. CASE Connect
  <2>1. link' = opened + 1 /\ opened \in 0..MaxSessions /\ opened < MaxSessions /\ UNCHANGED toServer
    BY <1>2 DEF Connect, Shapes, NetShape
  <2>2. link' \in Sess /\ link' > opened
    BY <2>1, ConfigAssumption DEF Sess
  <2>3. toServer'[link'] = <<>>
    BY <2>1, <2>2 DEF ReportInv
  <2>4. reported # None => reported.sess # link'
    BY <2>1, <2>2, ConfigAssumption DEF ReportInv, Shapes, NetShape, Report, Sess
  <2> QED
    BY <1>0, <1>1, <2>3, <2>4 DEF SaidInv, SentInv, HandledInv
<1>3. CASE Disconnect
  BY <1>1, <1>3 DEF Disconnect, SaidInv, SentInv, HandledInv
<1> QED
  BY <1>2, <1>3

LEMMA RestartSaid ==
  ASSUME NEW lost, Restart(lost)
  PROVE  SaidInv'
<1>1. link' = 0 /\ entries' = [i \in Inst |-> None] /\ ens'["queue"].pc = "idle"
  BY DEF Restart, Callers, Idle
<1> QED
  BY <1>1 DEF SaidInv, RemoteInv, QueueInv, SentInv, HandledInv

(* A caller with instances of worker.yaml does not touch the dashboard's.   *)
LEMMA FileSaid ==
  ASSUME Shapes, SaidInv, OnlyEns, NEW c \in Callers, c # "queue", EnsOthers(c),
         \A i \in Inst \ Files : entries'[i] = entries[i]
  PROVE  SaidInv'
<1>1. OwnSame
  BY DEF OwnSame
<1>2. QueueSame /\ UNCHANGED <<toServer, link, reported, table>>
  BY DEF QueueSame, OnlyEns, EnsOthers, netVars, serverVars, Callers
<1> QED
  BY <1>1, <1>2, SaidStill, TableStillFits

LEMMA FilesSaid ==
  ASSUME ConfigAssumption, Shapes, SaidInv, NEW c \in Callers, c # "queue", Ensure(c) \/ EnsureFailure(c)
  PROVE  SaidInv'
<1>0. WorkerShape
  BY DEF Shapes
<1>1. ASSUME LoopEnd(c) PROVE SaidInv'
  <2>1. EnsOthers(c) /\ OnlyEns /\ UNCHANGED entries
    BY <1>1, LoopEnds DEF Rested, OnlyEns
  <2> QED
    BY <2>1, FileSaid
<1>2. ASSUME NEW i \in Inst, EnsureBegin(c, i) PROVE SaidInv'
  <2>1. EnsOthers(c) /\ OnlyEns /\ UNCHANGED entries
    BY <1>2, EnsureBegins DEF Turned
  <2> QED
    BY <2>1, FileSaid
<1>3. ASSUME NEW status \in {"auth_failed", "unreachable"}, EnsureFails(c, status) PROVE SaidInv'
  <2>1. EnsOthers(c) /\ OnlyEns /\ UNCHANGED entries
    BY <1>3, EnsureFailed DEF Turned
  <2> QED
    BY <2>1, FileSaid
<1>4. ens[c].pc \in {"closing", "connecting", "starting"} => ens[c].now \in Files
  BY <1>0, ShapeOf DEF Mine
<1>5. ASSUME EnsureClosed(c) PROVE SaidInv'
  <2>1. EnsOthers(c) /\ OnlyEns /\ entries' = [entries EXCEPT ![ens[c].now] = None] /\ ens[c].now \in Files
    BY <1>4, <1>5, EnsureCloses DEF Turned
  <2>2. \A i \in Inst \ Files : entries'[i] = entries[i]
    BY <1>0, <2>1 DEF WorkerShape
  <2> QED
    BY <2>1, <2>2, FileSaid
<1>6. ASSUME EnsureConnected(c) PROVE SaidInv'
  <2>1. EnsOthers(c) /\ OnlyEns /\ entries' = [entries EXCEPT ![ens[c].now] = Started(c)] /\ ens[c].now \in Files
    BY <1>4, <1>6, EnsureConnects DEF Turned
  <2>2. \A i \in Inst \ Files : entries'[i] = entries[i]
    BY <1>0, <2>1 DEF WorkerShape
  <2> QED
    BY <2>1, <2>2, FileSaid
<1>7. ASSUME NEW ok \in BOOLEAN, EnsureStarted(c, ok) PROVE SaidInv'
  <2>1. /\ EnsOthers(c) /\ OnlyEns /\ ens[c].now \in Files
        /\ entries' = IF ok /\ entries[ens[c].now] # None
                      THEN [entries EXCEPT ![ens[c].now].polling = TRUE] ELSE entries
    BY <1>4, <1>7, EnsureStarts DEF Turned
  <2>2. \A i \in Inst \ Files : entries'[i] = entries[i]
    BY <1>0, <2>1 DEF WorkerShape
  <2> QED
    BY <2>1, <2>2, FileSaid
<1> QED
  BY <1>1, <1>2, <1>3, <1>5, <1>6, <1>7 DEF Ensure, EnsureFailure

(* The reconciliation under way.                                            *)
FitsNext(status, c, i) ==
    /\ status # "pending"
    /\ status = "connected" => entries'[i] # None /\ entries'[i].sig = c.rev
    /\ (c.auth = "sql" /\ c.key # hostKey') => status \in {"awaiting_credentials", "decrypt_failed"}
Touches(results, was, x) == results = was \/ \E status : results = WithResult(was, x, status)

(* It deals with one instance, x: the outcome of each other stands.         *)
LEMMA QueueTurns ==
  ASSUME ConfigAssumption, Shapes, QueueInv, RemoteInv', ens["queue"].pc # "idle", hostKey' = hostKey,
         NEW pc, NEW now, NEW todo, NEW results, NEW x, Turned("queue", pc, now, todo, results),
         pc # "idle", \A i \in Inst \ Files : i # x => entries'[i] = entries[i],
         todo \subseteq ens["queue"].todo, ens["queue"].todo \subseteq todo \cup {x},
         ens["queue"].now \in {x, None}, now \in {x, None}, ens["queue"].set[x] # None,
         Touches(results, ens["queue"].results, x),
         x \in Inst \ Files /\ x \notin todo /\ now # x =>
            x \in DOMAIN results /\ FitsNext(results[x], ens["queue"].set[x], x),
         x \in Inst \ Files /\ now = x => Sealable(ens["queue"].set[x]) /\ x \notin todo,
         x \in Inst \ Files /\ now = x /\ pc = "starting" =>
            entries'[x] # None /\ entries'[x].sig = ens["queue"].set[x].rev
  PROVE  SaidInv'
<1> DEFINE q == ens["queue"]
<1> DEFINE p == ens'["queue"]
<1>1. p.pc = pc /\ p.now = now /\ p.todo = todo /\ p.set = q.set /\ p.results = results
  BY DEF Turned
<1>2. None \notin Inst
  BY DEF ConfigAssumption
<1>3. ASSUME NEW i \in Inst \ Files
      PROVE  /\ q.set[i] = None => i \notin todo /\ now # i
             /\ q.set[i] # None /\ i \notin todo /\ now # i => i \in DOMAIN results /\ FitsNext(results[i], q.set[i], i)
             /\ now = i => Sealable(q.set[i]) /\ i \notin todo
             /\ now = i /\ pc = "starting" => entries'[i] # None /\ entries'[i].sig = q.set[i].rev
  <2>1. /\ q.set[i] = None => i \notin q.todo /\ q.now # i
        /\ q.set[i] # None /\ i \notin q.todo /\ q.now # i => FitsMsg(q, i)
    BY DEF QueueInv
  <2>2. CASE i = x
    <3>1. x \in Inst \ Files
      BY <2>2
    <3> QED
      BY <2>2, <3>1
  <2>3. CASE i # x
    <3>1. now # i /\ q.now # i /\ (i \in todo <=> i \in q.todo)
      BY <1>2, <2>3
    <3>2. q.set[i] # None /\ i \notin q.todo => i \in DOMAIN q.results /\ Fits(q.results[i], q.set[i], i)
      BY <2>1, <3>1 DEF FitsMsg
    <3>3. i \in DOMAIN q.results => i \in DOMAIN results /\ results[i] = q.results[i]
      <4>1. CASE results = q.results
        BY <4>1
      <4>2. ASSUME NEW status, results = WithResult(q.results, x, status)
            PROVE  i \in DOMAIN q.results => i \in DOMAIN results /\ results[i] = q.results[i]
        BY <2>3, <4>2 DEF WithResult
      <4> QED
        BY <4>1, <4>2 DEF Touches
    <3>4. Fits(q.results[i], q.set[i], i) => FitsNext(q.results[i], q.set[i], i)
      BY <2>3 DEF Fits, FitsNext, Sealable
    <3> QED
      BY <2>1, <3>1, <3>2, <3>3, <3>4
  <2> QED
    BY <2>2, <2>3
<1> HIDE DEF q, p
<1>4. QueueInv'
  <2> SUFFICES ASSUME NEW i \in Inst \ Files
               PROVE /\ p.set[i] = None => i \notin p.todo /\ p.now # i
                     /\ p.set[i] # None /\ i \notin p.todo /\ p.now # i => i \in DOMAIN p.results /\ FitsNext(p.results[i], p.set[i], i)
                     /\ p.now = i => (p.set[i].auth = "sql" => p.set[i].key = hostKey') /\ i \notin p.todo
                     /\ p.now = i /\ p.pc = "starting" => entries'[i] # None /\ entries'[i].sig = p.set[i].rev
    BY DEF QueueInv, FitsMsg, Fits, FitsNext, Sealable, p
  <2> QED
    BY <1>1, <1>3 DEF Sealable
<1>5. SentInv' /\ HandledInv'
  BY <1>1 DEF SentInv, HandledInv, p
<1> QED
  BY <1>4, <1>5 DEF SaidInv

LEMMA SkipSaid ==
  ASSUME ConfigAssumption, Shapes, SaidInv, NEW i \in Inst, ReconcileSkip(i)
  PROVE  SaidInv'
<1> DEFINE q == ens["queue"]
<1> DEFINE c == q.set[i]
<1> DEFINE s == Settled(i, c)
<1>0. WorkerShape /\ "queue" \in Callers /\ EnsDom /\ EnsFields("queue")
  BY FieldsOf DEF Shapes, Callers
<1>1. /\ q.pc = "loop" /\ i \in q.todo /\ s # None
      /\ Turned("queue", "loop", q.now, q.todo \ {i}, WithResult(q.results, i, s))
  BY <1>0, SkipTurns
<1>2. q.now = None /\ c # None /\ q.set \in Sets
  BY <1>0, <1>1, ShapeOf DEF Named
<1>3. UNCHANGED <<hostKey, entries>>
  BY DEF ReconcileSkip
<1>4. None \notin Inst /\ c \in Wire /\ hostKey \in 1..MaxKeys
  BY <1>0, <1>2 DEF ConfigAssumption, Sets, WorkerShape
<1>5. i \notin Files => FitsNext(s, c, i)
  <2> SUFFICES ASSUME i \notin Files PROVE FitsNext(s, c, i)
    OBVIOUS
  <2>1. ~(entries[i] # None /\ entries[i].source = "file")
    BY DEF SaidInv, RemoteInv
  <2>2. CASE Unusable(c) # None
    <3>1. s = Unusable(c) /\ s \in {"awaiting_credentials", "decrypt_failed"}
      BY <2>1, <2>2 DEF Settled, Unusable
    <3> QED
      BY <3>1 DEF FitsNext
  <2>3. CASE Unusable(c) = None
    <3>1. s = "connected" /\ entries[i] # None /\ entries[i].sig = c.rev
      BY <1>1, <2>1, <2>3 DEF Settled
    <3>2. ~(c.auth = "sql" /\ c.key # hostKey)
      <4>1. None \notin Answers
        BY DEF ConfigAssumption
      <4> QED
        BY <2>3, <4>1 DEF Unusable, Answers
    <3> QED
      BY <1>3, <3>1, <3>2 DEF FitsNext
  <2> QED
    BY <2>2, <2>3
<1> HIDE DEF s
<1>6. RemoteInv'
  BY <1>3 DEF SaidInv, RemoteInv
<1>7. i \in DOMAIN WithResult(q.results, i, s) /\ WithResult(q.results, i, s)[i] = s
  BY DEF WithResult
<1>8. Touches(WithResult(q.results, i, s), q.results, i)
  BY DEF Touches
<1> QED
  BY <1>1, <1>2, <1>3, <1>4, <1>5, <1>6, <1>7, <1>8, QueueTurns DEF SaidInv

LEMMA BeginSaid ==
  ASSUME ConfigAssumption, Shapes, SaidInv, NEW i \in Inst, EnsureBegin("queue", i)
  PROVE  SaidInv'
<1> DEFINE q == ens["queue"]
<1> DEFINE c == q.set[i]
<1>0. WorkerShape /\ "queue" \in Callers
  BY DEF Shapes, Callers
<1>1. /\ q.pc = "loop" /\ i \in q.todo /\ Settled(i, c) = None
      /\ Turned("queue", Begun(i), i, q.todo \ {i}, q.results) /\ OnlyEns /\ UNCHANGED entries
  BY <1>0, EnsureBegins
<1>2. q.now = None /\ c # None
  BY <1>0, <1>1, ShapeOf DEF Named
<1>3. Sealable(c)
  <2>1. None \notin Answers
    BY DEF ConfigAssumption
  <2> QED
    BY <1>1, <2>1 DEF Settled, Unusable, Sealable, Answers
<1>4. RemoteInv' /\ hostKey' = hostKey /\ Begun(i) \in {"closing", "connecting"}
  BY <1>1 DEF SaidInv, RemoteInv, OnlyEns, Begun
<1>5. Touches(q.results, q.results, i)
  BY DEF Touches
<1> QED
  BY <1>1, <1>2, <1>3, <1>4, <1>5, QueueTurns DEF SaidInv

LEMMA CloseSaid ==
  ASSUME ConfigAssumption, Shapes, SaidInv, EnsureClosed("queue")
  PROVE  SaidInv'
<1> DEFINE q == ens["queue"]
<1> DEFINE i == q.now
<1> DEFINE c == q.set[i]
<1>0. WorkerShape /\ "queue" \in Callers /\ hostKey' = hostKey
  BY DEF Shapes, Callers, EnsureClosed
<1>1. /\ q.pc = "closing" /\ i \in Inst /\ Turned("queue", "connecting", i, q.todo, q.results)
      /\ entries' = [entries EXCEPT ![i] = None]
  BY <1>0, EnsureCloses
<1>2. c # None
  BY <1>0, <1>1, ShapeOf DEF Named
<1>3. \A j \in Inst : entries'[j] = IF j = i THEN None ELSE entries[j]
  BY <1>0, <1>1 DEF WorkerShape
<1>4. RemoteInv'
  BY <1>3 DEF SaidInv, RemoteInv
<1>5. i \in Inst \ Files => Sealable(c) /\ i \notin q.todo
  BY <1>1 DEF SaidInv, QueueInv
<1>6. Touches(q.results, q.results, i)
  BY DEF Touches
<1> QED
  BY <1>0, <1>1, <1>2, <1>3, <1>4, <1>5, <1>6, QueueTurns DEF SaidInv

(* The queue's instance is opened, started or given up on: its outcome.     *)
LEMMA OutcomeSaid ==
  ASSUME ConfigAssumption, Shapes, SaidInv, RemoteInv', hostKey' = hostKey,
         ens["queue"].pc \in {"connecting", "starting"}, NEW status \in {"connected", "auth_failed", "unreachable"},
         Turned("queue", "loop", None, ens["queue"].todo, OutcomeOf("queue", ens["queue"].now, status)),
         \A j \in Inst \ Files : j # ens["queue"].now => entries'[j] = entries[j],
         status = "connected" /\ ens["queue"].now \in Inst \ Files =>
            /\ entries'[ens["queue"].now] # None
            /\ entries'[ens["queue"].now].sig = ens["queue"].set[ens["queue"].now].rev
  PROVE  SaidInv'
<1> DEFINE q == ens["queue"]
<1> DEFINE i == q.now
<1> DEFINE c == q.set[i]
<1> DEFINE results == OutcomeOf("queue", i, status)
<1>0. WorkerShape /\ "queue" \in Callers
  BY DEF Shapes, Callers
<1>1. c # None /\ i \in Inst /\ None \notin Inst
  BY <1>0, ShapeOf, NamesInst DEF Named, ConfigAssumption
<1>2. i \in Inst \ Files => Sealable(c)
  BY DEF SaidInv, QueueInv
<1>3. i \in DOMAIN results /\ results[i] = status /\ Touches(results, q.results, i)
  BY DEF OutcomeOf, WithResult, Touches
<1>4. i \in Inst \ Files => FitsNext(status, c, i)
  BY <1>2 DEF FitsNext, Sealable
<1> HIDE DEF results
<1>5. i \in Inst \ Files /\ i \notin q.todo /\ None # i => i \in DOMAIN results /\ FitsNext(results[i], c, i)
  BY <1>3, <1>4
<1>6. Turned("queue", "loop", None, q.todo, results)
  BY DEF results
<1> QED
  BY <1>1, <1>3, <1>5, <1>6, QueueTurns DEF SaidInv

LEMMA OpenSaid ==
  ASSUME ConfigAssumption, Shapes, SaidInv, EnsureConnected("queue")
  PROVE  SaidInv'
<1> DEFINE q == ens["queue"]
<1> DEFINE i == q.now
<1> DEFINE c == q.set[i]
<1> DEFINE e == Started("queue")
<1>0. WorkerShape /\ "queue" \in Callers /\ hostKey' = hostKey
  BY DEF Shapes, Callers, EnsureConnected
<1>1. /\ q.pc = "connecting" /\ i \in Inst
      /\ \/ Turned("queue", "starting", i, q.todo, q.results)
         \/ Turned("queue", "loop", None, q.todo, OutcomeOf("queue", i, "connected"))
      /\ entries' = [entries EXCEPT ![i] = e] /\ e # None
  BY <1>0, EnsureConnects
<1>2. e.source = "remote" /\ e.sig = c.rev
  BY DEF Started, Source, Sig
<1>3. c # None
  BY <1>0, <1>1, ShapeOf DEF Named
<1> HIDE DEF e
<1>4. \A j \in Inst : entries'[j] = IF j = i THEN e ELSE entries[j]
  BY <1>0, <1>1 DEF WorkerShape
<1>5. RemoteInv'
  BY <1>2, <1>4 DEF SaidInv, RemoteInv
<1>6. i \in Inst \ Files => Sealable(c) /\ i \notin q.todo
  BY <1>1 DEF SaidInv, QueueInv
<1>7. entries'[i] # None /\ entries'[i].sig = c.rev /\ \A j \in Inst \ Files : j # i => entries'[j] = entries[j]
  BY <1>1, <1>2, <1>4
<1>8. CASE Turned("queue", "starting", i, q.todo, q.results)
  <2>1. Touches(q.results, q.results, i)
    BY DEF Touches
  <2> QED
    BY <1>0, <1>1, <1>3, <1>5, <1>6, <1>7, <1>8, <2>1, QueueTurns DEF SaidInv
<1>9. CASE Turned("queue", "loop", None, q.todo, OutcomeOf("queue", i, "connected"))
  BY <1>0, <1>1, <1>5, <1>7, <1>9, OutcomeSaid
<1> QED
  BY <1>1, <1>8, <1>9

LEMMA StartSaid ==
  ASSUME ConfigAssumption, Shapes, SaidInv, NEW ok \in BOOLEAN, EnsureStarted("queue", ok)
  PROVE  SaidInv'
<1> DEFINE q == ens["queue"]
<1> DEFINE i == q.now
<1>0. WorkerShape /\ "queue" \in Callers
  BY DEF Shapes, Callers
<1>1. /\ q.pc = "starting" /\ i \in Inst /\ OnlyEns
      /\ Turned("queue", "loop", None, q.todo, OutcomeOf("queue", i, "connected"))
      /\ entries' = IF ok /\ entries[i] # None THEN [entries EXCEPT ![i].polling = TRUE] ELSE entries
  BY <1>0, EnsureStarts
<1>2. entries \in [Inst -> Entry \cup {None}] /\ None \notin Entry
  BY <1>0 DEF WorkerShape, ConfigAssumption
<1>3. entries[i] # None =>
        LET e == [entries[i] EXCEPT !.polling = TRUE] IN e # None /\ e.source = entries[i].source /\ e.sig = entries[i].sig
  <2>1. entries[i] # None => [entries[i] EXCEPT !.polling = TRUE] \in Entry
    BY <1>1, <1>2 DEF Entry
  <2> QED
    BY <1>1, <1>2, <2>1 DEF Entry
<1>4. SameEntries /\ \A j \in Inst \ Files : j # i => entries'[j] = entries[j]
  <2>1. CASE entries' = entries
    BY <2>1 DEF SameEntries
  <2>2. CASE entries[i] # None /\ entries' = [entries EXCEPT ![i].polling = TRUE]
    <3> DEFINE e == [entries[i] EXCEPT !.polling = TRUE]
    <3>1. entries' = [entries EXCEPT ![i] = e] /\ e # None /\ e.source = entries[i].source /\ e.sig = entries[i].sig
      BY <1>3, <2>2
    <3> HIDE DEF e, i
    <3> QED
      BY <1>2, <2>2, <3>1 DEF SameEntries
  <2> QED
    BY <1>1, <2>1, <2>2
<1>5. RemoteInv'
  BY <1>2, <1>4 DEF SaidInv, RemoteInv, SameEntries
<1>6. i \in Inst \ Files => entries'[i] # None /\ entries'[i].sig = q.set[i].rev
  BY <1>1, <1>2, <1>4 DEF SaidInv, QueueInv, SameEntries
<1> QED
  BY <1>1, <1>4, <1>5, <1>6, OutcomeSaid DEF OnlyEns

LEMMA FailSaid ==
  ASSUME ConfigAssumption, Shapes, SaidInv, NEW status \in {"auth_failed", "unreachable"}, EnsureFails("queue", status)
  PROVE  SaidInv'
<1>0. "queue" \in Callers
  BY DEF Callers
<1>1. /\ ens["queue"].pc = "connecting" /\ OnlyEns /\ UNCHANGED entries
      /\ Turned("queue", "loop", None, ens["queue"].todo, OutcomeOf("queue", ens["queue"].now, status))
  BY <1>0, EnsureFailed
<1>2. RemoteInv'
  BY <1>1 DEF SaidInv, RemoteInv
<1> QED
  BY <1>1, <1>2, OutcomeSaid DEF OnlyEns

LEMMA StartSetSaid ==
  ASSUME ConfigAssumption, Shapes, SaidInv, ReconcileStart
  PROVE  SaidInv'
<1> DEFINE set == wq[1]
<1> DEFINE todo == {i \in Inst : set[i] # None}
<1>0. None \notin Inst
  BY DEF ConfigAssumption
<1>1. ens'["queue"] = [pc |-> "loop", now |-> None, set |-> set, results |-> <<>>, todo |-> todo] /\ UNCHANGED entries
  BY ReconcileStartShape DEF ReconcileStart
<1>2. /\ ens'["queue"].pc = "loop" /\ ens'["queue"].now = None /\ ens'["queue"].set = set /\ ens'["queue"].todo = todo
  BY <1>1
<1>3. RemoteInv'
  BY <1>1 DEF SaidInv, RemoteInv
<1>4. QueueInv'
  BY <1>0, <1>2 DEF QueueInv
<1>5. SentInv' /\ HandledInv'
  BY <1>2 DEF SentInv, HandledInv
<1> QED
  BY <1>3, <1>4, <1>5 DEF SaidInv

LEMMA EndSaid ==
  ASSUME ConfigAssumption, Shapes, ReportInv, SaidInv, ReconcileEnd
  PROVE  SaidInv'
<1> DEFINE q == ens["queue"]
<1> DEFINE m == [set |-> q.set, results |-> q.results]
<1>0. /\ toServer \in [Sess -> Seq(Msgs)] /\ WorkerShape /\ "queue" \in Callers /\ None \notin Inst
      /\ entries \in [Inst -> Entry \cup {None}]
  BY DEF Shapes, NetShape, WorkerShape, Callers, ConfigAssumption
<1>1. /\ q.pc = "loop" /\ q.todo = {} /\ ens'["queue"].pc = "idle"
      /\ entries' = [i \in Inst |-> IF i \in Dropped THEN None ELSE entries[i]]
      /\ toServer' = IF acked THEN [toServer EXCEPT ![link] = Append(@, m)] ELSE toServer
      /\ UNCHANGED <<link, acked, hostKey, reported, table>>
  BY ReconcileEnds DEF Rested, Idle, serverVars
<1>2. q.now = None
  BY <1>0, <1>1, ShapeOf
<1>3. RemoteInv'
  BY <1>1 DEF SaidInv, RemoteInv
<1>4. QueueInv'
  BY <1>1 DEF QueueInv
<1>5. m.set = q.set /\ m.results = q.results
  OBVIOUS
<1> HIDE DEF m
<1>6. ASSUME NEW i \in Inst \ Files
      PROVE  IF m.set[i] = None THEN entries'[i] = None
             ELSE i \in DOMAIN m.results /\ FitsNext(m.results[i], m.set[i], i)
  <2>1. CASE q.set[i] = None
    <3>1. entries[i] = None \/ i \in Dropped
      BY <2>1 DEF SaidInv, RemoteInv, Dropped
    <3> QED
      BY <1>1, <1>5, <2>1, <3>1
  <2>2. CASE q.set[i] # None
    <3>1. i \in DOMAIN q.results /\ Fits(q.results[i], q.set[i], i)
      BY <1>0, <1>1, <1>2, <2>2 DEF SaidInv, QueueInv, FitsMsg
    <3>2. entries'[i] = entries[i]
      BY <1>1, <2>2 DEF Dropped
    <3> QED
      BY <1>1, <1>5, <2>2, <3>1, <3>2 DEF Fits, FitsNext, Sealable
  <2> QED
    BY <2>1, <2>2
<1>7. CASE ~acked
  <2>1. link # 0 => toServer'[link] = <<>> /\ (reported # None => reported.sess # link)
    BY <1>1, <1>7 DEF ReportInv
  <2> QED
    BY <1>1, <1>3, <1>4, <2>1 DEF SaidInv, SentInv, HandledInv
<1>8. CASE acked
  <2>1. link \in Sess
    BY <1>8, ConfigAssumption DEF ReportInv, Shapes, NetShape, Sess
  <2>2. toServer'[link] = Append(toServer[link], m) /\ toServer[link] \in Seq(Msgs)
    BY <1>0, <1>1, <1>8, <2>1
  <2>3. toServer'[link] # <<>> /\ toServer'[link][Len(toServer'[link])] = m
    BY <2>2
  <2>4. HandledInv'
    BY <1>1, <2>3 DEF HandledInv
  <2>5. SentInv'
    <3> SUFFICES ASSUME NEW i \in Inst \ Files
                 PROVE  IF m.set[i] = None THEN entries'[i] = None
                        ELSE i \in DOMAIN m.results /\ FitsNext(m.results[i], m.set[i], i)
      BY <1>1, <2>3 DEF SentInv, FitsMsg, Fits, FitsNext, Sealable
    <3> QED
      BY <1>6
  <2> QED
    BY <1>3, <1>4, <2>4, <2>5 DEF SaidInv
<1> QED
  BY <1>7, <1>8

LEMMA SaidStep ==
  ASSUME ConfigAssumption, Shapes, FreshInv, ReportInv, SaidInv, [Next]_vars
  PROVE  SaidInv'
<1>1. ASSUME NEW r \in Reqs, Request(r) PROVE SaidInv'
  BY <1>1, RequestSaid, PushSendSaid
<1>2. ASSUME NEW s \in Sess, Hub(s) PROVE SaidInv'
  BY <1>2, HubSaid
<1>3. Connect \/ Disconnect => SaidInv'
  BY SessionSaid
<1>4. ASSUME NEW lost, Restart(lost) PROVE SaidInv'
  BY <1>4, RestartSaid
<1>5. ASSUME RetryStart PROVE SaidInv'
  <2>1. EnsOthers("retry") /\ OnlyEns /\ UNCHANGED entries /\ "retry" \in Callers
    BY <1>5, RetryStarts DEF OnlyEns, Callers
  <2> QED
    BY <2>1, FileSaid
<1>6. Worker => SaidInv'
  BY <1>5, StartSetSaid, EndSaid, SkipSaid DEF Worker
<1>7. ASSUME NEW c \in Callers, Ensure(c) \/ EnsureFailure(c) PROVE SaidInv'
  <2>1. CASE c # "queue"
    BY <1>7, <2>1, FilesSaid
  <2>2. CASE c = "queue"
    <3>1. ~LoopEnd("queue")
      BY DEF LoopEnd
    <3>2. Ensure("queue") => SaidInv'
      BY <3>1, BeginSaid, CloseSaid, OpenSaid, StartSaid DEF Ensure
    <3>3. EnsureFailure("queue") => SaidInv'
      BY FailSaid, StartSaid DEF EnsureFailure
    <3> QED
      BY <1>7, <2>2, <3>2, <3>3
  <2> QED
    BY <2>1, <2>2
<1>8. ASSUME UNCHANGED vars PROVE SaidInv'
  <2>1. OwnSame /\ QueueSame /\ UNCHANGED <<toServer, link, reported, table>>
    BY <1>8 DEF vars, serverVars, workerVars, netVars, OwnSame, QueueSame
  <2> QED
    BY <2>1, SaidStill, TableStillFits
<1>9. Next => SaidInv'
  BY <1>1, <1>2, <1>3, <1>4, <1>6, <1>7 DEF Next
<1> QED
  BY <1>8, <1>9

LEMMA InitAnswers ==
  ASSUME ConfigAssumption, Init
  PROVE  AnswerInv
<1>1. task = [t \in Reqs \cup Sess |-> Idle] /\ Idle.pc = "idle"
  BY DEF Init, Idle
<1>2. FreshInv
  BY <1>1 DEF FreshInv, Sealed
<1>3. SavedInv
  <2>1. ens["queue"] = Idle /\ wq = <<>> /\ reported = None /\ toServer = [s \in Sess |-> <<>>]
    BY DEF Init, Callers
  <2>2. SendCopies = {} /\ HeldCopies = {} /\ SentCopies = {} /\ KnownCopies = {}
    BY <1>1, <2>1 DEF SendCopies, HeldCopies, SentCopies, KnownCopies
  <2>3. UpTo(table)
    BY DEF Init, UpTo
  <2> QED
    BY <2>2, <2>3 DEF SavedInv, Copies
<1>4. ReportInv
  <2>1. link = 0 /\ ~acked /\ reported = None /\ toServer = [s \in Sess |-> <<>>]
    BY DEF Init
  <2> QED
    BY <2>1 DEF ReportInv
<1>5. link = 0 /\ ens["queue"].pc = "idle" /\ \A i \in Inst : entries[i] = None
  BY DEF Init, Callers, Idle
<1>6. SaidInv
  BY <1>5 DEF SaidInv, RemoteInv, QueueInv, SentInv, HandledInv
<1> QED
  BY <1>2, <1>3, <1>4, <1>6 DEF AnswerInv, SaidInv

LEMMA AnswersKept == Spec => [](Shapes /\ AnswerInv)
<1> USE ConfigAssumption
<1>1. Init => Shapes /\ AnswerInv
  BY InitShape, InitAnswers
<1>2. (Shapes /\ AnswerInv) /\ [Next]_vars => (Shapes /\ AnswerInv)'
  <2> SUFFICES ASSUME Shapes, AnswerInv, [Next]_vars PROVE Shapes' /\ AnswerInv'
    OBVIOUS
  <2>1. FreshInv /\ SavedInv /\ ReportInv /\ SaidInv
    BY DEF AnswerInv, SaidInv
  <2>2. Shapes' /\ FreshInv' /\ SavedInv' /\ ReportInv' /\ SaidInv'
    BY <2>1, ShapesStep, FreshStep, ReportStep, SaidStep
  <2> QED
    BY <2>2 DEF AnswerInv, SaidInv
<1> QED
  BY <1>1, <1>2, PTL DEF Spec

-----------------------------------------------------------------------------
(* MonitorSet and instance-configs.ts: rows, entries, keys and sessions     *)
(* keep their types, and no instance holds two pools, as long as worker.yaml *)
(* and the dashboard name different instances.                              *)
THEOREM ConfigTypeCorrect == ASSUME Apart PROVE Spec => []TypeOK
<1>1. Shapes /\ MonitorInv => TypeOK
  <2> SUFFICES ASSUME Shapes, MonitorInv PROVE TypeOK
    OBVIOUS
  <2>1. \A i \in Inst : pools[i] \in 0..1
    BY DEF MonitorInv, PoolsInv
  <2>2. awaiting \subseteq Inst /\ link \in 0..opened
    BY DEF Shapes, WorkerShape, NetShape, Inst
  <2> QED
    BY <2>1, <2>2 DEF TypeOK, Shapes, ServerShape, WorkerShape, NetShape
<1> QED
  BY MonitorsKept, <1>1, PTL

(* MonitorSet.addLocal, #retryPending and #ensure: at every await, whatever *)
(* the dashboard saves and removes, an instance of worker.yaml is monitored, *)
(* waiting for another attempt, or with a caller that has not come to it.   *)
(* That the names are apart is needed: one configured in both places may be *)
(* opened for the dashboard and dropped with the dashboard's row.           *)
THEOREM HostsStayConfigured == ASSUME Apart PROVE Spec => []HostConfigured
<1>1. MonitorInv => HostConfigured
  BY DEF MonitorInv, FileInv
<1> QED
  BY MonitorsKept, <1>1, PTL

(* MonitorSet.#ensure: however start-up, retry timer and reconciliation     *)
(* overlap at their awaits, the monitor that holds a connection to an       *)
(* instance is the only one, and the one in #entries.                       *)
THEOREM NoMonitorIsLost == ASSUME Apart PROVE Spec => []NoLostMonitor
<1>1. Shapes /\ MonitorInv => NoLostMonitor
  BY DEF MonitorInv, PoolsInv, NoLostMonitor
<1> QED
  BY MonitorsKept, <1>1, PTL

(* recordInstanceConfigStatus and reconcileRemote: once the worker answered *)
(* the table as it stands, no earlier answer is left in its place, whatever *)
(* was saved, re-keyed, sent again or lost meanwhile.                       *)
THEOREM AnswersAreTrue == Spec => []AnswerIsTrue
<1>1. Shapes /\ AnswerInv => AnswerIsTrue
  <2> SUFFICES ASSUME Shapes, AnswerInv, CaughtUp, NEW i \in Inst \ Files
               PROVE  /\ table[i] = None => entries[i] = None
                      /\ table[i] # None =>
                           /\ table[i].status # "pending"
                           /\ table[i].status = "connected" => entries[i] # None /\ entries[i].sig = table[i].rev
                           /\ table[i].auth = "sql" /\ table[i].key # hostKey =>
                                 table[i].status \in {"awaiting_credentials", "decrypt_failed"}
    BY DEF AnswerIsTrue
  <2>1. /\ link \in Sess /\ toServer[link] = <<>> /\ ens["queue"].pc = "idle"
        /\ reported = [sess |-> link, set |-> BuildInstanceConfigSet]
    BY ConfigAssumption DEF CaughtUp, Idle, Shapes, NetShape, Sess
  <2>2. reported # None /\ link # 0
    BY <2>1, SetIsSet, ConfigAssumption DEF Shapes, Report, CaughtUp
  <2>3. reported.sess = link /\ reported.set = BuildInstanceConfigSet
    BY <2>1
  <2>4. /\ reported.set[i] = None => entries[i] = None
        /\ table[i] # None => Fits(table[i].status, table[i], i)
    BY <2>1, <2>2, <2>3 DEF AnswerInv, HandledInv
  <2>5. table[i] = None => reported.set[i] = None
    BY <2>3 DEF BuildInstanceConfigSet
  <2> QED
    BY <2>4, <2>5 DEF Fits, Sealable
<1> QED
  BY AnswersKept, <1>1, PTL

=============================================================================
