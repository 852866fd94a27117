------------------------ MODULE CommandPipelineProofs ------------------------
(***************************************************************************)
(* Proofs about CommandPipeline, for any set of commands, users, handlers  *)
(* and sessions, any clock and any number of crashes: its invariants, that *)
(* it implements CommandPromise, and that it strands no command.           *)
(***************************************************************************)
EXTENDS CommandPipeline, SequenceTheorems, FiniteSetTheorems, FunctionTheorems, TLAPS

-----------------------------------------------------------------------------
(* What each UPDATE does to a row, column by column.                        *)

LEMMA SetStateRow ==
    ASSUME ServerOK, NEW c \in Commands, NEW st \in Open \cup Terminal, SetState(c, st)
    PROVE  /\ row' \in [Commands -> Rows]
           /\ \A d \in Commands :
                /\ row'[d].st = IF d = c THEN st ELSE row[d].st
                /\ row'[d].gated = row[d].gated /\ row'[d].issuer = row[d].issuer
                /\ row'[d].approver = row[d].approver /\ row'[d].created = row[d].created
<1> DEFINE new == [row[c] EXCEPT !.st = st]
<1>1. /\ new \in Rows
      /\ new.st = st /\ new.gated = row[c].gated /\ new.issuer = row[c].issuer
      /\ new.approver = row[c].approver /\ new.created = row[c].created
  BY DEF ServerOK, Rows, Open, Terminal
<1>2. row' = [row EXCEPT ![c] = new]
  BY DEF SetState
<1> HIDE DEF new
<1> QED
  BY <1>1, <1>2 DEF ServerOK

LEMMA SetApprovedRow ==
    ASSUME ServerOK, NEW c \in Commands, NEW u \in Users \cup {None}, SetApproved(c, u)
    PROVE  /\ row' \in [Commands -> Rows]
           /\ \A d \in Commands :
                /\ row'[d].st = IF d = c THEN "approved" ELSE row[d].st
                /\ row'[d].gated = row[d].gated /\ row'[d].issuer = row[d].issuer
                /\ row'[d].approver = IF d = c THEN u ELSE row[d].approver
                /\ row'[d].created = row[d].created
<1> DEFINE new == [row[c] EXCEPT !.st = "approved", !.approver = u]
<1>1. /\ new \in Rows
      /\ new.st = "approved" /\ new.gated = row[c].gated /\ new.issuer = row[c].issuer
      /\ new.approver = u /\ new.created = row[c].created
  BY DEF ServerOK, Rows, Open, Terminal
<1>2. row' = [row EXCEPT ![c] = new]
  BY DEF SetApproved
<1> HIDE DEF new
<1> QED
  BY <1>1, <1>2 DEF ServerOK

LEMMA SetCompletedRow ==
    ASSUME ServerOK, NEW c \in Commands, NEW st \in Open \cup Terminal, SetCompleted(c, st)
    PROVE  /\ row' \in [Commands -> Rows]
           /\ \A d \in Commands :
                /\ row'[d].st = IF d = c THEN st ELSE row[d].st
                /\ row'[d].gated = row[d].gated /\ row'[d].issuer = row[d].issuer
                /\ row'[d].approver = row[d].approver /\ row'[d].created = row[d].created
<1> DEFINE new == [row[c] EXCEPT !.st = st, !.completed = TRUE]
<1>1. /\ new \in Rows
      /\ new.st = st /\ new.gated = row[c].gated /\ new.issuer = row[c].issuer
      /\ new.approver = row[c].approver /\ new.created = row[c].created
  BY DEF ServerOK, Rows, Open, Terminal
<1>2. row' = [row EXCEPT ![c] = new]
  BY DEF SetCompleted
<1> HIDE DEF new
<1> QED
  BY <1>1, <1>2 DEF ServerOK

LEMMA ExpireStaleRow ==
    ASSUME ServerOK, ExpireStale
    PROVE  /\ row' \in [Commands -> Rows]
           /\ \A d \in Commands :
                /\ row'[d].st = IF Stale(d) THEN "expired" ELSE row[d].st
                /\ row'[d].gated = row[d].gated /\ row'[d].issuer = row[d].issuer
                /\ row'[d].approver = row[d].approver /\ row'[d].created = row[d].created
BY DEF ServerOK, ExpireStale, Rows, Open, Terminal

LEMMA CreateRow ==
    ASSUME ServerOK, now \in Nat, NEW a, NEW c \in Commands, NEW u \in Users, NEW gated \in BOOLEAN,
           Create(a, c, u, gated)
    PROVE  /\ row' \in [Commands -> Rows]
           /\ row'[c] = NewRow(u, gated)
           /\ \A d \in Commands \ {c} : row'[d] = row[d]
<1>1. NewRow(u, gated) \in Rows
  BY DEF NewRow, Rows, Open, Terminal
<1> QED
  BY <1>1 DEF ServerOK, Create

-----------------------------------------------------------------------------
(* How an actor moves.                                                      *)

LEMMA GoPlace ==
    ASSUME ServerOK, NEW a \in Actors, NEW pc \in Steps, NEW c \in Commands,
           NEW u \in Users \cup {None}, Go(a, pc, c, u)
    PROVE  /\ actor' \in [Actors -> Places]
           /\ actor'[a].pc = pc /\ actor'[a].cmd = c /\ actor'[a].user = u
           /\ \A b \in Actors \ {a} : actor'[b] = actor[b]
           /\ \A b \in Actors : actor'[b].pc = "idle" \/ actor'[b].cmd \in Commands
BY DEF ServerOK, Go, Places

LEMMA FinishPlace ==
    ASSUME ServerOK, NEW a \in Actors, Finish(a)
    PROVE  /\ actor' \in [Actors -> Places]
           /\ actor'[a] = Idle /\ actor'[a].pc = "idle"
           /\ \A b \in Actors \ {a} : actor'[b] = actor[b]
           /\ \A b \in Actors : actor'[b].pc = "idle" \/ actor'[b].cmd \in Commands
BY DEF ServerOK, Finish, Places, Idle, Steps

LEMMA AtWork ==
    ASSUME ServerOK, NEW a \in Actors, actor[a].pc # "idle"
    PROVE  /\ actor[a].cmd \in Commands
           /\ actor[a].user \in Users \cup {None}
BY DEF ServerOK, Places

-----------------------------------------------------------------------------
(* Every variable of the pipeline keeps its type: in particular only real   *)
(* commands reach the worker's queue, only commands are being executed, and *)
(* only an established session is sent on.                                  *)
LEMMA TypeStep == TypeOK /\ [Next]_vars => TypeOK'
<1> SUFFICES ASSUME TypeOK, [Next]_vars PROVE TypeOK'
  OBVIOUS
<1> USE DEF TypeOK
<1>a. UNCHANGED wires => WiresOK'
  BY DEF WiresOK, wires
<1>b. UNCHANGED worker => WorkerOK'
  BY DEF WorkerOK, worker
<1>c. UNCHANGED <<ghosts, env>> => CountsOK'
  BY DEF CountsOK, ghosts, env
<1>d. UNCHANGED server => ServerOK'
  BY DEF ServerOK, server
<1>1. ASSUME NEW a \in Requests, NEW c \in Commands, NEW u \in Users, NEW gated \in BOOLEAN,
             Create(a, c, u, gated)
      PROVE  TypeOK'
  <2>1. row' \in [Commands -> Rows]
    BY <1>1, CreateRow DEF CountsOK
  <2>2. /\ actor' \in [Actors -> Places]
        /\ \A b \in Actors : actor'[b].pc = "idle" \/ actor'[b].cmd \in Commands
    <3>1. CASE gated
      BY <1>1, <3>1 DEF Create, ServerOK
    <3>2. CASE ~gated
      BY <1>1, <3>2, GoPlace DEF Create, ServerOK, Actors, Steps
    <3> QED
      BY <3>1, <3>2
  <2> QED
    BY <1>1, <2>1, <2>2, <1>a, <1>b, <1>c DEF Create, ServerOK
<1>2. ASSUME NEW a \in Requests, NEW c \in Commands, NEW u \in Users, NEW pc \in Steps,
             Go(a, pc, c, u),
             UNCHANGED <<row, todo, registry, hub, ended, wires, worker, ghosts, env>>
      PROVE  TypeOK'
  BY <1>2, GoPlace, <1>a, <1>b, <1>c DEF ServerOK, Actors
<1>3. ASSUME NEW a \in Requests, NEW c \in Commands, NEW u \in Users,
             ApproveRead(a, c, u) \/ RejectRead(a, c, u)
      PROVE  TypeOK'
  BY <1>3, <1>2 DEF ApproveRead, RejectRead, Steps
<1>4. ASSUME NEW a \in Actors, ApproveWrite(a) PROVE TypeOK'
  BY <1>4, AtWork, SetApprovedRow, GoPlace, <1>a, <1>b, <1>c DEF ApproveWrite, ServerOK, Steps
<1>5. ASSUME NEW a \in Actors, RejectWrite(a) PROVE TypeOK'
  BY <1>5, AtWork, SetCompletedRow, FinishPlace, <1>a, <1>b, <1>c
  DEF RejectWrite, ServerOK, Terminal
<1>6. ASSUME NEW a \in Actors, DispatchRead(a) PROVE TypeOK'
  BY <1>6, AtWork, GoPlace, FinishPlace, <1>a, <1>b, <1>c DEF DispatchRead, ServerOK, Steps
<1>7. ASSUME NEW a \in Actors, DispatchSend(a) PROVE TypeOK'
  <2>1. /\ actor[a].cmd \in Commands
        /\ actor[a].user \in Users \cup {None}
    BY <1>7, AtWork DEF DispatchSend
  <2>2. /\ actor' \in [Actors -> Places]
        /\ \A b \in Actors : actor'[b].pc = "idle" \/ actor'[b].cmd \in Commands
    <3>1. CASE Finish(a)
      BY <3>1, FinishPlace DEF ServerOK
    <3>2. ASSUME NEW pc \in {"expire", "mark"}, Go(a, pc, actor[a].cmd, actor[a].user)
          PROVE  /\ actor' \in [Actors -> Places]
                 /\ \A b \in Actors : actor'[b].pc = "idle" \/ actor'[b].cmd \in Commands
      <4>1. pc \in Steps
        BY DEF Steps
      <4> QED
        BY <3>2, <2>1, <4>1, GoPlace
    <3> QED
      BY <1>7, <3>1, <3>2 DEF DispatchSend
  <2>3. ServerOK'
    BY <1>7, <2>2 DEF DispatchSend, ServerOK
  <2>4. [cmd |-> actor[a].cmd, issued |-> now] \in Written
    BY <2>1 DEF Written, CountsOK
  <2>5. WiresOK'
    BY <1>7, <2>4 DEF DispatchSend, WiresOK
  <2> QED
    BY <1>7, <2>3, <2>5, <1>b, <1>c DEF DispatchSend
<1>8. ASSUME NEW a \in Actors, DispatchMark(a) PROVE TypeOK'
  BY <1>8, AtWork, SetStateRow, FinishPlace, <1>a, <1>b, <1>c DEF DispatchMark, ServerOK, Open
<1>9. ASSUME NEW a \in Actors, MarkExpired(a) PROVE TypeOK'
  BY <1>9, AtWork, SetCompletedRow, FinishPlace, <1>a, <1>b, <1>c
  DEF MarkExpired, ServerOK, Terminal
<1>10. CASE ExpireStale
  BY <1>10, ExpireStaleRow, <1>a, <1>b, <1>c DEF ExpireStale, ServerOK
<1>11. ASSUME NEW s \in Sessions, HubHello(s) PROVE TypeOK'
  BY <1>11, <1>a, <1>b, <1>c DEF HubHello, ServerOK, HubSteps
<1>12. ASSUME NEW s \in Sessions, HubAck(s) PROVE TypeOK'
  <2>1. ServerOK'
    BY <1>12 DEF HubAck, ServerOK, HubSteps
  <2>2. [cmd |-> None, issued |-> now] \in Written
    BY DEF Written, CountsOK
  <2>3. WiresOK'
    BY <1>12, <2>2 DEF HubAck, WiresOK
  <2> QED
    BY <1>12, <2>1, <2>3, <1>b, <1>c DEF HubAck
<1>13. ASSUME NEW s \in Sessions, HubList(s) PROVE TypeOK'
  <2> DEFINE pending == {c \in Commands : row[c].st = "approved"}
  <2>1. Cardinality(pending) \in Nat
    BY NamesAssumption, FS_Subset, FS_CardinalityType
  <2>2. PICK order \in [1 .. Cardinality(pending) -> pending] :
          todo' = [todo EXCEPT ![s] = order]
    BY <1>13 DEF HubList
  <2> DEFINE n == Cardinality(pending)
  <2> HIDE DEF n, pending
  <2>a. \A i \in 1 .. n : order[i] \in Commands
    BY <2>2 DEF n, pending
  <2>b. [i \in 1 .. n |-> order[i]] \in Seq(Commands)
    BY <2>1, <2>a DEF n
  <2>3. order \in Seq(Commands)
    BY <2>2, <2>b DEF n
  <2>4. todo' \in [Sessions -> Seq(Commands)]
    BY <2>2, <2>3 DEF ServerOK
  <2> QED
    BY <1>13, <2>4, <1>a, <1>b, <1>c DEF HubList, ServerOK, HubSteps
<1>14. ASSUME NEW s \in Sessions, HubNext(s) PROVE TypeOK'
  <2>1. CASE todo[s] = <<>>
    BY <1>14, <2>1, <1>a, <1>b, <1>c DEF HubNext, ServerOK, HubSteps
  <2>2. CASE todo[s] # <<>>
    <3>1. Head(todo[s]) \in Commands /\ Tail(todo[s]) \in Seq(Commands)
      BY <2>2 DEF ServerOK
    <3>2. todo' \in [Sessions -> Seq(Commands)]
      BY <1>14, <2>2, <3>1 DEF HubNext, ServerOK
    <3> QED
      BY <1>14, <2>2, <3>1, <3>2, GoPlace, <1>a, <1>b, <1>c DEF HubNext, ServerOK, Actors, Steps
  <2> QED
    BY <2>1, <2>2
<1>15. ASSUME NEW s \in Sessions, HubResult(s) PROVE TypeOK'
  <2>1. Head(toServer[s]) \in Results /\ Tail(toServer[s]) \in Seq(Results)
    BY <1>15 DEF HubResult, WiresOK
  <2>2. row' \in [Commands -> Rows]
    BY <1>15, <2>1, SetCompletedRow DEF HubResult, Results, Terminal
  <2>3. WiresOK'
    BY <1>15, <2>1 DEF HubResult, WiresOK
  <2> QED
    BY <1>15, <2>2, <2>3, <1>b, <1>c DEF HubResult, ServerOK
<1>16. ASSUME NEW s \in Sessions, HubTeardown(s) PROVE TypeOK'
  BY <1>16, <1>a, <1>b, <1>c DEF HubTeardown, ServerOK, HubSteps
<1>17. ASSUME NEW s \in Sessions, Connect(s) PROVE TypeOK'
  <2>1. ServerOK' /\ WiresOK'
    BY <1>17 DEF Connect, ServerOK, WiresOK, HubSteps
  <2>2. WorkerOK'
    BY <1>17 DEF Connect, WorkerOK
  <2> QED
    BY <1>17, <2>1, <2>2, <1>c DEF Connect
<1>18. CASE WorkerReceive
  <2>1. Head(toWorker) \in Written /\ Tail(toWorker) \in Seq(Written)
    BY <1>18 DEF WorkerReceive, WiresOK
  <2>2. WiresOK'
    BY <1>18, <2>1 DEF WorkerReceive, WiresOK
  <2>3. WorkerOK'
    <3>a. /\ link.cur \in Sessions /\ link.cur # None
          /\ UNCHANGED <<exec, memo>>
      BY <1>18 DEF WorkerReceive, WorkerOK
    <3>1. CASE Head(toWorker).cmd = None
      <4>1. link' = [link EXCEPT !.ready = TRUE, !.key = TRUE] /\ wq' = wq
        BY <1>18, <3>1 DEF WorkerReceive
      <4>2. /\ link' \in [cur : Sessions \cup {None}, ready : BOOLEAN, key : BOOLEAN]
            /\ link'.cur # None
        BY <4>1, <3>a DEF WorkerOK
      <4> QED
        BY <3>a, <4>1, <4>2 DEF WorkerOK
    <3>2. CASE Head(toWorker).cmd # None
      <4>1. Head(toWorker) \in Queued
        BY <2>1, <3>2 DEF Written, Queued
      <4>2. wq' = Append(wq, Head(toWorker)) /\ link' = link
        BY <1>18, <3>2 DEF WorkerReceive
      <4>3. wq' \in Seq(Queued)
        BY <4>1, <4>2 DEF WorkerOK
      <4> QED
        BY <3>a, <4>2, <4>3 DEF WorkerOK
    <3> QED
      BY <3>1, <3>2
  <2> QED
    BY <1>18, <2>2, <2>3, <1>c, <1>d DEF WorkerReceive
<1>19. ASSUME NEW s \in Sessions, DropStream(s)
       PROVE  /\ WiresOK'
              /\ ended' \subseteq Sessions
              /\ hub' \in [Sessions -> HubSteps]
  <2>1. PICK kept \in 0 .. Len(toServer[s]) :
          toServer' = [toServer EXCEPT ![s] = SubSeq(@, 1, kept)]
    BY <1>19 DEF DropStream
  <2>2. SubSeq(toServer[s], 1, kept) \in Seq(Results)
    BY <2>1, SubSeqProperties DEF WiresOK
  <2>3. WiresOK'
    BY <1>19, <2>1, <2>2 DEF DropStream, WiresOK
  <2> QED
    BY <1>19, <2>3 DEF DropStream, ServerOK, HubSteps
<1>20. CASE WorkerDisconnect
  <2>1. link.cur \in Sessions
    BY <1>20 DEF WorkerDisconnect, WorkerOK
  <2>2. ServerOK' /\ WiresOK'
    BY <1>20, <2>1, <1>19 DEF WorkerDisconnect, ServerOK
  <2>3. WorkerOK'
    BY <1>20 DEF WorkerDisconnect, WorkerOK
  <2> QED
    BY <1>20, <2>2, <2>3, <1>c DEF WorkerDisconnect
<1>21. ASSUME NEW c \in Commands, NEW ok \in BOOLEAN, SendResult(c, ok), UNCHANGED toWorker
       PROVE  WiresOK'
  <2>1. [cmd |-> c, ok |-> ok] \in Results
    BY DEF Results
  <2>2. link.ready => link.cur \in Sessions
    BY DEF WorkerOK
  <2> QED
    BY <1>21, <2>1, <2>2 DEF SendResult, WiresOK
<1>22. wq # <<>> => /\ Head(wq).cmd \in Commands
                    /\ Tail(wq) \in Seq(Queued)
  <2>1. wq # <<>> => Head(wq) \in Queued /\ Tail(wq) \in Seq(Queued)
    BY DEF WorkerOK
  <2> QED
    BY <2>1 DEF Queued
<1>23. CASE Refuse
  <2>1. WorkerOK'
    BY <1>23, <1>22 DEF Refuse, WorkerOK
  <2> QED
    BY <1>23, <1>22, <1>21, <2>1, <1>c, <1>d DEF Refuse
<1>24. CASE Replay
  <2>1. WorkerOK'
    BY <1>24, <1>22 DEF Replay, WorkerOK
  <2>2. RecordedOutcome(Head(wq).cmd) \in BOOLEAN
    BY <1>24, <1>22 DEF Replay, Recorded, RecordedOutcome, WorkerOK, Records
  <2> QED
    BY <1>24, <1>22, <1>21, <2>1, <2>2, <1>c, <1>d DEF Replay
<1>25. CASE StartApply
  <2>1. WorkerOK'
    BY <1>25, <1>22 DEF StartApply, WorkerOK
  <2> QED
    BY <1>25, <2>1, <1>a, <1>c, <1>d DEF StartApply
<1>26. CASE Effect
  <2>1. WorkerOK'
    BY <1>26 DEF Effect, WorkerOK
  <2>2. CountsOK'
    BY <1>26 DEF Effect, CountsOK, WorkerOK, env
  <2> QED
    BY <1>26, <2>1, <2>2, <1>a, <1>d DEF Effect
<1>27. ASSUME NEW ok \in BOOLEAN, Record(ok) PROVE TypeOK'
  <2>1. exec.cmd \in Commands
    BY <1>27 DEF Record, WorkerOK
  <2>2. [ok |-> ok, at |-> WorkerClock] \in Records
    BY TimingAssumption DEF Records, WorkerClock, CountsOK
  <2>3. WorkerOK'
    BY <1>27, <2>2 DEF Record, WorkerOK
  <2> QED
    BY <1>27, <2>1, <2>3, <1>21, <1>c, <1>d DEF Record
<1>28. Leaked => gaps' \in [Commands -> Nat]
  BY DEF Leaked, CountsOK, WorkerOK
<1>29. CASE Throw
  <2>1. WorkerOK'
    BY <1>29 DEF Throw, WorkerOK
  <2> QED
    BY <1>29, <1>28, <2>1, <1>a, <1>d DEF Throw, CountsOK, env
<1>30. CASE Prune
  <2>1. WorkerOK'
    BY <1>30 DEF Prune, WorkerOK
  <2> QED
    BY <1>30, <2>1, <1>a, <1>c, <1>d DEF Prune
<1>31. CASE WorkerCrash
  <2>1. WorkerOK'
    BY <1>31 DEF WorkerCrash, WorkerOK
  <2>2. CountsOK'
    BY <1>31, <1>28 DEF WorkerCrash, CountsOK
  <2>3. ServerOK' /\ WiresOK'
    <3>1. CASE link.cur = None
      BY <1>31, <3>1, <1>a DEF WorkerCrash, ServerOK
    <3>2. CASE link.cur # None
      <4>1. link.cur \in Sessions
        BY <3>2 DEF WorkerOK
      <4> QED
        BY <1>31, <3>2, <4>1, <1>19 DEF WorkerCrash, ServerOK
    <3> QED
      BY <3>1, <3>2
  <2> QED
    BY <2>1, <2>2, <2>3
<1>32. CASE ControlPlaneCrash
  <2>1. ServerOK'
    BY <1>32 DEF ControlPlaneCrash, ServerOK, Places, Idle, Steps, HubSteps
  <2>2. PICK kept \in 0 .. Len(toWorker) : toWorker' = SubSeq(toWorker, 1, kept)
    BY <1>32 DEF ControlPlaneCrash
  <2>3. toWorker' \in Seq(Written)
    BY <2>2, SubSeqProperties DEF WiresOK
  <2>4. WiresOK'
    BY <1>32, <2>3 DEF ControlPlaneCrash, WiresOK
  <2>5. CountsOK'
    BY <1>32 DEF ControlPlaneCrash, CountsOK, ghosts
  <2> QED
    BY <1>32, <2>1, <2>4, <2>5, <1>b DEF ControlPlaneCrash
<1>33. CASE Tick
  BY <1>33, <1>a, <1>b, <1>d DEF Tick, CountsOK, ghosts
<1>34. CASE UNCHANGED vars
  BY <1>34, <1>a, <1>b, <1>c, <1>d DEF vars
<1>35. ASSUME NEW a \in Actors, Finishing(a) PROVE TypeOK'
  BY <1>35, <1>4, <1>5, <1>6, <1>7, <1>8, <1>9 DEF Finishing
<1>36. ASSUME NEW s \in Sessions, HubStep(s) PROVE TypeOK'
  BY <1>36, <1>11, <1>12, <1>13, <1>14, <1>15, <1>16 DEF HubStep
<1>37. CASE WorkerStep
  BY <1>37, <1>17, <1>18, <1>20, <1>23, <1>24, <1>25, <1>26, <1>27, <1>29, <1>30 DEF WorkerStep
<1> QED
  BY <1>1, <1>3, <1>10, <1>31, <1>32, <1>33, <1>34, <1>35, <1>36, <1>37 DEF Next, Handler

THEOREM TypeCorrect == Spec => []TypeOK
<1>1. Init => TypeOK
  BY NamesAssumption
  DEF Init, TypeOK, ServerOK, WiresOK, WorkerOK, CountsOK, Rows, NoRow, Places, Idle, Steps, HubSteps
<1> QED
  BY <1>1, TypeStep, PTL DEF Spec

-----------------------------------------------------------------------------
(* The inductive invariant.                                                 *)

(* A row that may be dispatched: it exists, and if it needs a second person *)
(* it has one.                                                              *)
Vetted(c) ==
    /\ row[c].st # "none"
    /\ row[c].gated => row[c].approver \notin {None, row[c].issuer}

Sound(m) == Vetted(m.cmd) /\ m.issued <= row[m.cmd].created + TTL

RowInv ==
    \A c \in Commands :
        /\ row[c].st = "approved" => Vetted(c)
        /\ row[c].st = "succeeded" => effects[c] > 0
        /\ row[c].created <= now
ActorInv ==
    \A a \in Actors :
        actor[a].pc # "idle" =>
            /\ row[actor[a].cmd].st # "none"
            /\ actor[a].pc = "approve" => actor[a].user \notin {None, row[actor[a].cmd].issuer}
            /\ actor[a].pc = "send" => Vetted(actor[a].cmd)
TodoInv   == \A s \in Sessions : \A i \in 1 .. Len(todo[s]) : row[todo[s][i]].st # "none"
WireInv   == \A i \in 1 .. Len(toWorker) : toWorker[i].cmd # None => Sound(toWorker[i])
QueueInv  == \A i \in 1 .. Len(wq) : Sound(wq[i])
ResultInv ==
    \A s \in Sessions : \A i \in 1 .. Len(toServer[s]) :
        toServer[s][i].ok => effects[toServer[s][i].cmd] > 0
ExecInv ==
    exec.pc # "idle" => /\ Vetted(exec.cmd)
                        /\ exec.pc = "applied" => effects[exec.cmd] > 0
MemoInv ==
    \A c \in Commands :
        memo[c] # None => /\ row[c].st # "none"
                          /\ memo[c].at >= row[c].created + Skew
                          /\ memo[c].ok => effects[c] > 0

(* No delivery of c can reach msdb any more: it is recorded, or every       *)
(* message that could still arrive is outside the replay window.            *)
Spent(c) == memo[c] # None \/ now + Skew > row[c].created + TTL + MaxAge
Busy(pc, c) == exec.pc = pc /\ exec.cmd = c
CountInv ==
    \A c \in Commands :
        /\ effects[c] > 0 => Vetted(c)
        /\ effects[c] <= 1 + gaps[c]
        /\ Spent(c) \/ Busy("applied", c) \/ effects[c] <= gaps[c]
        /\ Busy("applying", c) => effects[c] <= gaps[c]

Inv == /\ RowInv /\ ActorInv /\ TodoInv
       /\ WireInv /\ QueueInv /\ ResultInv
       /\ ExecInv /\ MemoInv /\ CountInv

(* What no step takes back: a row keeps its identity and its vetting, msdb  *)
(* its changes, the clock its time.                                         *)
Lasting ==
    /\ now' >= now
    /\ \A c \in Commands :
        /\ effects'[c] >= effects[c]
        /\ row[c].st # "none" => /\ row'[c].st # "none"
                                 /\ row'[c].created = row[c].created
                                 /\ row'[c].issuer = row[c].issuer
        /\ Vetted(c) => Vetted(c)'

(* With Lasting, a conjunct survives a step that leaves its own variables   *)
(* alone.                                                                   *)
LEMMA Carry ==
    ASSUME TypeOK, TypeOK', Inv, Lasting
    PROVE  /\ UNCHANGED actor => ActorInv'
           /\ UNCHANGED todo => TodoInv'
           /\ UNCHANGED toWorker => WireInv'
           /\ UNCHANGED wq => QueueInv'
           /\ UNCHANGED toServer => ResultInv'
           /\ UNCHANGED exec => ExecInv'
           /\ UNCHANGED memo => MemoInv'
           /\ UNCHANGED <<exec, memo, effects, gaps>> => CountInv'
<1> USE DEF TypeOK, Inv
<1>1. UNCHANGED todo => TodoInv'
  <2> SUFFICES ASSUME UNCHANGED todo, NEW s \in Sessions, NEW i \in 1 .. Len(todo[s])
               PROVE  row'[todo[s][i]].st # "none"
    BY DEF TodoInv
  <2>1. todo[s][i] \in Commands
    BY DEF ServerOK
  <2> QED
    BY <2>1 DEF TodoInv, Lasting
<1>2. UNCHANGED actor => ActorInv'
  BY AtWork DEF ActorInv, Lasting
<1>3. UNCHANGED toWorker => WireInv'
  <2> SUFFICES ASSUME UNCHANGED toWorker, NEW i \in 1 .. Len(toWorker), toWorker[i].cmd # None
               PROVE  Sound(toWorker[i])'
    BY DEF WireInv
  <2>1. toWorker[i].cmd \in Commands
    <3>1. toWorker[i] \in Written
      BY DEF WiresOK
    <3> QED
      BY <3>1 DEF Written
  <2> QED
    BY <2>1 DEF WireInv, Lasting, Sound, Vetted
<1>4. UNCHANGED wq => QueueInv'
  <2> SUFFICES ASSUME UNCHANGED wq, NEW i \in 1 .. Len(wq)
               PROVE  Sound(wq[i])'
    BY DEF QueueInv
  <2>1. wq[i].cmd \in Commands
    <3>1. wq[i] \in Queued
      BY DEF WorkerOK
    <3> QED
      BY <3>1 DEF Queued
  <2> QED
    BY <2>1 DEF QueueInv, Lasting, Sound, Vetted
<1>5. UNCHANGED toServer => ResultInv'
  <2> SUFFICES ASSUME UNCHANGED toServer, NEW s \in Sessions, NEW i \in 1 .. Len(toServer[s]),
                      toServer[s][i].ok
               PROVE  effects'[toServer[s][i].cmd] > 0
    BY DEF ResultInv
  <2>1. toServer[s][i].cmd \in Commands
    <3>1. toServer[s][i] \in Results
      BY DEF WiresOK
    <3> QED
      BY <3>1 DEF Results
  <2> QED
    BY <2>1 DEF ResultInv, Lasting, CountsOK
<1>6. UNCHANGED exec => ExecInv'
  BY DEF ExecInv, Lasting, WorkerOK, CountsOK
<1>7. UNCHANGED memo => MemoInv'
  BY DEF MemoInv, Lasting, CountsOK
<1>8. UNCHANGED <<exec, memo, effects, gaps>> => CountInv'
  <2> SUFFICES ASSUME UNCHANGED <<exec, memo, effects, gaps>>, NEW c \in Commands
               PROVE  /\ effects[c] > 0 => Vetted(c)'
                      /\ effects[c] <= 1 + gaps[c]
                      /\ Spent(c)' \/ Busy("applied", c)' \/ effects[c] <= gaps[c]
                      /\ Busy("applying", c)' => effects[c] <= gaps[c]
    BY DEF CountInv
  <2>1. CASE row[c].st = "none"
    BY <2>1 DEF CountInv, Vetted, CountsOK, ExecInv, Busy
  <2>2. CASE row[c].st # "none"
    <3>1. row'[c].created = row[c].created /\ now' >= now
      BY <2>2 DEF Lasting
    <3>2. {row[c].created, now, now', TTL, MaxAge} \subseteq Nat /\ Skew \in Int
      BY TimingAssumption DEF CountsOK, ServerOK, Rows
    <3>3. Spent(c) => Spent(c)'
      BY <3>1, <3>2 DEF Spent
    <3> QED
      BY <3>3 DEF CountInv, Lasting, Busy
  <2> QED
    BY <2>1, <2>2
<1> QED
  BY <1>1, <1>2, <1>3, <1>4, <1>5, <1>6, <1>7, <1>8

-----------------------------------------------------------------------------
(* Small facts the steps share.                                             *)

LEMMA LastingSame ==
    ASSUME TypeOK, UNCHANGED row, now' >= now, \A c \in Commands : effects'[c] >= effects[c]
    PROVE  Lasting
BY DEF Lasting, Vetted

LEMMA LastingUpdate ==
    ASSUME TypeOK, UNCHANGED <<now, effects>>,
           \A d \in Commands :
               /\ row'[d].st = row[d].st \/ row'[d].st # "none"
               /\ row'[d].gated = row[d].gated /\ row'[d].issuer = row[d].issuer
               /\ row'[d].approver = row[d].approver /\ row'[d].created = row[d].created
    PROVE  Lasting
BY DEF Lasting, Vetted, TypeOK, CountsOK

LEMMA RowInvSame ==
    ASSUME TypeOK, TypeOK', Inv, Lasting, UNCHANGED row
    PROVE  RowInv'
BY DEF Inv, RowInv, Lasting, TypeOK, CountsOK, ServerOK, Rows

LEMMA ActorMoves ==
    ASSUME TypeOK, TypeOK', Inv, Lasting, NEW a \in Actors,
           \A b \in Actors \ {a} : actor'[b] = actor[b],
           actor'[a].pc # "idle" =>
               /\ row'[actor'[a].cmd].st # "none"
               /\ actor'[a].pc = "approve" =>
                    actor'[a].user \notin {None, row'[actor'[a].cmd].issuer}
               /\ actor'[a].pc = "send" => Vetted(actor[a].cmd)'
    PROVE  ActorInv'
<1> SUFFICES ASSUME NEW b \in Actors, actor'[b].pc # "idle"
             PROVE  /\ row'[actor'[b].cmd].st # "none"
                    /\ actor'[b].pc = "approve" =>
                         actor'[b].user \notin {None, row'[actor'[b].cmd].issuer}
                    /\ actor'[b].pc = "send" => Vetted(actor[b].cmd)'
  BY DEF ActorInv, Vetted
<1>1. CASE b = a
  BY <1>1
<1>2. CASE b # a
  <2>1. actor'[b] = actor[b] /\ actor[b].cmd \in Commands
    BY <1>2, AtWork DEF TypeOK
  <2> QED
    BY <2>1 DEF Inv, ActorInv, Lasting
<1> QED
  BY <1>1, <1>2

LEMMA ResultSent ==
    ASSUME TypeOK, TypeOK', Inv, Lasting, NEW c \in Commands, NEW ok \in BOOLEAN, SendResult(c, ok),
           ok => effects'[c] > 0
    PROVE  ResultInv'
<1> USE DEF TypeOK
<1>1. CASE ~link.ready
  BY <1>1, Carry DEF SendResult
<1>2. CASE link.ready
  <2>1. link.cur \in Sessions
    BY <1>2 DEF WorkerOK
  <2> DEFINE r == [cmd |-> c, ok |-> ok]
  <2>2. r \in Results /\ r.cmd = c /\ r.ok = ok
    BY DEF Results
  <2>3. /\ toServer'[link.cur] = Append(toServer[link.cur], r)
        /\ \A s \in Sessions \ {link.cur} : toServer'[s] = toServer[s]
    BY <1>2, <2>1 DEF SendResult, WiresOK
  <2> HIDE DEF r
  <2> SUFFICES ASSUME NEW s \in Sessions, NEW i \in 1 .. Len(toServer'[s]), toServer'[s][i].ok
               PROVE  effects'[toServer'[s][i].cmd] > 0
    BY DEF ResultInv
  <2>4. toServer[s] \in Seq(Results)
    BY DEF WiresOK
  <2>5. ASSUME i \in 1 .. Len(toServer[s]), toServer'[s][i] = toServer[s][i]
        PROVE  effects'[toServer'[s][i].cmd] > 0
    <3>1. toServer[s][i] \in Results
      BY <2>4, <2>5
    <3>2. toServer[s][i].cmd \in Commands
      BY <3>1 DEF Results
    <3> QED
      BY <2>5, <3>2 DEF Inv, ResultInv, Lasting, CountsOK
  <2>6. CASE s # link.cur
    BY <2>3, <2>5, <2>6
  <2>7. CASE s = link.cur
    <3>1. \/ i \in 1 .. Len(toServer[s]) /\ toServer'[s][i] = toServer[s][i]
          \/ toServer'[s][i] = r
      BY <2>2, <2>3, <2>4, <2>7
    <3> QED
      BY <2>2, <2>5, <3>1
  <2> QED
    BY <2>6, <2>7
<1> QED
  BY <1>1, <1>2

LEMMA QueueTaken ==
    ASSUME TypeOK, TypeOK', Inv, Lasting, wq # <<>>, wq' = Tail(wq)
    PROVE  QueueInv' /\ Head(wq) \in Queued /\ Sound(Head(wq))
<1>1. wq \in Seq(Queued)
  BY DEF TypeOK, WorkerOK
<1>2. Len(wq) >= 1 /\ Head(wq) = wq[1] /\ Head(wq) \in Queued
  BY <1>1
<1>3. Sound(Head(wq))
  BY <1>2 DEF Inv, QueueInv
<1>4. ASSUME NEW i \in 1 .. Len(wq') PROVE Sound(wq[i])'
  <2>1. i + 1 \in 1 .. Len(wq) /\ wq'[i] = wq[i + 1] /\ wq[i + 1] \in Queued
    BY <1>1, HeadTailProperties
  <2>2. wq[i + 1].cmd \in Commands
    BY <2>1 DEF Queued
  <2>3. Sound(wq[i + 1])
    BY <2>1 DEF Inv, QueueInv
  <2> QED
    BY <2>1, <2>2, <2>3 DEF Lasting, Sound, Vetted
<1> QED
  BY <1>2, <1>3, <1>4 DEF QueueInv

(* A prefix or the tail of what is on a wire is as good as the whole.       *)
LEMMA WireShortened ==
    ASSUME TypeOK, TypeOK', Inv, Lasting,
           \A i \in 1 .. Len(toWorker') : \E j \in 1 .. Len(toWorker) : toWorker'[i] = toWorker[j]
    PROVE  WireInv'
<1> SUFFICES ASSUME NEW i \in 1 .. Len(toWorker'), toWorker'[i].cmd # None
             PROVE  Sound(toWorker[i])'
  BY DEF WireInv
<1>1. PICK j \in 1 .. Len(toWorker) : toWorker'[i] = toWorker[j]
  OBVIOUS
<1>2. toWorker[j] \in Written
  BY DEF TypeOK, WiresOK
<1>3. toWorker[j].cmd \in Commands
  BY <1>1, <1>2 DEF Written
<1> QED
  BY <1>1, <1>3 DEF Inv, WireInv, Lasting, Sound, Vetted

LEMMA ResultsShortened ==
    ASSUME TypeOK, TypeOK', Inv, Lasting,
           \A s \in Sessions : \A i \in 1 .. Len(toServer'[s]) :
               \E j \in 1 .. Len(toServer[s]) : toServer'[s][i] = toServer[s][j]
    PROVE  ResultInv'
<1> SUFFICES ASSUME NEW s \in Sessions, NEW i \in 1 .. Len(toServer'[s]), toServer'[s][i].ok
             PROVE  effects'[toServer'[s][i].cmd] > 0
  BY DEF ResultInv
<1>1. PICK j \in 1 .. Len(toServer[s]) : toServer'[s][i] = toServer[s][j]
  OBVIOUS
<1>2. toServer[s][j] \in Results
  BY DEF TypeOK, WiresOK
<1>3. toServer[s][j].cmd \in Commands
  BY <1>2 DEF Results
<1> QED
  BY <1>1, <1>3 DEF Inv, ResultInv, Lasting, TypeOK, CountsOK

LEMMA StreamDropped ==
    ASSUME TypeOK, TypeOK', Inv, Lasting, NEW s \in Sessions, DropStream(s)
    PROVE  WireInv' /\ ResultInv'
<1>1. WireInv'
  BY WireShortened DEF DropStream
<1>2. PICK kept \in 0 .. Len(toServer[s]) :
        toServer' = [toServer EXCEPT ![s] = SubSeq(@, 1, kept)]
  BY DEF DropStream
<1>3. /\ Len(toServer'[s]) = kept
      /\ \A i \in 1 .. kept : toServer'[s][i] = toServer[s][i]
      /\ \A r \in Sessions \ {s} : toServer'[r] = toServer[r]
  BY <1>2, SubSeqProperties DEF TypeOK, WiresOK
<1>4. ASSUME NEW r \in Sessions, NEW i \in 1 .. Len(toServer'[r])
      PROVE  \E j \in 1 .. Len(toServer[r]) : toServer'[r][i] = toServer[r][j]
  <2>1. i \in 1 .. Len(toServer[r]) /\ toServer'[r][i] = toServer[r][i]
    <3>1. CASE r = s
      <4>1. Len(toServer[s]) \in Nat
        BY LenProperties DEF TypeOK, WiresOK
      <4> QED
        BY <1>2, <1>3, <3>1, <4>1
    <3>2. CASE r # s
      BY <1>3, <3>2
    <3> QED
      BY <3>1, <3>2
  <2> QED
    BY <2>1
<1> QED
  BY <1>1, <1>4, ResultsShortened

(* Giving up the execution of a command keeps the count, once an effect it  *)
(* had is put down as a gap.                                                *)
LEMMA ExecutionLost ==
    ASSUME TypeOK, TypeOK', Inv, Lasting, Leaked, exec' = [pc |-> "idle", cmd |-> None],
           UNCHANGED <<memo, effects, now>>, \A c \in Commands : row'[c].created = row[c].created
    PROVE  ExecInv' /\ CountInv'
<1>1. ExecInv'
  BY DEF ExecInv
<1>2. ASSUME NEW c \in Commands
      PROVE  /\ effects[c] > 0 => Vetted(c)'
             /\ effects[c] <= 1 + gaps'[c]
             /\ Spent(c)' \/ effects[c] <= gaps'[c]
  <2>1. effects[c] > 0 => Vetted(c)'
    BY DEF Inv, CountInv, Lasting
  <2>2. Spent(c) => Spent(c)'
    BY DEF Spent
  <2>3. CASE Busy("applied", c)
    BY <2>1, <2>3 DEF Inv, CountInv, Busy, Leaked, TypeOK, CountsOK
  <2>4. CASE ~Busy("applied", c)
    <3>1. gaps'[c] = gaps[c]
      BY <2>4 DEF Leaked, Busy, TypeOK, CountsOK
    <3> QED
      BY <2>1, <2>2, <2>4, <3>1 DEF Inv, CountInv
  <2> QED
    BY <2>3, <2>4
<1> QED
  BY <1>1, <1>2 DEF CountInv, Busy

-----------------------------------------------------------------------------
(* The invariant is inductive.                                              *)

LEMMA InvServerStep ==
    ASSUME TypeOK, TypeOK', Inv, NEW a \in Actors, Finishing(a)
    PROVE  Inv'
<1> USE DEF TypeOK
<1>1. /\ actor[a].pc # "idle" /\ actor[a].cmd \in Commands
      /\ actor[a].user \in Users \cup {None}
      /\ row[actor[a].cmd].st # "none"
  <2>1. actor[a].pc # "idle"
    BY DEF Finishing, ApproveWrite, RejectWrite, DispatchRead, DispatchSend, DispatchMark, MarkExpired
  <2> QED
    BY <2>1, AtWork DEF Inv, ActorInv
<1>2. UNCHANGED <<todo, toServer, worker, ghosts, env>>
  BY DEF Finishing, ApproveWrite, RejectWrite, DispatchRead, DispatchSend, DispatchMark,
         MarkExpired, wires
<1>3. UNCHANGED <<wq, exec, memo, effects, gaps, now>>
  BY <1>2 DEF worker, ghosts, env
<1>4. ASSUME Lasting, RowInv', ActorInv', WireInv' PROVE Inv'
  BY <1>2, <1>3, <1>4, Carry DEF Inv
<1>5. CASE ApproveWrite(a)
  <2>1. /\ UNCHANGED toWorker
        /\ actor'[a].pc = "dispatch" /\ actor'[a].cmd = actor[a].cmd
        /\ \A b \in Actors \ {a} : actor'[b] = actor[b]
    BY <1>1, <1>5, GoPlace DEF ApproveWrite, wires, Steps
  <2>2. \A d \in Commands :
          /\ row'[d].st = IF d = actor[a].cmd THEN "approved" ELSE row[d].st
          /\ row'[d].gated = row[d].gated /\ row'[d].issuer = row[d].issuer
          /\ row'[d].approver = IF d = actor[a].cmd THEN actor[a].user ELSE row[d].approver
          /\ row'[d].created = row[d].created
    BY <1>1, <1>5, SetApprovedRow DEF ApproveWrite
  <2>3. Vetted(actor[a].cmd)' \/ actor'[a].cmd # actor[a].cmd
    BY <1>1, <1>5, <2>2 DEF Inv, ActorInv, ApproveWrite, Vetted
  <2>4. \A d \in Commands : d = actor[a].cmd \/ Vetted(d)' = Vetted(d)
    BY <2>2 DEF Vetted
  <2>5. \A d \in Commands : d = actor[a].cmd => Vetted(d)'
    BY <1>1, <1>5, <2>2 DEF Inv, ActorInv, ApproveWrite, Vetted
  <2>6. Lasting
    BY <1>3, <2>2, <2>4, <2>5 DEF Lasting, CountsOK
  <2>7. RowInv'
    BY <1>3, <2>2, <2>4, <2>5 DEF Inv, RowInv
  <2>8. ActorInv'
    BY <1>1, <2>1, <2>2, <2>6, ActorMoves
  <2> QED
    BY <1>4, <2>1, <2>6, <2>7, <2>8, Carry
<1>6. ASSUME NEW st \in {"rejected", "dispatched", "expired"},
             SetState(actor[a].cmd, st) \/ SetCompleted(actor[a].cmd, st),
             Finish(a), UNCHANGED toWorker
      PROVE  Inv'
  <2>1. \A d \in Commands :
          /\ row'[d].st = IF d = actor[a].cmd THEN st ELSE row[d].st
          /\ row'[d].gated = row[d].gated /\ row'[d].issuer = row[d].issuer
          /\ row'[d].approver = row[d].approver /\ row'[d].created = row[d].created
    <3>1. st \in Open \cup Terminal
      BY DEF Open, Terminal
    <3>2. CASE SetState(actor[a].cmd, st)
      BY <1>1, <3>1, <3>2, SetStateRow
    <3>3. CASE SetCompleted(actor[a].cmd, st)
      BY <1>1, <3>1, <3>3, SetCompletedRow
    <3> QED
      BY <1>6, <3>2, <3>3
  <2>2. Lasting
    BY <1>3, <2>1, LastingUpdate
  <2>3. RowInv'
    BY <1>3, <2>1 DEF Inv, RowInv, Vetted
  <2>4. ActorInv'
    BY <1>6, <2>2, FinishPlace, ActorMoves
  <2> QED
    BY <1>4, <1>6, <2>2, <2>3, <2>4, Carry
<1>7. CASE RejectWrite(a)
  BY <1>6, <1>7 DEF RejectWrite, wires
<1>8. CASE DispatchMark(a)
  BY <1>6, <1>8 DEF DispatchMark, wires
<1>9. CASE MarkExpired(a)
  BY <1>6, <1>9 DEF MarkExpired, wires
<1>10. ASSUME UNCHANGED row PROVE Lasting /\ RowInv'
  <2>1. Lasting
    BY <1>3, <1>10, LastingSame DEF CountsOK
  <2> QED
    BY <1>10, <2>1, RowInvSame
<1>11. CASE DispatchRead(a)
  <2>1. UNCHANGED <<row, toWorker>>
    BY <1>11 DEF DispatchRead, wires
  <2>2. ActorInv'
    <3>1. CASE Finish(a)
      BY <1>10, <2>1, <3>1, FinishPlace, ActorMoves
    <3>2. CASE row[actor[a].cmd].st = "approved" /\ Go(a, "send", actor[a].cmd, actor[a].user)
      <4>1. /\ actor'[a].pc = "send" /\ actor'[a].cmd = actor[a].cmd
            /\ \A b \in Actors \ {a} : actor'[b] = actor[b]
        BY <1>1, <3>2, GoPlace DEF Steps
      <4>2. Vetted(actor[a].cmd)
        BY <1>1, <3>2 DEF Inv, RowInv
      <4>3. actor'[a].pc = "send" => Vetted(actor[a].cmd)'
        BY <2>1, <4>1, <4>2 DEF Vetted
      <4> QED
        BY <1>1, <1>10, <2>1, <4>1, <4>3, ActorMoves
    <3> QED
      BY <1>11, <3>1, <3>2 DEF DispatchRead
  <2> QED
    BY <1>4, <1>10, <2>1, <2>2, Carry
<1>12. CASE DispatchSend(a)
  <2>1. UNCHANGED row
    BY <1>12 DEF DispatchSend
  <2>2. ActorInv'
    <3>1. CASE Finish(a)
      BY <1>10, <2>1, <3>1, FinishPlace, ActorMoves
    <3>2. ASSUME NEW pc \in {"expire", "mark"}, Go(a, pc, actor[a].cmd, actor[a].user)
          PROVE  ActorInv'
      <4>1. /\ actor'[a].pc = pc /\ actor'[a].cmd = actor[a].cmd
            /\ \A b \in Actors \ {a} : actor'[b] = actor[b]
        BY <1>1, <3>2, GoPlace DEF Steps
      <4> QED
        BY <1>1, <1>10, <2>1, <4>1, ActorMoves
    <3> QED
      BY <1>12, <3>1, <3>2 DEF DispatchSend
  <2>3. WireInv'
    <3> DEFINE m == [cmd |-> actor[a].cmd, issued |-> now]
    <3>1. CASE UNCHANGED toWorker
      BY <1>10, <2>1, <3>1, Carry
    <3>2. CASE ~Overdue(actor[a].cmd) /\ toWorker' = Append(toWorker, m)
      <4>1. Vetted(m.cmd)
        BY <1>1, <1>12 DEF Inv, ActorInv, DispatchSend
      <4>2. m.issued <= row[m.cmd].created + TTL
        <5>1. now \in Nat /\ row[actor[a].cmd].created \in Nat /\ TTL \in Nat
          BY <1>1, TimingAssumption DEF CountsOK, ServerOK, Rows
        <5> QED
          BY <3>2, <5>1 DEF Overdue
      <4>3. Sound(m)
        BY <4>1, <4>2 DEF Sound
      <4> HIDE DEF m
      <4>4. m \in Written
        BY <1>1 DEF m, Written, CountsOK
      <4> SUFFICES ASSUME NEW i \in 1 .. Len(toWorker'), toWorker'[i].cmd # None
                   PROVE  Sound(toWorker[i])'
        BY DEF WireInv
      <4>5. \/ i \in 1 .. Len(toWorker) /\ toWorker'[i] = toWorker[i]
            \/ toWorker'[i] = m
        BY <3>2, <4>4 DEF WiresOK
      <4>6. Sound(toWorker'[i])
        BY <4>3, <4>5 DEF Inv, WireInv
      <4> QED
        BY <2>1, <4>6 DEF Sound, Vetted
    <3> QED
      BY <1>12, <3>1, <3>2 DEF DispatchSend
  <2> QED
    BY <1>4, <1>10, <2>1, <2>2, <2>3
<1> QED
  BY <1>5, <1>7, <1>8, <1>9, <1>11, <1>12 DEF Finishing

LEMMA InvRequestStep ==
    ASSUME TypeOK, TypeOK', Inv, NEW a \in Requests, NEW c \in Commands, NEW u \in Users,
           \/ \E gated \in BOOLEAN : Create(a, c, u, gated)
           \/ ApproveRead(a, c, u)
           \/ RejectRead(a, c, u)
    PROVE  Inv'
<1> USE DEF TypeOK
<1>1. a \in Actors
  BY DEF Actors
<1>2. UNCHANGED <<todo, toServer, toWorker, wq, exec, memo, effects, gaps, now>>
  BY DEF Create, ApproveRead, RejectRead, wires, worker, ghosts, env
<1>3. ASSUME Lasting, RowInv', ActorInv' PROVE Inv'
  BY <1>2, <1>3, Carry DEF Inv
<1>4. ASSUME NEW gated \in BOOLEAN, Create(a, c, u, gated) PROVE Inv'
  <2>1. /\ row[c].st = "none"
        /\ row'[c] = NewRow(u, gated)
        /\ \A d \in Commands \ {c} : row'[d] = row[d]
    BY <1>4, CreateRow DEF Create, CountsOK
  <2>2. /\ row'[c].st = IF gated THEN "pending_approval" ELSE "approved"
        /\ row'[c].gated = gated /\ row'[c].created = now
    BY <2>1 DEF NewRow
  <2>3. Lasting
    BY <1>2, <2>1 DEF Lasting, CountsOK, Vetted
  <2>4. RowInv'
    BY <1>2, <2>1, <2>2 DEF Inv, RowInv, Vetted, CountsOK
  <2>5. ActorInv'
    <3>1. CASE UNCHANGED actor
      BY <1>2, <2>3, <3>1, Carry
    <3>2. CASE Go(a, "dispatch", c, u)
      <4>1. /\ actor'[a].pc = "dispatch" /\ actor'[a].cmd = c
            /\ \A b \in Actors \ {a} : actor'[b] = actor[b]
        BY <1>1, <3>2, GoPlace DEF Steps
      <4> QED
        BY <1>1, <2>2, <2>3, <4>1, ActorMoves
    <3> QED
      BY <1>4, <3>1, <3>2 DEF Create
  <2> QED
    BY <1>3, <2>3, <2>4, <2>5
<1>5. ASSUME NEW pc \in {"approve", "reject", "expire"}, Go(a, pc, c, u), UNCHANGED row,
             row[c].st = "pending_approval", pc = "approve" => row[c].issuer # u
      PROVE  Inv'
  <2>1. Lasting
    BY <1>2, <1>5, LastingSame DEF CountsOK
  <2>2. RowInv'
    BY <1>5, <2>1, RowInvSame
  <2>3. /\ actor'[a].pc = pc /\ actor'[a].cmd = c /\ actor'[a].user = u
        /\ \A b \in Actors \ {a} : actor'[b] = actor[b]
    BY <1>1, <1>5, GoPlace DEF Steps
  <2>4. ActorInv'
    BY <1>1, <1>5, <2>1, <2>3, ActorMoves, NamesAssumption
  <2> QED
    BY <1>3, <2>1, <2>2, <2>4
<1>6. CASE ApproveRead(a, c, u)
  BY <1>5, <1>6 DEF ApproveRead, MayApprove
<1>7. CASE RejectRead(a, c, u)
  BY <1>5, <1>7 DEF RejectRead
<1> QED
  BY <1>4, <1>6, <1>7

LEMMA InvHubStep ==
    ASSUME TypeOK, TypeOK', Inv, NEW s \in Sessions, HubStep(s)
    PROVE  Inv'
<1> USE DEF TypeOK
<1>0. s \in Actors
  BY DEF Actors
<1>1. UNCHANGED <<wq, exec, memo, effects, gaps, now>>
  BY DEF HubStep, HubHello, HubAck, HubList, HubNext, HubResult, HubTeardown, worker, ghosts, env
<1>2. UNCHANGED row => Lasting /\ RowInv'
  BY <1>1, LastingSame, RowInvSame DEF CountsOK
<1>3. ASSUME Lasting, RowInv', ActorInv', TodoInv', WireInv', ResultInv' PROVE Inv'
  BY <1>1, <1>3, Carry DEF Inv
<1>4. ASSUME UNCHANGED <<row, actor, todo, wires>> PROVE Inv'
  BY <1>2, <1>3, <1>4, Carry DEF wires
<1>5. CASE HubHello(s) \/ HubTeardown(s)
  BY <1>4, <1>5 DEF HubHello, HubTeardown
<1>6. CASE HubAck(s)
  <2>1. UNCHANGED <<row, actor, todo, toServer>>
    BY <1>6 DEF HubAck
  <2>2. WireInv'
    <3> DEFINE m == [cmd |-> None, issued |-> now]
    <3>1. m \in Written /\ m.cmd = None
      BY DEF Written, CountsOK
    <3> HIDE DEF m
    <3>2. CASE UNCHANGED toWorker
      BY <1>2, <2>1, <3>2, Carry
    <3>3. CASE toWorker' = Append(toWorker, m)
      <4> SUFFICES ASSUME NEW i \in 1 .. Len(toWorker'), toWorker'[i].cmd # None
                   PROVE  Sound(toWorker[i])'
        BY DEF WireInv
      <4>1. i \in 1 .. Len(toWorker) /\ toWorker'[i] = toWorker[i]
        BY <3>1, <3>3 DEF WiresOK
      <4>2. Sound(toWorker[i])
        BY <4>1 DEF Inv, WireInv
      <4> QED
        BY <2>1, <4>1, <4>2 DEF Sound, Vetted
    <3> QED
      BY <1>6, <3>2, <3>3 DEF HubAck, m
  <2> QED
    BY <1>2, <1>3, <2>1, <2>2, Carry
<1>7. CASE HubList(s)
  <2> DEFINE pending == {c \in Commands : row[c].st = "approved"}
  <2>1. UNCHANGED <<row, actor, wires>>
    BY <1>7 DEF HubList
  <2>2. Cardinality(pending) \in Nat
    BY NamesAssumption, FS_Subset, FS_CardinalityType
  <2>3. PICK order \in [1 .. Cardinality(pending) -> pending] :
          todo' = [todo EXCEPT ![s] = order]
    BY <1>7 DEF HubList
  <2>4. \A i \in DOMAIN order : row[order[i]].st # "none"
    BY <2>3
  <2>5. ASSUME NEW r \in Sessions, NEW i \in 1 .. Len(todo'[r])
        PROVE  row'[todo'[r][i]].st # "none"
    <3>1. CASE r = s
      <4>1. todo'[s] = order /\ i \in DOMAIN order
        BY <2>3, <2>5, <3>1, LenProperties DEF ServerOK
      <4> QED
        BY <2>1, <2>4, <3>1, <4>1
    <3>2. CASE r # s
      BY <2>1, <2>3, <2>5, <3>2 DEF Inv, TodoInv, ServerOK
    <3> QED
      BY <3>1, <3>2
  <2>6. TodoInv'
    BY <2>5 DEF TodoInv
  <2> QED
    BY <1>2, <1>3, <2>1, <2>6, Carry DEF wires
<1>8. CASE HubNext(s)
  <2>1. UNCHANGED <<row, wires>>
    BY <1>8 DEF HubNext
  <2>2. CASE todo[s] = <<>>
    BY <1>4, <1>8, <2>2 DEF HubNext
  <2>3. CASE todo[s] # <<>>
    <3>1. /\ todo[s] \in Seq(Commands) /\ Len(todo[s]) >= 1
          /\ Head(todo[s]) = todo[s][1] /\ Head(todo[s]) \in Commands
      BY <2>3 DEF ServerOK
    <3>2. row[Head(todo[s])].st # "none"
      BY <3>1 DEF Inv, TodoInv
    <3>3. Go(s, "dispatch", Head(todo[s]), None)
      BY <1>8, <2>3 DEF HubNext
    <3>4. /\ actor'[s].pc = "dispatch" /\ actor'[s].cmd = Head(todo[s])
          /\ \A b \in Actors \ {s} : actor'[b] = actor[b]
      BY <1>0, <3>1, <3>3, GoPlace DEF Steps
    <3>5. ActorInv'
      BY <1>0, <1>2, <2>1, <3>2, <3>4, ActorMoves
    <3>6. todo' = [todo EXCEPT ![s] = Tail(todo[s])]
      BY <1>8, <2>3 DEF HubNext
    <3>7. ASSUME NEW r \in Sessions, NEW i \in 1 .. Len(todo'[r])
          PROVE  row'[todo'[r][i]].st # "none"
      <4>1. CASE r = s
        <5>1. i + 1 \in 1 .. Len(todo[s]) /\ todo'[s][i] = todo[s][i + 1]
          BY <3>1, <3>6, <3>7, <4>1, HeadTailProperties DEF ServerOK
        <5> QED
          BY <2>1, <4>1, <5>1 DEF Inv, TodoInv
      <4>2. CASE r # s
        BY <2>1, <3>6, <3>7, <4>2 DEF Inv, TodoInv, ServerOK
      <4> QED
        BY <4>1, <4>2
    <3>8. TodoInv'
      BY <3>7 DEF TodoInv
    <3> QED
      BY <1>2, <1>3, <2>1, <3>5, <3>8, Carry DEF wires
  <2> QED
    BY <2>2, <2>3
<1>9. CASE HubResult(s)
  <2> DEFINE r == Head(toServer[s])
             st == IF r.ok THEN "succeeded" ELSE "failed"
  <2>1. /\ toServer[s] \in Seq(Results) /\ Len(toServer[s]) >= 1
        /\ r = toServer[s][1] /\ r \in Results
    BY <1>9 DEF HubResult, WiresOK
  <2>2. r.cmd \in Commands /\ st \in Open \cup Terminal
    BY <2>1 DEF Results, Open, Terminal
  <2>3. SetCompleted(r.cmd, st) /\ UNCHANGED <<actor, todo, toWorker>>
    BY <1>9 DEF HubResult
  <2>4. r.ok => effects[r.cmd] > 0
    BY <2>1 DEF Inv, ResultInv
  <2>5. st # "none" /\ st # "approved" /\ (st = "succeeded" => effects[r.cmd] > 0)
    BY <2>4
  <2>6. toServer' = [toServer EXCEPT ![s] = Tail(toServer[s])]
    BY <1>9 DEF HubResult
  <2> HIDE DEF r, st
  <2>7. \A d \in Commands :
          /\ row'[d].st = IF d = r.cmd THEN st ELSE row[d].st
          /\ row'[d].gated = row[d].gated /\ row'[d].issuer = row[d].issuer
          /\ row'[d].approver = row[d].approver /\ row'[d].created = row[d].created
    BY <2>2, <2>3, SetCompletedRow
  <2>8. Lasting
    BY <1>1, <2>5, <2>7, LastingUpdate
  <2>9. RowInv'
    BY <1>1, <2>5, <2>7 DEF Inv, RowInv, Vetted
  <2>10. ASSUME NEW q \in Sessions, NEW i \in 1 .. Len(toServer'[q])
         PROVE  \E j \in 1 .. Len(toServer[q]) : toServer'[q][i] = toServer[q][j]
    <3>1. CASE q = s
      <4>1. i + 1 \in 1 .. Len(toServer[s]) /\ toServer'[s][i] = toServer[s][i + 1]
        BY <2>1, <2>6, <2>10, <3>1, HeadTailProperties DEF WiresOK
      <4> QED
        BY <3>1, <4>1
    <3>2. CASE q # s
      BY <2>6, <2>10, <3>2 DEF WiresOK
    <3> QED
      BY <3>1, <3>2
  <2>11. ResultInv'
    BY <2>8, <2>10, ResultsShortened
  <2> QED
    BY <1>3, <2>3, <2>8, <2>9, <2>11, Carry
<1> QED
  BY <1>5, <1>6, <1>7, <1>8, <1>9 DEF HubStep

LEMMA InvWorkerStep ==
    ASSUME TypeOK, TypeOK', Inv, WorkerStep
    PROVE  Inv'
<1> USE DEF TypeOK
<1>1. UNCHANGED <<row, actor, todo, now>>
  BY DEF WorkerStep, Connect, WorkerReceive, WorkerDisconnect, Refuse, Replay, StartApply, Effect,
         Record, Throw, Prune, server, env
<1>2. (\A c \in Commands : effects'[c] >= effects[c]) => Lasting /\ RowInv'
  BY <1>1, LastingSame, RowInvSame DEF CountsOK
<1>3. UNCHANGED effects => Lasting
  BY <1>2 DEF CountsOK
<1>4. ASSUME Lasting, WireInv', QueueInv', ResultInv', ExecInv', MemoInv', CountInv' PROVE Inv'
  BY <1>1, <1>4, Carry, RowInvSame DEF Inv
<1>5. ASSUME NEW s \in Sessions, Connect(s) PROVE Inv'
  <2>1. UNCHANGED <<wq, exec, memo, effects, gaps, toServer>> /\ toWorker' = <<>>
    BY <1>5 DEF Connect, ghosts
  <2>2. WireInv'
    BY <2>1 DEF WireInv
  <2> QED
    BY <1>3, <1>4, <2>1, <2>2, Carry
<1>6. CASE WorkerReceive
  <2>1. UNCHANGED <<exec, memo, effects, gaps, toServer>>
    BY <1>6 DEF WorkerReceive, ghosts
  <2>2. /\ toWorker \in Seq(Written) /\ Len(toWorker) >= 1 /\ toWorker' = Tail(toWorker)
        /\ Head(toWorker) = toWorker[1] /\ Head(toWorker) \in Written
    BY <1>6 DEF WorkerReceive, WiresOK
  <2>3. ASSUME NEW i \in 1 .. Len(toWorker')
        PROVE  \E j \in 1 .. Len(toWorker) : toWorker'[i] = toWorker[j]
    <3>1. i + 1 \in 1 .. Len(toWorker) /\ toWorker'[i] = toWorker[i + 1]
      BY <2>2, HeadTailProperties
    <3> QED
      BY <3>1
  <2>4. WireInv'
    BY <1>3, <2>1, <2>3, WireShortened
  <2>5. QueueInv'
    <3>1. CASE UNCHANGED wq
      BY <1>3, <2>1, <3>1, Carry
    <3>2. CASE Head(toWorker).cmd # None /\ wq' = Append(wq, Head(toWorker))
      <4> DEFINE m == Head(toWorker)
      <4>1. Sound(m)
        BY <2>2, <3>2 DEF Inv, WireInv
      <4>2. m \in Queued
        BY <2>2, <3>2 DEF Written, Queued
      <4> SUFFICES ASSUME NEW i \in 1 .. Len(wq')
                   PROVE  Sound(wq[i])'
        BY DEF QueueInv
      <4> HIDE DEF m
      <4>3. wq' = Append(wq, m)
        BY <3>2 DEF m
      <4>4. \/ i \in 1 .. Len(wq) /\ wq'[i] = wq[i]
            \/ wq'[i] = m
        BY <4>2, <4>3 DEF WorkerOK
      <4>5. Sound(wq'[i])
        BY <4>1, <4>4 DEF Inv, QueueInv
      <4> QED
        BY <1>1, <4>5 DEF Sound, Vetted
    <3> QED
      BY <1>6, <3>1, <3>2 DEF WorkerReceive
  <2> QED
    BY <1>3, <1>4, <2>1, <2>4, <2>5, Carry
<1>7. CASE WorkerDisconnect
  <2>1. UNCHANGED <<wq, exec, memo, effects, gaps>>
    BY <1>7 DEF WorkerDisconnect, ghosts
  <2>2. WireInv' /\ ResultInv'
    BY <1>3, <1>7, <2>1, StreamDropped DEF WorkerDisconnect, WorkerOK
  <2> QED
    BY <1>3, <1>4, <2>1, <2>2, Carry
<1>8. CASE Refuse
  <2>1. UNCHANGED <<exec, memo, effects, gaps, toWorker>>
    BY <1>8 DEF Refuse, ghosts
  <2>2. QueueInv' /\ Head(wq).cmd \in Commands
    BY <1>3, <1>8, <2>1, QueueTaken DEF Refuse, Queued
  <2>3. ResultInv'
    BY <1>3, <1>8, <2>1, <2>2, ResultSent DEF Refuse
  <2> QED
    BY <1>3, <1>4, <2>1, <2>2, <2>3, Carry
<1>9. CASE Replay
  <2>1. UNCHANGED <<exec, memo, effects, gaps, toWorker>>
    BY <1>9 DEF Replay, ghosts
  <2>2. QueueInv' /\ Head(wq).cmd \in Commands
    BY <1>3, <1>9, <2>1, QueueTaken DEF Replay, Queued
  <2>3. /\ RecordedOutcome(Head(wq).cmd) \in BOOLEAN
        /\ RecordedOutcome(Head(wq).cmd) => effects[Head(wq).cmd] > 0
    BY <1>9, <2>2 DEF Replay, Recorded, RecordedOutcome, WorkerOK, Records, Inv, MemoInv
  <2>4. ResultInv'
    BY <1>3, <1>9, <2>1, <2>2, <2>3, ResultSent DEF Replay
  <2> QED
    BY <1>3, <1>4, <2>1, <2>2, <2>4, Carry
<1>10. CASE StartApply
  <2>1. UNCHANGED <<memo, effects, gaps, toWorker, toServer>>
    BY <1>10 DEF StartApply, ghosts, wires
  <2> DEFINE c == Head(wq).cmd
  <2>2. /\ QueueInv' /\ Sound(Head(wq)) /\ Head(wq).issued \in Nat
        /\ c \in Commands
    BY <1>3, <1>10, <2>1, QueueTaken DEF StartApply, Queued
  <2>3. /\ exec.pc = "idle" /\ exec'.pc = "applying" /\ exec'.cmd = c
        /\ Fresh(Head(wq).issued) /\ memo[c] = None
    BY <1>10 DEF StartApply, Recorded
  <2> HIDE DEF c
  <2>4. ~Spent(c)
    <3>1. /\ now + Skew - Head(wq).issued <= MaxAge
          /\ Head(wq).issued <= row[c].created + TTL
      BY <2>2, <2>3, TimingAssumption DEF Fresh, WorkerClock, Sound, c, CountsOK
    <3>2. {now, row[c].created, TTL, MaxAge, Head(wq).issued} \subseteq Nat /\ Skew \in Int
      BY <2>2, TimingAssumption DEF CountsOK, ServerOK, Rows
    <3> QED
      BY <2>3, <3>1, <3>2 DEF Spent
  <2>5. effects[c] <= gaps[c]
    BY <2>2, <2>3, <2>4 DEF Inv, CountInv, Busy
  <2>6. ExecInv'
    BY <1>1, <2>2, <2>3 DEF ExecInv, Sound, Vetted, c
  <2>7. CountInv'
    BY <1>1, <2>1, <2>3, <2>5 DEF Inv, CountInv, Busy, Spent, Vetted
  <2> QED
    BY <1>3, <1>4, <2>1, <2>2, <2>6, <2>7, Carry
<1>11. CASE Effect
  <2>1. UNCHANGED <<memo, gaps, wq, toWorker, toServer>>
    BY <1>11 DEF Effect, wires
  <2>2. exec.cmd \in Commands /\ exec.pc = "applying"
    BY <1>11 DEF Effect, WorkerOK
  <2>3. /\ exec'.pc = "applied" /\ exec'.cmd = exec.cmd
        /\ \A c \in Commands : effects'[c] = IF c = exec.cmd THEN effects[c] + 1 ELSE effects[c]
    BY <1>11, <2>2 DEF Effect, WorkerOK, CountsOK
  <2>4. Lasting
    BY <1>2, <2>3 DEF CountsOK
  <2>5. ExecInv'
    BY <1>1, <2>2, <2>3 DEF Inv, ExecInv, Vetted, CountsOK
  <2>6. CountInv'
    BY <1>1, <2>1, <2>2, <2>3 DEF Inv, CountInv, ExecInv, Busy, Spent, Vetted, CountsOK
  <2> QED
    BY <1>4, <2>1, <2>4, <2>5, <2>6, Carry
<1>12. ASSUME NEW ok \in BOOLEAN, Record(ok) PROVE Inv'
  <2>1. UNCHANGED <<effects, gaps, wq, toWorker>>
    BY <1>12 DEF Record, ghosts
  <2>2. exec.cmd \in Commands /\ (ok => effects[exec.cmd] > 0)
    BY <1>12 DEF Record, WorkerOK, Inv, ExecInv
  <2>3. /\ exec'.pc = "idle"
        /\ \A c \in Commands : c # exec.cmd => memo'[c] = memo[c]
        /\ memo'[exec.cmd] = IF memo[exec.cmd] = None THEN [ok |-> ok, at |-> WorkerClock]
                             ELSE memo[exec.cmd]
    BY <1>12, <2>2 DEF Record, WorkerOK
  <2>4. ResultInv'
    BY <1>3, <1>12, <2>1, <2>2, ResultSent DEF Record
  <2>5. ExecInv'
    BY <2>3 DEF ExecInv
  <2>6. row[exec.cmd].st # "none" /\ WorkerClock >= row[exec.cmd].created + Skew
    <3>1. row[exec.cmd].created <= now /\ {now, row[exec.cmd].created} \subseteq Nat /\ Skew \in Int
      BY <2>2, TimingAssumption DEF Inv, RowInv, CountsOK, ServerOK, Rows
    <3>2. row[exec.cmd].st # "none"
      BY <1>12 DEF Record, Inv, ExecInv, Vetted
    <3> QED
      BY <3>1, <3>2 DEF WorkerClock
  <2>7. MemoInv'
    BY <1>1, <2>1, <2>2, <2>3, <2>6 DEF Inv, MemoInv
  <2>8. memo'[exec.cmd] # None
    <3>1. [ok |-> ok, at |-> WorkerClock] \in [ok : BOOLEAN, at : Int]
      BY TimingAssumption DEF WorkerClock, CountsOK
    <3> QED
      BY <2>3, <3>1, NamesAssumption
  <2>9. CountInv'
    BY <1>1, <2>1, <2>2, <2>3, <2>8 DEF Inv, CountInv, Busy, Spent, Vetted
  <2> QED
    BY <1>3, <1>4, <2>1, <2>4, <2>5, <2>7, <2>9, Carry
<1>13. CASE Throw
  <2>1. UNCHANGED <<effects, memo, wq, toWorker, toServer>>
    BY <1>13 DEF Throw, wires
  <2>2. ExecInv' /\ CountInv'
    BY <1>1, <1>3, <1>13, <2>1, ExecutionLost DEF Throw
  <2> QED
    BY <1>3, <1>4, <2>1, <2>2, Carry
<1>14. CASE Prune
  <2>1. UNCHANGED <<effects, gaps, exec, wq, toWorker, toServer>>
    BY <1>14 DEF Prune, ghosts, wires
  <2>2. \A c \in Commands : memo'[c] = IF Prunable(c) THEN None ELSE memo[c]
    BY <1>14 DEF Prune
  <2>3. MemoInv'
    BY <1>1, <2>1, <2>2 DEF Inv, MemoInv
  <2>4. ASSUME NEW c \in Commands, Spent(c) PROVE Spent(c)'
    <3>1. CASE ~Prunable(c)
      BY <1>1, <2>2, <2>4, <3>1 DEF Spent
    <3>2. CASE Prunable(c)
      <4>1. memo[c] # None /\ memo[c].at < WorkerClock - Retention
        BY <3>2 DEF Prunable
      <4>2. memo[c].at >= row[c].created + Skew
        BY <4>1 DEF Inv, MemoInv
      <4>3. /\ {now, row[c].created, TTL, MaxAge, Retention} \subseteq Nat
            /\ Skew \in Int /\ memo[c].at \in Int
            /\ TTL + MaxAge - Skew <= Retention
        BY <4>1, TimingAssumption DEF CountsOK, ServerOK, WorkerOK, Rows, Records
      <4>4. now + Skew > row[c].created + TTL + MaxAge
        BY <4>1, <4>2, <4>3 DEF WorkerClock
      <4> QED
        BY <1>1, <4>4 DEF Spent
    <3> QED
      BY <3>1, <3>2
  <2>5. CountInv'
    BY <1>1, <2>1, <2>4 DEF Inv, CountInv, Busy, Vetted
  <2> QED
    BY <1>3, <1>4, <2>1, <2>3, <2>5, Carry
<1> QED
  BY <1>5, <1>6, <1>7, <1>8, <1>9, <1>10, <1>11, <1>12, <1>13, <1>14 DEF WorkerStep

LEMMA InvEnvironmentStep ==
    ASSUME TypeOK, TypeOK', Inv, ExpireStale \/ WorkerCrash \/ ControlPlaneCrash \/ Tick
    PROVE  Inv'
<1> USE DEF TypeOK
<1>1. CASE ExpireStale
  <2>1. UNCHANGED <<actor, todo, toServer, toWorker, wq, exec, memo, effects, gaps, now>>
    BY <1>1 DEF ExpireStale, wires, worker, ghosts, env
  <2>2. \A d \in Commands :
          /\ row'[d].st = IF Stale(d) THEN "expired" ELSE row[d].st
          /\ row'[d].gated = row[d].gated /\ row'[d].issuer = row[d].issuer
          /\ row'[d].approver = row[d].approver /\ row'[d].created = row[d].created
    BY <1>1, ExpireStaleRow
  <2>3. Lasting
    BY <2>1, <2>2, LastingUpdate
  <2>4. RowInv'
    BY <2>1, <2>2 DEF Inv, RowInv, Vetted
  <2> QED
    BY <2>1, <2>3, <2>4, Carry DEF Inv
<1>2. CASE WorkerCrash
  <2>1. UNCHANGED <<row, actor, todo, memo, effects, now>> /\ wq' = <<>>
    BY <1>2 DEF WorkerCrash
  <2>2. Lasting /\ RowInv'
    BY <2>1, LastingSame, RowInvSame DEF CountsOK
  <2>3. ExecInv' /\ CountInv'
    BY <1>2, <2>1, <2>2, ExecutionLost DEF WorkerCrash
  <2>4. WireInv' /\ ResultInv'
    <3>1. CASE link.cur = None
      BY <1>2, <2>2, <3>1, Carry DEF WorkerCrash, wires
    <3>2. CASE link.cur # None
      BY <1>2, <2>2, <3>2, StreamDropped DEF WorkerCrash, WorkerOK
    <3> QED
      BY <3>1, <3>2
  <2>5. QueueInv'
    BY <2>1 DEF QueueInv
  <2> QED
    BY <2>1, <2>2, <2>3, <2>4, <2>5, Carry DEF Inv
<1>3. CASE ControlPlaneCrash
  <2>1. UNCHANGED <<row, wq, exec, memo, effects, gaps, now>>
    BY <1>3 DEF ControlPlaneCrash, worker, ghosts
  <2>2. Lasting /\ RowInv'
    BY <2>1, LastingSame, RowInvSame DEF CountsOK
  <2>3. ActorInv' /\ TodoInv' /\ ResultInv'
    BY <1>3 DEF ControlPlaneCrash, ActorInv, TodoInv, ResultInv, Idle
  <2>4. PICK kept \in 0 .. Len(toWorker) : toWorker' = SubSeq(toWorker, 1, kept)
    BY <1>3 DEF ControlPlaneCrash
  <2>5. Len(toWorker) \in Nat /\ \A i \in 1 .. kept : toWorker[i] \in Written
    BY <2>4, LenProperties, ElementOfSeq DEF WiresOK
  <2>6. Len(toWorker') = kept /\ \A i \in 1 .. kept : toWorker'[i] = toWorker[i]
    BY <2>4, <2>5, SubSeqProperties
  <2>7. \A i \in 1 .. Len(toWorker') : \E j \in 1 .. Len(toWorker) : toWorker'[i] = toWorker[j]
    BY <2>4, <2>5, <2>6
  <2>8. WireInv'
    BY <2>2, <2>7, WireShortened
  <2> QED
    BY <2>1, <2>2, <2>3, <2>8, Carry DEF Inv
<1>4. CASE Tick
  <2>1. UNCHANGED <<row, actor, todo, toServer, toWorker, wq, exec, memo, effects, gaps>>
    BY <1>4 DEF Tick, server, wires, worker, ghosts
  <2>2. Lasting /\ RowInv'
    BY <1>4, <2>1, LastingSame, RowInvSame DEF CountsOK, Tick
  <2> QED
    BY <2>1, <2>2, Carry DEF Inv
<1> QED
  BY <1>1, <1>2, <1>3, <1>4

LEMMA InvStutter == ASSUME TypeOK, TypeOK', Inv, UNCHANGED vars PROVE Inv'
<1>1. UNCHANGED <<row, actor, todo, toServer, toWorker, wq, exec, memo, effects, gaps, now>>
  BY DEF vars, server, wires, worker, ghosts, env
<1>2. Lasting /\ RowInv'
  BY <1>1, LastingSame, RowInvSame DEF TypeOK, CountsOK
<1> QED
  BY <1>1, <1>2, Carry DEF Inv

LEMMA InvInit == Init => Inv
BY NamesAssumption, TimingAssumption
DEF Init, Inv, RowInv, ActorInv, TodoInv, WireInv, QueueInv, ResultInv, ExecInv, MemoInv, CountInv,
    NoRow, Idle, Busy, Spent

(* The invariant the theorems below read off: who has vetted what, which    *)
(* deadline travels with a message, and what the idempotency record covers. *)
THEOREM Inductive == Spec => [](TypeOK /\ Inv)
<1>1. ASSUME TypeOK, Inv, [Next]_vars PROVE Inv'
  <2>1. TypeOK'
    BY <1>1, TypeStep
  <2> QED
    BY <1>1, <2>1, InvServerStep, InvRequestStep, InvHubStep, InvWorkerStep, InvEnvironmentStep,
       InvStutter
    DEF Next, Handler
<1>2. TypeOK /\ Inv /\ [Next]_vars => Inv'
  BY <1>1
<1> QED
  BY <1>2, InvInit, TypeCorrect, PTL DEF Spec

-----------------------------------------------------------------------------
(* Results.                                                                 *)

(* However a command is redelivered, msdb is changed once, plus once for    *)
(* each time the worker lost track between msdb and applied_commands.       *)
THEOREM AtMostOnce == Spec => []NoDoubleApply
<1>1. Inv => NoDoubleApply
  BY DEF Inv, CountInv, NoDoubleApply
<1> QED
  BY <1>1, Inductive, PTL

(* A gated change in msdb has an approver who is not its issuer, whatever   *)
(* the unguarded UPDATEs of approve, reject, dispatch and expiry raced on.  *)
THEOREM ApprovedByAnother == Spec => []FourEyes
<1>1. Inv => FourEyes
  BY DEF Inv, CountInv, FourEyes, Vetted
<1> QED
  BY <1>1, Inductive, PTL

(* "succeeded", first report or replay, is only ever said of a command that *)
(* changed msdb.                                                            *)
THEOREM SuccessIsReal == Spec => []SucceededWasApplied
<1>1. Inv => SucceededWasApplied
  BY DEF Inv, RowInv, SucceededWasApplied
<1> QED
  BY <1>1, Inductive, PTL

(* The last moment at which a command can still be handed to msdb.          *)
THEOREM NoLateApply == Spec => AppliedInWindow
<1>1. TypeOK /\ Inv /\ [Next]_vars
        => [exec'.pc = "applying" /\ exec.pc = "idle"
              => now <= row[exec'.cmd].created + TTL + MaxAge - Skew]_vars
  <2> SUFFICES ASSUME TypeOK, Inv, Next, exec'.pc = "applying", exec.pc = "idle"
               PROVE  now <= row[exec'.cmd].created + TTL + MaxAge - Skew
    BY DEF vars, worker
  <2>1. StartApply
    <3>1. exec' # exec
      OBVIOUS
    <3>2. StartApply \/ Effect \/ (\E ok \in BOOLEAN : Record(ok)) \/ Throw \/ WorkerCrash
      <4>1. ~(\E r \in Requests : Handler(r))
        BY <3>1 DEF Handler, Create, ApproveRead, RejectRead, worker
      <4>2. ~(\E a \in Actors : Finishing(a))
        BY <3>1 DEF Finishing, ApproveWrite, RejectWrite, DispatchRead, DispatchSend,
                    DispatchMark, MarkExpired, worker
      <4>3. ~(\E s \in Sessions : HubStep(s))
        BY <3>1 DEF HubStep, HubHello, HubAck, HubList, HubNext, HubResult, HubTeardown, worker
      <4>4. ~(ExpireStale \/ ControlPlaneCrash \/ Tick)
        BY <3>1 DEF ExpireStale, ControlPlaneCrash, Tick, worker
      <4>5. ~((\E s \in Sessions : Connect(s)) \/ WorkerReceive \/ WorkerDisconnect \/ Refuse
              \/ Replay \/ Prune)
        BY <3>1 DEF Connect, WorkerReceive, WorkerDisconnect, Refuse, Replay, Prune
      <4> QED
        BY <4>1, <4>2, <4>3, <4>4, <4>5 DEF Next, WorkerStep
    <3> QED
      BY <3>2 DEF Effect, Record, Throw, WorkerCrash
  <2>2. wq \in Seq(Queued) /\ wq # <<>> /\ exec'.cmd = Head(wq).cmd /\ Fresh(Head(wq).issued)
    BY <2>1 DEF StartApply, TypeOK, WorkerOK
  <2>3. Len(wq) >= 1 /\ Head(wq) = wq[1] /\ Head(wq) \in Queued
    BY <2>2
  <2>4. Sound(Head(wq))
    BY <2>3 DEF Inv, QueueInv
  <2>5. Head(wq).cmd \in Commands /\ Head(wq).issued \in Nat
    BY <2>3 DEF Queued
  <2>6. /\ now + Skew - Head(wq).issued <= MaxAge
        /\ Head(wq).issued <= row[Head(wq).cmd].created + TTL
    BY <2>2, <2>4, <2>5, TimingAssumption DEF Fresh, WorkerClock, Sound, TypeOK, CountsOK
  <2>7. {now, row[Head(wq).cmd].created, TTL, MaxAge} \subseteq Nat /\ Skew \in Int
    BY <2>5, TimingAssumption DEF TypeOK, CountsOK, ServerOK, Rows
  <2>8. now <= row[Head(wq).cmd].created + TTL + MaxAge - Skew
    <3>1. \A n, i, c, l, a \in Nat, k \in Int :
             n + k - i <= a /\ i <= c + l => n <= c + l + a - k
      OBVIOUS
    <3> QED
      BY ONLY <2>5, <2>6, <2>7, <3>1
  <2> QED
    BY <2>2, <2>8
<1> QED
  BY <1>1, Inductive, PTL DEF Spec, AppliedInWindow

-----------------------------------------------------------------------------
(* What the refinement needs beyond Inv: only rows that exist have people   *)
(* behind them and results on the way, and a lost outcome was an effect.    *)
KnownInv ==
    /\ \A c \in Commands :
         IF row[c].st = "none" THEN row[c].issuer = None /\ row[c].approver = None
                               ELSE row[c].issuer # None
    /\ \A s \in Sessions : \A i \in 1 .. Len(toServer[s]) : row[toServer[s][i].cmd].st # "none"
LossInv ==
    \A c \in Commands :
        /\ gaps[c] <= effects[c]
        /\ Busy("applied", c) => gaps[c] < effects[c]

(* A step that shows nothing of a row to the promise.                       *)
Alike ==
    \A c \in Commands :
        /\ row'[c].st = "none" <=> row[c].st = "none"
        /\ row'[c].gated = row[c].gated
        /\ row'[c].issuer = row[c].issuer
        /\ row'[c].approver = row[c].approver

LEMMA AlikeShowsNothing ==
    ASSUME Alike, UNCHANGED <<effects, gaps>>
    PROVE  UNCHANGED Promise!vars
BY DEF Alike, Promise!vars

(* A result on the way is one that was on the way before, or is about a     *)
(* command that exists.                                                     *)
KnownResults ==
    \A s \in Sessions : \A i \in 1 .. Len(toServer'[s]) :
        \/ \E j \in 1 .. Len(toServer[s]) : toServer'[s][i] = toServer[s][j]
        \/ /\ toServer'[s][i].cmd \in Commands
           /\ row[toServer'[s][i].cmd].st # "none"

LEMMA KnownKept ==
    ASSUME TypeOK, KnownInv, Alike, KnownResults
    PROVE  KnownInv'
<1>1. \A c \in Commands :
         IF row'[c].st = "none" THEN row'[c].issuer = None /\ row'[c].approver = None
                                ELSE row'[c].issuer # None
  BY DEF KnownInv, Alike
<1>2. ASSUME NEW s \in Sessions, NEW i \in 1 .. Len(toServer'[s])
      PROVE  row'[toServer'[s][i].cmd].st # "none"
  <2>1. CASE \E j \in 1 .. Len(toServer[s]) : toServer'[s][i] = toServer[s][j]
    <3>1. PICK j \in 1 .. Len(toServer[s]) : toServer'[s][i] = toServer[s][j]
      BY <2>1
    <3>2. toServer[s][j] \in Results
      BY DEF TypeOK, WiresOK
    <3>3. toServer[s][j].cmd \in Commands
      BY <3>2 DEF Results
    <3> QED
      BY <3>1, <3>3 DEF KnownInv, Alike
  <2>2. CASE toServer'[s][i].cmd \in Commands /\ row[toServer'[s][i].cmd].st # "none"
    BY <2>2 DEF Alike
  <2> QED
    BY <2>1, <2>2 DEF KnownResults
<1> QED
  BY <1>1, <1>2 DEF KnownInv

LEMMA SameResults == UNCHANGED toServer => KnownResults
BY DEF KnownResults

LEMMA SameRow == UNCHANGED row => Alike
BY DEF Alike

LEMMA SameLoss == ASSUME LossInv, UNCHANGED <<effects, gaps, exec>> PROVE LossInv'
BY DEF LossInv, Busy

(* An UPDATE that only moves the state of a row that exists.                *)
LEMMA StateMoved ==
    ASSUME TypeOK, NEW c \in Commands, row[c].st # "none", NEW st \in Open \cup Terminal,
           SetState(c, st) \/ SetCompleted(c, st)
    PROVE  Alike
<1>1. st # "none"
  BY DEF Open, Terminal
<1>2. \A d \in Commands :
        /\ row'[d].st = IF d = c THEN st ELSE row[d].st
        /\ row'[d].gated = row[d].gated /\ row'[d].issuer = row[d].issuer
        /\ row'[d].approver = row[d].approver
  BY SetStateRow, SetCompletedRow DEF TypeOK
<1> QED
  BY <1>1, <1>2 DEF Alike

(* What a worker's result adds to the stream is about a command it had.     *)
LEMMA ResultKnown ==
    ASSUME TypeOK, NEW c \in Commands, row[c].st # "none", NEW ok \in BOOLEAN, SendResult(c, ok)
    PROVE  KnownResults
<1> USE DEF TypeOK
<1>1. CASE ~link.ready
  BY <1>1, SameResults DEF SendResult
<1>2. CASE link.ready
  <2>1. link.cur \in Sessions
    BY <1>2 DEF WorkerOK
  <2> DEFINE r == [cmd |-> c, ok |-> ok]
  <2>2. r \in Results /\ r.cmd = c
    BY DEF Results
  <2>3. /\ toServer'[link.cur] = Append(toServer[link.cur], r)
        /\ \A s \in Sessions \ {link.cur} : toServer'[s] = toServer[s]
    BY <1>2, <2>1 DEF SendResult, WiresOK
  <2> HIDE DEF r
  <2>4. ASSUME NEW s \in Sessions, NEW i \in 1 .. Len(toServer'[s])
        PROVE  \/ i \in 1 .. Len(toServer[s]) /\ toServer'[s][i] = toServer[s][i]
               \/ toServer'[s][i] = r
    <3>1. CASE s # link.cur
      BY <2>3, <3>1
    <3>2. CASE s = link.cur
      <4>1. toServer[s] \in Seq(Results)
        BY DEF WiresOK
      <4> QED
        BY <2>2, <2>3, <3>2, <4>1
    <3> QED
      BY <3>1, <3>2
  <2> QED
    BY <2>2, <2>4 DEF KnownResults
<1> QED
  BY <1>1, <1>2

LEMMA DropKnown ==
    ASSUME TypeOK, NEW s \in Sessions, DropStream(s)
    PROVE  KnownResults
<1>1. PICK kept \in 0 .. Len(toServer[s]) :
        toServer' = [toServer EXCEPT ![s] = SubSeq(@, 1, kept)]
  BY DEF DropStream
<1>2. toServer[s] \in Seq(Results) /\ Len(toServer[s]) \in Nat
  BY LenProperties DEF TypeOK, WiresOK
<1>3. /\ Len(toServer'[s]) = kept
      /\ \A i \in 1 .. kept : toServer'[s][i] = toServer[s][i]
      /\ \A r \in Sessions \ {s} : toServer'[r] = toServer[r]
  BY <1>1, <1>2, SubSeqProperties DEF TypeOK, WiresOK
<1>4. ASSUME NEW r \in Sessions, NEW i \in 1 .. Len(toServer'[r])
      PROVE  i \in 1 .. Len(toServer[r]) /\ toServer'[r][i] = toServer[r][i]
  BY <1>1, <1>2, <1>3
<1> QED
  BY <1>4 DEF KnownResults

-----------------------------------------------------------------------------
(* Each step keeps the two invariants and is a step of the promise.         *)

Kept == KnownInv' /\ LossInv' /\ [Promise!Next]_(Promise!vars)

(* Most steps: nothing is shown, nothing is counted.                        *)
LEMMA Quiet ==
    ASSUME TypeOK, KnownInv, LossInv, Alike, KnownResults, UNCHANGED <<effects, gaps, exec>>
    PROVE  Kept
BY AlikeShowsNothing, KnownKept, SameLoss DEF Kept

LEMMA IssueStep ==
    ASSUME TypeOK, KnownInv, LossInv, NEW a \in Requests, NEW c \in Commands, NEW u \in Users,
           NEW gated \in BOOLEAN, Create(a, c, u, gated)
    PROVE  Kept
<1>1. UNCHANGED <<toServer, effects, gaps, exec>> /\ row[c].st = "none"
  BY DEF Create, wires, worker, ghosts
<1>2. /\ row'[c] = NewRow(u, gated) /\ \A d \in Commands \ {c} : row'[d] = row[d]
  BY CreateRow DEF TypeOK, CountsOK
<1>3. /\ row'[c].issuer = u /\ row'[c].gated = gated /\ row'[c].approver = None
      /\ row'[c].st # "none" /\ u # None
  BY <1>2, NamesAssumption DEF NewRow
<1>4. KnownInv'
  <2>1. \A d \in Commands :
           IF row'[d].st = "none" THEN row'[d].issuer = None /\ row'[d].approver = None
                                  ELSE row'[d].issuer # None
    BY <1>2, <1>3 DEF KnownInv
  <2>2. ASSUME NEW s \in Sessions, NEW i \in 1 .. Len(toServer[s])
        PROVE  row'[toServer[s][i].cmd].st # "none"
    <3>1. toServer[s][i] \in Results
      BY DEF TypeOK, WiresOK
    <3>2. toServer[s][i].cmd \in Commands
      BY <3>1 DEF Results
    <3> QED
      BY <1>1, <1>2, <1>3, <3>2 DEF KnownInv
  <2> QED
    BY <1>1, <2>1, <2>2 DEF KnownInv
<1>5. Promise!Issue(c, u, gated)
  BY <1>1, <1>2, <1>3 DEF Promise!Issue, KnownInv
<1> QED
  BY <1>1, <1>4, <1>5, SameLoss DEF Kept, Promise!Next

LEMMA ApproveStep ==
    ASSUME TypeOK, Inv, KnownInv, LossInv, NEW a \in Actors, ApproveWrite(a)
    PROVE  Kept
<1>1. /\ UNCHANGED <<toServer, effects, gaps, exec>>
      /\ actor[a].pc # "idle" /\ actor[a].cmd \in Commands
      /\ actor[a].user \in Users \cup {None}
      /\ row[actor[a].cmd].st # "none"
      /\ actor[a].user \notin {None, row[actor[a].cmd].issuer}
  BY AtWork DEF ApproveWrite, TypeOK, Inv, ActorInv, wires, worker, ghosts
<1> DEFINE c == actor[a].cmd  u == actor[a].user
<1>2. \A d \in Commands :
        /\ row'[d].st = IF d = c THEN "approved" ELSE row[d].st
        /\ row'[d].gated = row[d].gated /\ row'[d].issuer = row[d].issuer
        /\ row'[d].approver = IF d = c THEN u ELSE row[d].approver
  BY <1>1, SetApprovedRow DEF ApproveWrite, TypeOK
<1>3. c \in Commands /\ u \in Users /\ row[c].issuer \notin {None, u} /\ row[c].st # "none"
  BY <1>1 DEF KnownInv
<1> HIDE DEF c, u
<1>4. KnownInv'
  <2>1. \A d \in Commands :
           IF row'[d].st = "none" THEN row'[d].issuer = None /\ row'[d].approver = None
                                  ELSE row'[d].issuer # None
    BY <1>2, <1>3 DEF KnownInv
  <2>2. ASSUME NEW s \in Sessions, NEW i \in 1 .. Len(toServer[s])
        PROVE  row'[toServer[s][i].cmd].st # "none"
    <3>1. toServer[s][i] \in Results
      BY DEF TypeOK, WiresOK
    <3>2. toServer[s][i].cmd \in Commands
      BY <3>1 DEF Results
    <3> QED
      BY <1>2, <3>2 DEF KnownInv
  <2> QED
    BY <1>1, <2>1, <2>2 DEF KnownInv
<1>5. Promise!Approve(c, u)
  BY <1>1, <1>2, <1>3 DEF Promise!Approve
<1>6. Promise!Next
  BY <1>3, <1>5 DEF Promise!Next, Promise!Approve
<1>7. LossInv'
  BY <1>1, SameLoss
<1> QED
  BY <1>4, <1>6, <1>7 DEF Kept

LEMMA FinishingStep ==
    ASSUME TypeOK, Inv, KnownInv, LossInv, NEW a \in Actors, Finishing(a)
    PROVE  Kept
<1>1. /\ UNCHANGED <<toServer, effects, gaps, exec>>
      /\ actor[a].pc # "idle"
  BY DEF Finishing, ApproveWrite, RejectWrite, DispatchRead, DispatchSend, DispatchMark,
         MarkExpired, wires, worker, ghosts
<1>2. actor[a].cmd \in Commands /\ row[actor[a].cmd].st # "none"
  BY <1>1, AtWork DEF TypeOK, Inv, ActorInv
<1>3. CASE ApproveWrite(a)
  BY <1>3, ApproveStep
<1>4. CASE UNCHANGED row
  BY <1>1, <1>4, SameRow, SameResults, Quiet
<1>5. ASSUME NEW st \in {"rejected", "dispatched", "expired"},
             SetState(actor[a].cmd, st) \/ SetCompleted(actor[a].cmd, st)
      PROVE  Kept
  <2>1. st \in Open \cup Terminal
    BY DEF Open, Terminal
  <2> QED
    BY <1>1, <1>2, <1>5, <2>1, StateMoved, SameResults, Quiet
<1> QED
  BY <1>3, <1>4, <1>5 DEF Finishing, RejectWrite, DispatchRead, DispatchSend, DispatchMark,
                          MarkExpired

LEMMA HubQuiet ==
    ASSUME TypeOK, KnownInv, LossInv, NEW s \in Sessions, HubStep(s)
    PROVE  Kept
<1>1. UNCHANGED <<effects, gaps, exec>>
  BY DEF HubStep, HubHello, HubAck, HubList, HubNext, HubResult, HubTeardown, worker, ghosts
<1>2. CASE HubResult(s)
  <2>1. /\ toServer[s] \in Seq(Results) /\ toServer[s] # <<>> /\ Len(toServer[s]) >= 1
        /\ Head(toServer[s]) = toServer[s][1] /\ Head(toServer[s]) \in Results
    BY <1>2 DEF HubResult, TypeOK, WiresOK
  <2>2. Head(toServer[s]).cmd \in Commands /\ row[Head(toServer[s]).cmd].st # "none"
    BY <2>1 DEF Results, KnownInv
  <2>3. Alike
    BY <1>2, <2>2, StateMoved DEF HubResult, Terminal
  <2>4. /\ toServer'[s] = Tail(toServer[s])
        /\ \A r \in Sessions \ {s} : toServer'[r] = toServer[r]
    BY <1>2 DEF HubResult, TypeOK, WiresOK
  <2>5. ASSUME NEW r \in Sessions, NEW i \in 1 .. Len(toServer'[r])
        PROVE  \E j \in 1 .. Len(toServer[r]) : toServer'[r][i] = toServer[r][j]
    <3>1. CASE r = s
      <4> DEFINE q == toServer[s]
      <4>0. i \in 1 .. Len(Tail(q)) /\ q \in Seq(Results) /\ q # <<>>
        BY <2>1, <2>4, <3>1
      <4> HIDE DEF q
      <4>1. i + 1 \in 1 .. Len(q) /\ Tail(q)[i] = q[i + 1]
        BY <4>0, HeadTailProperties
      <4> QED
        BY <2>4, <3>1, <4>1 DEF q
    <3>2. CASE r # s
      BY <2>4, <3>2
    <3> QED
      BY <3>1, <3>2
  <2>6. KnownResults
    BY <2>5 DEF KnownResults
  <2> QED
    BY <1>1, <2>3, <2>6, Quiet
<1>3. CASE UNCHANGED <<row, toServer>>
  BY <1>1, <1>3, SameRow, SameResults, Quiet
<1> QED
  BY <1>2, <1>3 DEF HubStep, HubHello, HubAck, HubList, HubNext, HubTeardown, wires

(* Forgetting what is being executed: an effect without a record is lost.   *)
LEMMA LoseStep ==
    ASSUME TypeOK, KnownInv, LossInv, KnownResults, Leaked, exec' = [pc |-> "idle", cmd |-> None],
           UNCHANGED <<row, effects>>
    PROVE  Kept
<1>1. KnownInv'
  BY SameRow, KnownKept
<1>2. CASE exec.pc # "applied"
  <2>1. gaps' = gaps
    BY <1>2 DEF Leaked
  <2>2. LossInv'
    BY <2>1 DEF LossInv, Busy
  <2> QED
    BY <1>1, <2>1, <2>2, SameRow, AlikeShowsNothing DEF Kept
<1>3. CASE exec.pc = "applied"
  <2>1. exec.cmd \in Commands
    BY <1>3 DEF TypeOK, WorkerOK
  <2>2. gaps' = [gaps EXCEPT ![exec.cmd] = @ + 1] /\ gaps[exec.cmd] < effects[exec.cmd]
    BY <1>3, <2>1 DEF Leaked, LossInv, Busy
  <2>3. LossInv'
    BY <2>1, <2>2 DEF LossInv, Busy, TypeOK, CountsOK
  <2>4. Promise!Lose(exec.cmd)
    BY <2>1, <2>2 DEF Promise!Lose
  <2> QED
    BY <1>1, <2>1, <2>3, <2>4 DEF Kept, Promise!Next
<1> QED
  BY <1>2, <1>3

LEMMA ApplyStep ==
    ASSUME TypeOK, Inv, KnownInv, LossInv, Effect
    PROVE  Kept
<1>1. /\ exec.pc = "applying" /\ exec.cmd \in Commands
      /\ UNCHANGED <<row, toServer, gaps>>
      /\ effects' = [effects EXCEPT ![exec.cmd] = @ + 1]
      /\ exec'.pc = "applied" /\ exec'.cmd = exec.cmd
  BY DEF Effect, TypeOK, WorkerOK, server, wires
<1>2. Vetted(exec.cmd) /\ effects[exec.cmd] <= gaps[exec.cmd]
  BY <1>1 DEF Inv, ExecInv, CountInv, Busy
<1>3. KnownInv'
  BY <1>1, SameRow, SameResults, KnownKept
<1>4. LossInv'
  BY <1>1 DEF LossInv, Busy, TypeOK, CountsOK
<1>5. Promise!Apply(exec.cmd)
  BY <1>1, <1>2 DEF Promise!Apply, Vetted, KnownInv
<1> QED
  BY <1>1, <1>3, <1>4, <1>5 DEF Kept, Promise!Next

LEMMA WorkerSteps ==
    ASSUME TypeOK, TypeOK', Inv, KnownInv, LossInv, WorkerStep
    PROVE  Kept
<1>1. UNCHANGED row
  BY DEF WorkerStep, Connect, WorkerReceive, WorkerDisconnect, Refuse, Replay, StartApply, Effect,
         Record, Throw, Prune, server
<1>2. wq # <<>> => Head(wq).cmd \in Commands /\ row[Head(wq).cmd].st # "none"
  <2>1. wq # <<>> => Head(wq) \in Queued /\ Head(wq) = wq[1] /\ Len(wq) >= 1
    BY DEF TypeOK, WorkerOK
  <2> QED
    BY <2>1 DEF Queued, Inv, QueueInv, Sound, Vetted
<1>3. CASE Effect
  BY <1>3, ApplyStep
<1>4. CASE Throw
  BY <1>1, <1>4, SameResults, LoseStep DEF Throw, wires
<1>5. CASE WorkerDisconnect
  <2>1. KnownResults
    BY <1>5, DropKnown DEF WorkerDisconnect, TypeOK, WorkerOK
  <2> QED
    BY <1>1, <1>5, <2>1, SameRow, Quiet DEF WorkerDisconnect, ghosts
<1>6. CASE Refuse
  BY <1>1, <1>2, <1>6, SameRow, ResultKnown, Quiet DEF Refuse, ghosts
<1>7. CASE Replay
  <2>1. RecordedOutcome(Head(wq).cmd) \in BOOLEAN
    BY <1>2, <1>7 DEF Replay, Recorded, RecordedOutcome, TypeOK, WorkerOK, Records
  <2> QED
    BY <1>1, <1>2, <1>7, <2>1, SameRow, ResultKnown, Quiet DEF Replay, ghosts
<1>8. CASE StartApply
  <2>1. UNCHANGED <<effects, gaps, toServer>> /\ exec.pc = "idle" /\ exec'.pc = "applying"
    BY <1>8 DEF StartApply, ghosts, wires
  <2>2. LossInv'
    BY <2>1 DEF LossInv, Busy
  <2> QED
    BY <1>1, <2>1, <2>2, SameRow, SameResults, KnownKept, AlikeShowsNothing DEF Kept
<1>9. ASSUME NEW ok \in BOOLEAN, Record(ok) PROVE Kept
  <2>1. /\ UNCHANGED <<effects, gaps>> /\ exec'.pc = "idle"
        /\ exec.pc # "idle" /\ exec.cmd \in Commands
    BY <1>9 DEF Record, ghosts, TypeOK, WorkerOK
  <2>2. row[exec.cmd].st # "none"
    BY <2>1 DEF Inv, ExecInv, Vetted
  <2>3. KnownResults
    BY <1>9, <2>1, <2>2, ResultKnown DEF Record
  <2>4. LossInv'
    BY <2>1 DEF LossInv, Busy
  <2> QED
    BY <1>1, <2>1, <2>3, <2>4, SameRow, KnownKept, AlikeShowsNothing DEF Kept
<1>10. CASE UNCHANGED <<toServer, effects, gaps, exec>>
  BY <1>1, <1>10, SameRow, SameResults, Quiet
<1> QED
  BY <1>3, <1>4, <1>5, <1>6, <1>7, <1>8, <1>9, <1>10
  DEF WorkerStep, Connect, WorkerReceive, Prune, wires, ghosts

LEMMA EnvironmentSteps ==
    ASSUME TypeOK, Inv, KnownInv, LossInv, ExpireStale \/ WorkerCrash \/ ControlPlaneCrash \/ Tick
    PROVE  Kept
<1>1. CASE ExpireStale
  <2>1. \A d \in Commands :
          /\ row'[d].st = IF Stale(d) THEN "expired" ELSE row[d].st
          /\ row'[d].gated = row[d].gated /\ row'[d].issuer = row[d].issuer
          /\ row'[d].approver = row[d].approver
    BY <1>1, ExpireStaleRow DEF TypeOK
  <2>2. \A d \in Commands : Stale(d) => row[d].st # "none"
    BY DEF Stale, Open
  <2>3. Alike
    BY <2>1, <2>2 DEF Alike
  <2> QED
    BY <1>1, <2>3, SameResults, Quiet DEF ExpireStale, wires, worker, ghosts
<1>2. CASE WorkerCrash
  <2>1. KnownResults
    <3>1. CASE link.cur = None
      BY <1>2, <3>1, SameResults DEF WorkerCrash, wires
    <3>2. CASE link.cur # None
      BY <1>2, <3>2, DropKnown DEF WorkerCrash, TypeOK, WorkerOK
    <3> QED
      BY <3>1, <3>2
  <2> QED
    BY <1>2, <2>1, LoseStep DEF WorkerCrash
<1>3. CASE ControlPlaneCrash
  <2>1. KnownResults
    BY <1>3 DEF ControlPlaneCrash, KnownResults
  <2> QED
    BY <1>3, <2>1, SameRow, Quiet DEF ControlPlaneCrash, worker, ghosts
<1>4. CASE Tick
  BY <1>4, SameRow, SameResults, Quiet DEF Tick, server, wires, worker, ghosts
<1> QED
  BY <1>1, <1>2, <1>3, <1>4

LEMMA EveryStep ==
    ASSUME TypeOK, Inv, KnownInv, LossInv, [Next]_vars
    PROVE  Kept
<1>1. TypeOK'
  BY TypeStep
<1>2. CASE UNCHANGED vars
  BY <1>2, SameRow, SameResults, Quiet DEF vars, server, wires, worker, ghosts
<1>3. ASSUME NEW a \in Requests, NEW c \in Commands, NEW u \in Users,
             ApproveRead(a, c, u) \/ RejectRead(a, c, u)
      PROVE  Kept
  BY <1>3, SameRow, SameResults, Quiet DEF ApproveRead, RejectRead, wires, worker, ghosts
<1> QED
  BY <1>1, <1>2, <1>3, IssueStep, FinishingStep, HubQuiet, WorkerSteps, EnvironmentSteps
  DEF Next, Handler

(* Whatever the handlers, the hub, the timer, the worker, the clock and the *)
(* crashes do, msdb is changed only as CommandPromise allows: by a command  *)
(* somebody issued and, if need be, somebody else approved, and again only  *)
(* after an outcome was lost.                                               *)
THEOREM Implements == Spec => KeepsPromise
<1>1. Init => KnownInv /\ LossInv /\ Promise!Init
  BY NamesAssumption DEF Init, NoRow, KnownInv, LossInv, Busy, Promise!Init
<1>2. TypeOK /\ Inv /\ KnownInv /\ LossInv /\ [Next]_vars
        => KnownInv' /\ LossInv' /\ [Promise!Next]_(Promise!vars)
  BY EveryStep DEF Kept
<1> QED
  BY <1>1, <1>2, Inductive, PTL DEF Spec, KeepsPromise, Promise!Spec
-----------------------------------------------------------------------------
(* No wakeup is lost between approving and connecting.                      *)

(* A dispatch loop that has not listed anything has nothing left to do.     *)
TodoRest == \A s \in Sessions : hub[s] # "listed" => todo[s] = <<>>

Dispatched == registry # None /\ hub[registry] \in {"listed", "ready"}

(* A step that takes no command out of anybody's hands.                     *)
LEMMA NobodyLetsGo ==
    ASSUME NoStrandedCommand, UNCHANGED <<actor, todo>>, Dispatched' => Dispatched,
           \A c \in Commands : row'[c].st = "approved" => row[c].st = "approved"
    PROVE  NoStrandedCommand'
BY DEF NoStrandedCommand, InHand, Dispatched

(* A step of one actor: it keeps its command, or nobody has to have it.     *)
LEMMA OneLetsGo ==
    ASSUME TypeOK, NoStrandedCommand, UNCHANGED <<todo, registry, hub>>, NEW a \in Actors,
           \A b \in Actors \ {a} : actor'[b] = actor[b],
           \A c \in Commands :
               row'[c].st = "approved" /\ registry # None =>
                   \/ actor'[a].cmd = c /\ actor'[a].pc # "idle"
                   \/ row[c].st = "approved" /\ (actor[a].pc = "idle" \/ actor[a].cmd # c)
    PROVE  NoStrandedCommand'
<1> SUFFICES ASSUME NEW c \in Commands, row'[c].st = "approved", Dispatched'
             PROVE  InHand(c)'
  BY DEF NoStrandedCommand, Dispatched
<1>1. CASE actor'[a].cmd = c /\ actor'[a].pc # "idle"
  BY <1>1 DEF InHand
<1>2. CASE row[c].st = "approved" /\ (actor[a].pc = "idle" \/ actor[a].cmd # c)
  <2>1. InHand(c)
    BY <1>2 DEF NoStrandedCommand, Dispatched
  <2> QED
    BY <1>2, <2>1 DEF InHand
<1> QED
  BY <1>1, <1>2 DEF Dispatched

LEMMA StrandedFinishing ==
    ASSUME TypeOK, NoStrandedCommand, NEW a \in Actors, Finishing(a)
    PROVE  NoStrandedCommand'
<1> USE DEF TypeOK
<1>1. /\ UNCHANGED <<todo, registry, hub>>
      /\ actor[a].pc # "idle"
  BY DEF Finishing, ApproveWrite, RejectWrite, DispatchRead, DispatchSend, DispatchMark, MarkExpired
<1>2. actor[a].cmd \in Commands /\ actor[a].user \in Users \cup {None}
  BY <1>1, AtWork
<1> DEFINE c == actor[a].cmd
<1>3. ASSUME NEW pc \in Steps \ {"idle"}, Go(a, pc, c, actor[a].user),
             \A d \in Commands : d # c => row'[d].st = row[d].st
      PROVE  NoStrandedCommand'
  <2>1. /\ actor'[a].pc # "idle" /\ actor'[a].cmd = c
        /\ \A b \in Actors \ {a} : actor'[b] = actor[b]
    BY <1>2, <1>3, GoPlace
  <2> QED
    BY <1>1, <1>3, <2>1, OneLetsGo
<1>4. ASSUME Finish(a), \A d \in Commands : d # c => row'[d].st = row[d].st,
             row'[c].st # "approved" \/ registry = None
      PROVE  NoStrandedCommand'
  <2>1. \A b \in Actors \ {a} : actor'[b] = actor[b]
    BY <1>4, FinishPlace
  <2> QED
    BY <1>1, <1>4, <2>1, OneLetsGo
<1>5. CASE ApproveWrite(a)
  BY <1>2, <1>3, <1>5, SetApprovedRow DEF ApproveWrite, Steps
<1>6. CASE RejectWrite(a)
  BY <1>2, <1>4, <1>6, SetCompletedRow DEF RejectWrite, Terminal
<1>7. CASE DispatchRead(a)
  BY <1>3, <1>4, <1>7 DEF DispatchRead, Steps
<1>8. CASE DispatchSend(a)
  BY <1>3, <1>4, <1>8 DEF DispatchSend, Steps
<1>9. CASE DispatchMark(a)
  BY <1>2, <1>4, <1>9, SetStateRow DEF DispatchMark, Open
<1>10. CASE MarkExpired(a)
  BY <1>2, <1>4, <1>10, SetCompletedRow DEF MarkExpired, Terminal
<1> QED
  BY <1>5, <1>6, <1>7, <1>8, <1>9, <1>10 DEF Finishing

LEMMA StrandedRequest ==
    ASSUME TypeOK, NoStrandedCommand, NEW a \in Requests, Handler(a)
    PROVE  NoStrandedCommand'
<1> USE DEF TypeOK
<1>1. a \in Actors /\ actor[a].pc = "idle" /\ UNCHANGED <<todo, registry, hub>>
  BY DEF Actors, Handler, Create, ApproveRead, RejectRead, Idle
<1>2. ASSUME NEW c \in Commands, NEW u \in Users, NEW gated \in BOOLEAN, Create(a, c, u, gated)
      PROVE  NoStrandedCommand'
  <2>1. row'[c] = NewRow(u, gated) /\ \A d \in Commands \ {c} : row'[d] = row[d]
    BY <1>2, CreateRow DEF CountsOK
  <2>2. CASE gated
    <3>1. row'[c].st # "approved" /\ UNCHANGED actor
      BY <1>2, <2>1, <2>2 DEF NewRow, Create
    <3> QED
      BY <1>1, <2>1, <3>1, OneLetsGo
  <2>3. CASE ~gated
    <3>1. /\ actor'[a].pc = "dispatch" /\ actor'[a].cmd = c
          /\ \A b \in Actors \ {a} : actor'[b] = actor[b]
      BY <1>1, <1>2, <2>3, GoPlace DEF Create, Steps
    <3> QED
      BY <1>1, <2>1, <3>1, OneLetsGo
  <2> QED
    BY <2>2, <2>3
<1>3. ASSUME NEW c \in Commands, NEW u \in Users, ApproveRead(a, c, u) \/ RejectRead(a, c, u)
      PROVE  NoStrandedCommand'
  <2>1. UNCHANGED row /\ \A b \in Actors \ {a} : actor'[b] = actor[b]
    BY <1>1, <1>3, GoPlace DEF ApproveRead, RejectRead, Steps
  <2> QED
    BY <1>1, <2>1, OneLetsGo
<1> QED
  BY <1>2, <1>3 DEF Handler

(* dispatchPendingFor lists every approved command: n different ids among n.*)
LEMMA ListsAll ==
    ASSUME TypeOK, NEW s \in Sessions, HubList(s), NEW c \in Commands, row[c].st = "approved"
    PROVE  c \in {todo'[s][i] : i \in DOMAIN todo'[s]}
<1> DEFINE pending == {d \in Commands : row[d].st = "approved"}
           n == Cardinality(pending)
<1>1. IsFiniteSet(pending) /\ n \in Nat
  BY NamesAssumption, FS_Subset, FS_CardinalityType
<1>2. PICK order \in [1 .. n -> pending] :
        /\ \A i, j \in DOMAIN order : i < j => order[i] # order[j]
        /\ todo' = [todo EXCEPT ![s] = order]
  BY DEF HubList
<1>3. todo'[s] = order
  BY <1>2 DEF TypeOK, ServerOK
<1>4. c \in pending
  OBVIOUS
<1> HIDE DEF pending
<1>5. order \in Injection(1 .. n, pending)
  <2>1. \A i, j \in 1 .. n : order[i] = order[j] => i = j
    BY <1>1, <1>2
  <2> QED
    BY <1>2, <2>1, Fun_IsInj
<1>6. Cardinality(1 .. n) = n
  BY <1>1, FS_Interval
<1>7. order \in Surjection(1 .. n, pending)
  BY <1>1, <1>5, <1>6, FS_Injection
<1>8. \E i \in 1 .. n : order[i] = c
  BY <1>4, <1>7 DEF Surjection
<1> QED
  BY <1>2, <1>3, <1>8

LEMMA StrandedHub ==
    ASSUME TypeOK, TypeOK', TodoRest, NoStrandedCommand, NEW s \in Sessions, HubStep(s)
    PROVE  TodoRest' /\ NoStrandedCommand'
<1> USE DEF TypeOK
<1>1. CASE HubHello(s) \/ HubAck(s) \/ HubTeardown(s)
  <2>1. /\ UNCHANGED <<row, actor, todo>>
        /\ \A r \in Sessions : hub'[r] # "listed" => hub[r] # "listed"
        /\ Dispatched' => Dispatched
    BY <1>1 DEF HubHello, HubAck, HubTeardown, Dispatched, ServerOK
  <2> QED
    BY <2>1, NobodyLetsGo DEF TodoRest
<1>2. CASE HubResult(s)
  <2>1. UNCHANGED <<actor, todo, registry, hub>>
    BY <1>2 DEF HubResult
  <2>2. Head(toServer[s]) \in Results
    BY <1>2 DEF HubResult, WiresOK
  <2>3. \A c \in Commands : row'[c].st = "approved" => row[c].st = "approved"
    BY <1>2, <2>2, SetCompletedRow DEF HubResult, Results, Terminal
  <2> QED
    BY <2>1, <2>3, NobodyLetsGo DEF TodoRest, Dispatched
<1>3. CASE HubList(s)
  <2>1. /\ UNCHANGED <<row, actor, registry>> /\ todo[s] = <<>>
        /\ hub'[s] = "listed"
        /\ \A r \in Sessions \ {s} : hub'[r] = hub[r] /\ todo'[r] = todo[r]
    BY <1>3 DEF HubList, TodoRest, ServerOK
  <2>2. ASSUME NEW c \in Commands, row'[c].st = "approved", Dispatched'
        PROVE  InHand(c)'
    <3>1. row[c].st = "approved"
      BY <2>1, <2>2
    <3>2. c \in {todo'[s][i] : i \in DOMAIN todo'[s]}
      BY <1>3, <3>1, ListsAll
    <3> QED
      BY <3>2 DEF InHand
  <2> QED
    BY <2>1, <2>2 DEF TodoRest, NoStrandedCommand, Dispatched
<1>4. CASE HubNext(s)
  <2>1. CASE todo[s] = <<>>
    <3>1. /\ UNCHANGED <<row, actor, todo, registry>>
          /\ hub[s] = "listed" /\ hub'[s] = "ready"
          /\ \A r \in Sessions \ {s} : hub'[r] = hub[r]
      BY <1>4, <2>1 DEF HubNext, ServerOK
    <3>2. Dispatched' => Dispatched
      BY <3>1 DEF Dispatched, ServerOK
    <3> QED
      BY <2>1, <3>1, <3>2, NobodyLetsGo DEF TodoRest
  <2>2. CASE todo[s] # <<>>
    <3>1. /\ UNCHANGED <<row, registry, hub>> /\ hub[s] = "listed"
          /\ actor[s] = Idle /\ s \in Actors
          /\ todo'[s] = Tail(todo[s])
          /\ \A r \in Sessions \ {s} : todo'[r] = todo[r]
      BY <1>4, <2>2 DEF HubNext, ServerOK, Actors
    <3> DEFINE q == todo[s]
    <3>2. q \in Seq(Commands) /\ q # <<>> /\ Head(q) \in Commands
      BY <2>2 DEF ServerOK
    <3>3. /\ actor'[s].pc = "dispatch" /\ actor'[s].cmd = Head(q)
          /\ \A b \in Actors \ {s} : actor'[b] = actor[b]
      BY <1>4, <2>2, <3>1, <3>2, GoPlace DEF HubNext, Steps
    <3> HIDE DEF q
    <3>4. ASSUME NEW i \in DOMAIN q
          PROVE  q[i] = Head(q) \/ \E j \in DOMAIN Tail(q) : Tail(q)[j] = q[i]
      <4>1. CASE i = 1
        BY <3>2, <4>1
      <4>2. CASE i # 1
        <5>1. i - 1 \in DOMAIN Tail(q) /\ Tail(q)[i - 1] = q[i]
          BY <3>2, <4>2, HeadTailProperties
        <5> QED
          BY <5>1
      <4> QED
        BY <4>1, <4>2
    <3>5. ASSUME NEW c \in Commands, InHand(c) PROVE InHand(c)'
      <4>1. CASE \E a \in Actors : actor[a].cmd = c /\ actor[a].pc # "idle"
        BY <3>1, <3>3, <4>1 DEF InHand, Idle
      <4>2. CASE \E r \in Sessions \ {s} : c \in {todo[r][i] : i \in DOMAIN todo[r]}
        BY <3>1, <4>2 DEF InHand
      <4>3. CASE c \in {q[i] : i \in DOMAIN q}
        <5>1. c = Head(q) \/ c \in {Tail(q)[j] : j \in DOMAIN Tail(q)}
          BY <3>4, <4>3
        <5>2. todo'[s] = Tail(q)
          BY <3>1 DEF q
        <5> QED
          BY <3>1, <3>3, <5>1, <5>2 DEF InHand
      <4> QED
        BY <3>5, <4>1, <4>2, <4>3 DEF InHand, q
    <3>6. NoStrandedCommand'
      BY <3>1, <3>5 DEF NoStrandedCommand
    <3>7. TodoRest'
      BY <3>1 DEF TodoRest
    <3> QED
      BY <3>6, <3>7
  <2> QED
    BY <2>1, <2>2
<1> QED
  BY <1>1, <1>2, <1>3, <1>4 DEF HubStep

LEMMA StrandedElsewhere ==
    ASSUME TypeOK, TypeOK', TodoRest, NoStrandedCommand,
           ExpireStale \/ WorkerStep \/ WorkerCrash \/ ControlPlaneCrash \/ Tick \/ UNCHANGED vars
    PROVE  TodoRest' /\ NoStrandedCommand'
<1> USE DEF TypeOK
<1>1. ASSUME UNCHANGED <<row, actor, todo, registry>>, NEW s \in Sessions,
             \A r \in Sessions \ {s} : hub'[r] = hub[r],
             hub'[s] = hub[s] \/ (hub[s] # "listed" /\ hub'[s] \notin {"listed", "ready"})
      PROVE  TodoRest' /\ NoStrandedCommand'
  <2>1. Dispatched' => Dispatched
    BY <1>1 DEF Dispatched, ServerOK
  <2>2. TodoRest'
    BY <1>1 DEF TodoRest
  <2> QED
    BY <1>1, <2>1, <2>2, NobodyLetsGo
<1>2. CASE UNCHANGED <<actor, todo, registry, hub>>
           /\ \A c \in Commands : row'[c].st = "approved" => row[c].st = "approved"
  BY <1>2, NobodyLetsGo DEF Dispatched, TodoRest
<1>3. CASE ExpireStale
  <2>1. UNCHANGED <<actor, todo, registry, hub>>
    BY <1>3 DEF ExpireStale
  <2>2. \A c \in Commands : row'[c].st = "approved" => row[c].st = "approved"
    BY <1>3, ExpireStaleRow
  <2> QED
    BY <1>2, <2>1, <2>2
<1>4. ASSUME NEW s \in Sessions, Connect(s) PROVE TodoRest' /\ NoStrandedCommand'
  <2>1. /\ UNCHANGED <<row, actor, todo, registry>>
        /\ hub[s] = "unopened" /\ hub'[s] = "open"
        /\ \A r \in Sessions \ {s} : hub'[r] = hub[r]
    BY <1>4 DEF Connect, ServerOK
  <2> QED
    BY <2>1, <1>1
<1>5. ASSUME NEW s \in Sessions, DropStream(s), UNCHANGED <<row, actor, todo, registry>>
      PROVE  TodoRest' /\ NoStrandedCommand'
  <2>1. /\ \A r \in Sessions \ {s} : hub'[r] = hub[r]
        /\ hub'[s] = hub[s] \/ (hub[s] = "open" /\ hub'[s] = "down")
    BY <1>5 DEF DropStream, ServerOK
  <2> QED
    BY <2>1, <1>1, <1>5
<1>6. CASE WorkerDisconnect
  BY <1>5, <1>6 DEF WorkerDisconnect, WorkerOK
<1>7. CASE WorkerReceive \/ Refuse \/ Replay \/ StartApply \/ Effect
           \/ (\E ok \in BOOLEAN : Record(ok)) \/ Throw \/ Prune \/ Tick \/ UNCHANGED vars
  BY <1>2, <1>7
  DEF WorkerReceive, Refuse, Replay, StartApply, Effect, Record, Throw, Prune, Tick, vars, server
<1>8. CASE WorkerCrash
  <2>1. CASE link.cur = None
    BY <1>2, <1>8, <2>1 DEF WorkerCrash
  <2>2. CASE link.cur # None
    BY <1>5, <1>8, <2>2 DEF WorkerCrash, WorkerOK
  <2> QED
    BY <2>1, <2>2
<1>9. CASE ControlPlaneCrash
  BY <1>9 DEF ControlPlaneCrash, TodoRest, NoStrandedCommand
<1> QED
  BY <1>3, <1>4, <1>6, <1>7, <1>8, <1>9 DEF WorkerStep

(* However approvals race with a connecting worker, and however long the    *)
(* loop of dispatchPendingFor is: an approved command of a worker whose     *)
(* session has been dispatched for is in a handler's or a loop's hands.     *)
THEOREM NothingStranded == Spec => []NoStrandedCommand
<1>1. Init => TodoRest /\ NoStrandedCommand
  BY DEF Init, TodoRest, NoStrandedCommand
<1>2. ASSUME TypeOK, TodoRest, NoStrandedCommand, [Next]_vars
      PROVE  TodoRest' /\ NoStrandedCommand'
  <2>1. TypeOK'
    BY <1>2, TypeStep
  <2>2. ASSUME (\E r \in Requests : Handler(r)) \/ (\E a \in Actors : Finishing(a))
        PROVE  TodoRest' /\ NoStrandedCommand'
    <3>1. UNCHANGED <<todo, hub>>
      BY <2>2 DEF Handler, Create, ApproveRead, RejectRead, Finishing, ApproveWrite, RejectWrite,
                  DispatchRead, DispatchSend, DispatchMark, MarkExpired
    <3> QED
      BY <1>2, <2>2, <3>1, StrandedRequest, StrandedFinishing DEF TodoRest
  <2> QED
    BY <1>2, <2>1, <2>2, StrandedHub, StrandedElsewhere DEF Next
<1>3. TypeOK /\ (TodoRest /\ NoStrandedCommand) /\ [Next]_vars => (TodoRest /\ NoStrandedCommand)'
  BY <1>2
<1> QED
  BY <1>1, <1>3, TypeCorrect, PTL DEF Spec
=============================================================================
