------------------------ MODULE NotificationsProofs ------------------------
(***************************************************************************)
(* Proofs about Notifications: what arrives, and what the table says of    *)
(* it, for any number of channels, events, attempts and faults.            *)
(***************************************************************************)
EXTENDS Notifications, FiniteSetTheorems, WellFoundedInduction, TLAPS

-----------------------------------------------------------------------------
(* The shapes of rows, sweeps and detectors.                                *)
HasState(row) == "state" \in DOMAIN row
HasRows(x) == {"rows", "out"} \subseteq DOMAIN x
HasTargets(x) == {"todo", "raise", "ev", "targets", "next"} \subseteq DOMAIN x
SendShape ==
    /\ \A k \in DOMAIN deliveries : HasState(deliveries[k])
    /\ DOMAIN sweep = Sweeps /\ \A s \in Sweeps : HasRows(sweep[s])
    /\ DOMAIN chan = Channels
DetShape == DOMAIN det = Detectors /\ \A d \in Detectors : HasTargets(det[d])

Removed(c) == c \in Channels /\ chan[c] = "removed"

(* One sweep at a time, which has each row in hand once; nobody else writes *)
(* the rows it has in hand.                                                 *)
Busy(s) == sweep[s].rows # {} \/ sweep[s].out # {}
InHand(s) == {row.key : row \in sweep[s].rows} \cup {o.row.key : o \in sweep[s].out}
SweepInv ==
    /\ \A s, x \in Sweeps : Busy(s) /\ Busy(x) => s = x
    /\ \A s \in Sweeps :
        /\ \A o, p \in sweep[s].out : o = p
        /\ \A a, b \in sweep[s].rows : a.key = b.key => a = b
        /\ \A o \in sweep[s].out, a \in sweep[s].rows : a.key # o.row.key
        /\ \A k \in InHand(s) : IF k \in DOMAIN deliveries THEN deliveries[k].state = "pending"
                                ELSE Removed(k[2])

(* What has arrived is known to be sent, or doubted, or about to be known.  *)
SentInv ==
    /\ \A k \in got : k \in DOMAIN deliveries \/ Removed(k[2])
    /\ \A s \in Sweeps : \A row \in sweep[s].rows : row.key \in got => row.key \in doubt
    /\ \A s \in Sweeps : \A o \in sweep[s].out :
         IF o.ok = "sent" THEN o.row.key \in got ELSE o.row.key \in got => o.row.key \in doubt
    /\ \A k \in DOMAIN deliveries : deliveries[k].state = "pending" /\ k \in got =>
         k \in doubt \/ \E s \in Sweeps : \E o \in sweep[s].out : o.ok = "sent" /\ o.row.key = k
    /\ \A k \in DOMAIN deliveries : deliveries[k].state = "sent" => k \in got
    /\ \A k \in DOMAIN deliveries : deliveries[k].state = "failed" /\ k \in got => k \in doubt
    /\ NoDuplicate

(* What is muted has its reason in the channel.                             *)
Reason(c, ev) == \E g \in got : g[2] = c /\ SameThing(g[1], ev)
DetMute ==
    /\ \A d \in Detectors : det[d].targets # {} \/ det[d].next # {} => det[d].ev # {}
    /\ \A d \in Detectors : \A ev \in det[d].ev, t \in det[d].next : t.mute => Reason(t.chan, ev)
RowsMuted == \A k \in DOMAIN deliveries : deliveries[k].state = "suppressed" => Reason(k[2], k[1])

SendInv == SendShape /\ SweepInv /\ SentInv
DetInv == DetShape /\ DetMute
IInv == SendInv /\ DetInv /\ RowsMuted

-----------------------------------------------------------------------------
(* What a step may do to the deliveries, the sweeps and the channels.       *)
ChansKept == DOMAIN chan' = Channels /\ \A c \in Channels : chan[c] = "removed" => chan'[c] = "removed"
SendSame == sweep' = sweep /\ got' = got /\ twice' = twice /\ doubt' = doubt

Rests == SendSame /\ deliveries' = deliveries /\ ChansKept
Removes(c) ==
    /\ SendSame /\ ChansKept /\ c \in Channels /\ chan'[c] = "removed"
    /\ deliveries' = [k \in {x \in DOMAIN deliveries : x[2] # c} |-> deliveries[k]]
Queues(k, row) ==
    /\ SendSame /\ chan' = chan /\ k \notin DOMAIN deliveries /\ ~Removed(k[2])
    /\ HasState(row) /\ row.state \in {"pending", "suppressed"}
    /\ deliveries' = [x \in DOMAIN deliveries \cup {k} |-> IF x \in DOMAIN deliveries THEN deliveries[x] ELSE row]
Ages ==
    /\ SendSame /\ chan' = chan /\ DOMAIN deliveries' = DOMAIN deliveries
    /\ \A k \in DOMAIN deliveries : HasState(deliveries'[k]) /\ deliveries'[k].state = deliveries[k].state

LEMMA BackoffAges == ASSUME SendShape, NEW k \in DOMAIN deliveries, BackoffEnds(k) PROVE Ages
<1>1. HasState(deliveries[k])
  BY DEF SendShape
<1> DEFINE row == [deliveries[k] EXCEPT !.later = FALSE]
<1>2. deliveries' = [deliveries EXCEPT ![k] = row]
  BY DEF BackoffEnds
<1>3. HasState(row) /\ row.state = deliveries[k].state
  BY <1>1 DEF HasState
<1> HIDE DEF row
<1>4. \A x \in DOMAIN deliveries : HasState(deliveries[x])
  BY DEF SendShape
<1> QED
  BY <1>2, <1>3, <1>4 DEF BackoffEnds, Ages, SendSame, sentVars, adminVars

LEMMA TickAges == ASSUME SendShape, Tick PROVE Ages
<1>1. ASSUME NEW k \in DOMAIN deliveries
      PROVE  HasState(deliveries'[k]) /\ deliveries'[k].state = deliveries[k].state
  <2>1. HasState(deliveries[k])
    BY DEF SendShape
  <2> DEFINE row == deliveries[k]
             age == row.age + 1
  <2>2. deliveries'[k] = row \/ deliveries'[k] = [row EXCEPT !.age = age]
    BY DEF Tick
  <2>3. HasState(row)
    BY <2>1
  <2> HIDE DEF row, age
  <2>4. HasState(deliveries'[k]) /\ deliveries'[k].state = row.state
    BY <2>2, <2>3 DEF HasState
  <2> QED
    BY <2>4 DEF row
<1> QED
  BY <1>1 DEF Tick, Ages, SendSame, sentVars, adminVars

LEMMA Kinds1 ==
    ASSUME SendShape, [Next]_vars
    PROVE  \/ Rests \/ Ages
           \/ \E c \in Channels : Removes(c)
           \/ \E d \in Detectors : Queue(d)
           \/ \E s \in Sweeps : Deliver(s) \/ RecordFails(s) \/ \E row \in sweep[s].rows : SendTimesOut(s, row)
           \/ Crash
<1>0. DOMAIN chan = Channels
  BY DEF SendShape
<1>1. CASE UNCHANGED vars
  BY <1>0, <1>1 DEF vars, adminVars, sentVars, Rests, SendSame, ChansKept
<1>2. CASE Admin
  <2>1. ASSUME NEW c \in Channels, DeleteChannel(c) PROVE Removes(c)
    BY <1>0, <2>1 DEF DeleteChannel, Removes, SendSame, ChansKept, sentVars
  <2>2. ASSUME NEW c \in Channels, TestChannel(c) PROVE Rests
    BY <1>0, <2>2 DEF TestChannel, Rests, SendSame, ChansKept, sentVars
  <2>3. ASSUME NEW c \in Channels, NEW on \in BOOLEAN, SaveChannel(c, on) PROVE Rests
    BY <1>0, <2>3 DEF SaveChannel, Rests, SendSame, ChansKept, sentVars
  <2>4. ASSUME NEW r \in Rules, DeleteRule(r) PROVE Rests
    BY <1>0, <2>4 DEF DeleteRule, Rests, SendSame, ChansKept, sentVars
  <2>5. ASSUME NEW r \in Rules, NEW f \in Forms, NEW on \in BOOLEAN, SaveRule(r, f, on) PROVE Rests
    BY <1>0, <2>5 DEF SaveRule, Rests, SendSame, ChansKept, sentVars
  <2> QED
    BY <1>2, <2>1, <2>2, <2>3, <2>4, <2>5 DEF Admin
<1>3. ASSUME NEW n \in 1..MaxBatch, NEW o \in [1..n -> Outcomes], IngestRuns(n, o) PROVE Rests
  BY <1>0, <1>3 DEF IngestRuns, Rests, SendSame, ChansKept, sentVars, adminVars
<1>4. ASSUME NEW d \in Detectors, Detect(d) \/ DetectorThrows(d) \/ \E ev \in Others : Raise(d, ev)
      PROVE  Rests \/ Queue(d)
  <2>1. CASE NextRun(d)
    BY <1>0, <2>1 DEF NextRun, Rests, SendSame, ChansKept, sentVars, adminVars
  <2>2. CASE RecordEvent(d)
    BY <1>0, <2>2 DEF RecordEvent, Rests, SendSame, ChansKept, sentVars, adminVars
  <2>3. CASE FanOut(d)
    BY <1>0, <2>3 DEF FanOut, Rests, SendSame, ChansKept, sentVars, adminVars
  <2>4. CASE QueueThrows(d)
    BY <1>0, <2>4 DEF QueueThrows, Rests, SendSame, ChansKept, sentVars, adminVars
  <2>5. ASSUME NEW t \in det[d].targets, Throttle(d, t) PROVE Rests
    BY <1>0, <2>5 DEF Throttle, Rests, SendSame, ChansKept, sentVars, adminVars
  <2>6. CASE DetectorThrows(d)
    BY <1>0, <2>6 DEF DetectorThrows, Rests, SendSame, ChansKept, sentVars, adminVars
  <2>7. ASSUME NEW ev \in Others, Raise(d, ev) PROVE Rests
    BY <1>0, <2>7 DEF Raise, Rests, SendSame, ChansKept, sentVars, adminVars
  <2> QED
    BY <1>4, <2>1, <2>2, <2>3, <2>4, <2>5, <2>6, <2>7 DEF Detect
<1>5. CASE Tick \/ \E k \in DOMAIN deliveries : BackoffEnds(k)
  BY <1>5, BackoffAges, TickAges
<1> QED
  BY <1>1, <1>2, <1>3, <1>4, <1>5 DEF Next

LEMMA QueueKind ==
    ASSUME SendShape, DetMute, NEW d \in Detectors, Queue(d)
    PROVE  \/ Rests
           \/ \E ev \in det[d].ev, t \in det[d].next : \E row :
                Queues(<<ev, t.chan>>, row) /\ (row.state = "suppressed" => t.mute)
<1>1. PICK ev \in det[d].ev, t \in det[d].next : TRUE
  BY DEF Queue, DetMute
<1>2. /\ chan[t.chan] # "removed" /\ deliveries' = Queued(ev, t)
      /\ SendSame /\ chan' = chan /\ DOMAIN chan = Channels
  BY DEF Queue, SendSame, SendShape, sentVars, adminVars
<1>3. CASE <<ev, t.chan>> \in DOMAIN deliveries
  BY <1>2, <1>3 DEF Rests, Queued, ChansKept
<1>4. CASE <<ev, t.chan>> \notin DOMAIN deliveries
  <2> DEFINE row == [state |-> IF t.mute THEN "suppressed" ELSE "pending", window |-> t.window,
                     attempts |-> 0, later |-> FALSE, age |-> 0]
  <2>1. HasState(row) /\ row.state \in {"pending", "suppressed"} /\ (row.state = "suppressed" => t.mute)
    BY DEF HasState
  <2>2. deliveries' = [x \in DOMAIN deliveries \cup {<<ev, t.chan>>} |->
                         IF x \in DOMAIN deliveries THEN deliveries[x] ELSE row]
    BY <1>2, <1>4 DEF Queued
  <2>3. ~Removed(<<ev, t.chan>>[2])
    BY <1>2 DEF Removed
  <2> HIDE DEF row
  <2>4. Queues(<<ev, t.chan>>, row)
    BY <1>2, <1>4, <2>1, <2>2, <2>3 DEF Queues
  <2> QED
    BY <2>1, <2>4
<1> QED
  BY <1>3, <1>4

-----------------------------------------------------------------------------
(* The sweep: what is under way, and what it says has arrived.              *)

(* Only sweep s moves on.                                                   *)
Moves(s, rows, out) ==
    /\ DOMAIN sweep' = Sweeps /\ HasRows(sweep'[s]) /\ sweep'[s].rows = rows /\ sweep'[s].out = out
    /\ \A x \in Sweeps \ {s} : sweep'[x] = sweep[x]
(* A row is taken to be sent.                                               *)
Takes(s, row, outcome) ==
    /\ row \in sweep[s].rows /\ sweep[s].out = {}
    /\ Moves(s, sweep[s].rows \ {row}, {[row |-> row, ok |-> outcome]})
    /\ deliveries' = deliveries /\ chan' = chan

LEMMA TakeKind ==
    ASSUME SendShape, NEW s \in Sweeps, NEW row, NEW outcome, Take(s, row, outcome)
    PROVE  Takes(s, row, outcome)
<1>1. DOMAIN sweep = Sweeps /\ HasRows(sweep[s])
  BY DEF SendShape
<1> DEFINE was == sweep[s]
           rows == sweep[s].rows \ {row}
           taken == {[row |-> row, ok |-> outcome]}
<1>2. sweep' = [sweep EXCEPT ![s] = [was EXCEPT !.rows = rows, !.out = taken]]
  BY <1>1 DEF Take
<1>3. LET x == [was EXCEPT !.rows = rows, !.out = taken] IN HasRows(x) /\ x.rows = rows /\ x.out = taken
  <2> HIDE DEF was, rows, taken
  <2>1. HasRows(was)
    BY <1>1 DEF was
  <2> QED
    BY <2>1 DEF HasRows
<1>4. Moves(s, rows, taken)
  <2> HIDE DEF rows, taken
  <2> QED
    BY <1>1, <1>2, <1>3 DEF Moves
<1> QED
  BY <1>4 DEF Take, Takes, adminVars

(* A sweep is done with the row it has taken.                               *)
Done(s) == sweep' = [sweep EXCEPT ![s].out = {}]
LEMMA DoneMoves ==
    ASSUME SendShape, NEW s \in Sweeps, Done(s) PROVE Moves(s, sweep[s].rows, {})
<1>1. DOMAIN sweep = Sweeps /\ HasRows(sweep[s])
  BY DEF SendShape
<1> DEFINE was == sweep[s]
<1>2. sweep' = [sweep EXCEPT ![s] = [was EXCEPT !.out = {}]]
  BY <1>1 DEF Done
<1>3. LET x == [was EXCEPT !.out = {}] IN HasRows(x) /\ x.rows = was.rows /\ x.out = {}
  <2> HIDE DEF was
  <2>1. HasRows(was)
    BY <1>1 DEF was
  <2> QED
    BY <2>1 DEF HasRows
<1> QED
  BY <1>1, <1>2, <1>3 DEF Moves
Writes(s, k, row) ==
    /\ \E o \in sweep[s].out : o.row.key = k
    /\ Moves(s, sweep[s].rows, {})
    /\ k \in DOMAIN deliveries /\ HasState(row)
    /\ deliveries' = [deliveries EXCEPT ![k] = row] /\ chan' = chan

LEMMA WriteKind ==
    ASSUME SendShape, SweepInv, NEW s \in Sweeps, NEW o \in sweep[s].out, RecordOutcome(s) \/ RecordFails(s)
    PROVE  \E row :
             /\ Writes(s, o.row.key, row)
             /\ got' = got /\ twice' = twice
             /\ \/ o.ok = "sent" /\ row.state = "sent" /\ doubt' = doubt
                \/ o.ok # "sent" /\ row.state \in {"failed", "pending"} /\ doubt' = doubt
                \/ o.ok = "sent" /\ row.state \in {"failed", "pending"} /\ doubt' = doubt \cup {o.row.key}
<1> DEFINE k == o.row.key
           old == deliveries[k]
<1>1. /\ \A p \in sweep[s].out : p = o
  BY DEF SweepInv
<1>2. k \in DOMAIN deliveries /\ chan' = chan /\ got' = got /\ twice' = twice
      /\ Moves(s, sweep[s].rows, {})
  BY <1>1, DoneMoves DEF RecordOutcome, RecordFails, Done, adminVars, sentVars
<1>3. HasState(old)
  BY <1>2 DEF SendShape
<1>4. HasState(SentRow(o.row)) /\ SentRow(o.row).state = "sent"
  <2> DEFINE n == o.row.attempts + 1
  <2>1. SentRow(o.row) = [old EXCEPT !.state = "sent", !.attempts = n, !.age = 0]
    BY DEF SentRow
  <2> HIDE DEF old, n
  <2> QED
    BY <1>3, <2>1 DEF HasState
<1>5. ASSUME NEW outcome
      PROVE  /\ HasState(Retried(o.row, outcome))
             /\ Retried(o.row, outcome).state \in {"failed", "pending"}
  <2> DEFINE n == o.row.attempts + 1
             st == IF outcome = "refused" \/ n >= MaxAttempts THEN "failed" ELSE "pending"
  <2>1. Retried(o.row, outcome) = [old EXCEPT !.state = st, !.attempts = n, !.later = TRUE]
    BY DEF Retried
  <2>2. st \in {"failed", "pending"}
    OBVIOUS
  <2> HIDE DEF old, n, st
  <2> QED
    BY <1>3, <2>1, <2>2 DEF HasState
<1>6. CASE RecordOutcome(s)
  <2>1. deliveries' = [deliveries EXCEPT ![k] = IF o.ok = "sent" THEN SentRow(o.row) ELSE Retried(o.row, o.ok)]
        /\ doubt' = doubt
    BY <1>1, <1>6 DEF RecordOutcome, sentVars
  <2> HIDE DEF k
  <2>2. CASE o.ok = "sent"
    <3>1. Writes(s, k, SentRow(o.row))
      BY <1>2, <1>4, <2>1, <2>2 DEF Writes, k
    <3> QED
      BY <1>2, <1>4, <2>1, <2>2, <3>1 DEF k
  <2>3. CASE o.ok # "sent"
    <3>1. Writes(s, k, Retried(o.row, o.ok))
      BY <1>2, <1>5, <2>1, <2>3 DEF Writes, k
    <3> QED
      BY <1>2, <1>5, <2>1, <2>3, <3>1 DEF k
  <2> QED
    BY <2>2, <2>3
<1>7. CASE RecordFails(s)
  <2>1. deliveries' = [deliveries EXCEPT ![k] = Retried(o.row, "retry")] /\ doubt' = doubt \cup {k} /\ o.ok = "sent"
    BY <1>1, <1>7 DEF RecordFails
  <2> HIDE DEF k
  <2>2. Writes(s, k, Retried(o.row, "retry"))
    BY <1>2, <1>5, <2>1 DEF Writes, k
  <2> QED
    BY <1>2, <1>5, <2>1, <2>2 DEF k
<1> QED
  BY <1>6, <1>7

-----------------------------------------------------------------------------
(* A step that leaves the sweeps alone: rows come, with an open channel, or *)
(* go with their channel, and none changes its state.                       *)
Tables ==
    /\ SendSame /\ DOMAIN chan' = Channels
    /\ \A c : Removed(c) => Removed(c)'
    /\ \A k \in DOMAIN deliveries : k \in DOMAIN deliveries' \/ Removed(k[2])'
    /\ \A k \in DOMAIN deliveries' :
        /\ HasState(deliveries'[k])
        /\ IF k \in DOMAIN deliveries THEN deliveries'[k].state = deliveries[k].state
           ELSE ~Removed(k[2]) /\ deliveries'[k].state \in {"pending", "suppressed"}

LEMMA TablesKinds ==
    ASSUME SendShape, Rests \/ Ages \/ (\E c : Removes(c)) \/ (\E k, row : Queues(k, row))
    PROVE  Tables
<1>0. DOMAIN chan = Channels /\ \A k \in DOMAIN deliveries : HasState(deliveries[k])
  BY DEF SendShape
<1>1. CASE Rests
  BY <1>0, <1>1 DEF Rests, Tables, ChansKept, Removed
<1>2. CASE Ages
  BY <1>0, <1>2 DEF Ages, Tables, Removed
<1>3. ASSUME NEW c, Removes(c) PROVE Tables
  <2>1. /\ SendSame /\ DOMAIN chan' = Channels
        /\ \A x : Removed(x) => Removed(x)'
        /\ Removed(c)'
        /\ \A k \in DOMAIN deliveries' : k \in DOMAIN deliveries /\ deliveries'[k] = deliveries[k]
        /\ \A k \in DOMAIN deliveries : k \in DOMAIN deliveries' \/ k[2] = c
    BY <1>3 DEF Removes, ChansKept, Removed
  <2> QED
    BY <1>0, <2>1 DEF Tables
<1>4. ASSUME NEW k, NEW row, Queues(k, row) PROVE Tables
  BY <1>0, <1>4 DEF Queues, Tables, Removed
<1> QED
  BY <1>1, <1>2, <1>3, <1>4

LEMMA TablesKeep ==
    ASSUME SendInv, Tables PROVE SendInv'
<1>1. sweep' = sweep /\ got' = got /\ twice' = twice /\ doubt' = doubt
  BY DEF Tables, SendSame
<1>2. SendShape'
  BY <1>1 DEF SendInv, SendShape, Tables
<1>3. SweepInv'
  <2>1. ASSUME NEW s \in Sweeps, NEW k \in InHand(s)
        PROVE  IF k \in DOMAIN deliveries' THEN deliveries'[k].state = "pending" ELSE Removed(k[2])'
    <3>1. IF k \in DOMAIN deliveries THEN deliveries[k].state = "pending" ELSE Removed(k[2])
      BY DEF SendInv, SweepInv
    <3> QED
      BY <3>1 DEF Tables
  <2>2. \A s \in Sweeps : InHand(s)' = InHand(s) /\ Busy(s)' = Busy(s)
    BY <1>1 DEF InHand, Busy
  <2> QED
    BY <1>1, <2>1, <2>2 DEF SendInv, SweepInv
<1>4. SentInv'
  <2>1. \A k \in got : k \in DOMAIN deliveries' \/ Removed(k[2])'
    BY DEF SendInv, SentInv, Tables
  <2>2. ASSUME NEW k \in DOMAIN deliveries'
        PROVE  IF k \in DOMAIN deliveries THEN deliveries'[k].state = deliveries[k].state
               ELSE k \notin got /\ deliveries'[k].state \in {"pending", "suppressed"}
    BY DEF SendInv, SentInv, Tables
  <2> QED
    BY <1>1, <2>1, <2>2 DEF SendInv, SentInv, NoDuplicate
<1> QED
  BY <1>2, <1>3, <1>4 DEF SendInv

(* A sweep under way is alone.                                              *)
LEMMA OnlyOne ==
    ASSUME SweepInv, NEW s \in Sweeps, Busy(s), NEW x \in Sweeps \ {s}
    PROVE  sweep[x].rows = {} /\ sweep[x].out = {}
  BY DEF SweepInv, Busy

LEMMA DrainKeeps ==
    ASSUME SendInv, NEW s \in Sweeps, Drain(s) PROVE SendInv'
<1> DEFINE rows == {[key |-> k, attempts |-> deliveries[k].attempts] : k \in Due}
<1>1. /\ \A x \in Sweeps : sweep[x].rows = {} /\ sweep[x].out = {}
      /\ deliveries' = deliveries /\ chan' = chan /\ got' = got /\ twice' = twice /\ doubt' = doubt
  BY DEF Drain, Begin, adminVars, sentVars
<1>2. Moves(s, rows, {})
  <2>1. DOMAIN sweep = Sweeps /\ HasRows(sweep[s])
    BY DEF SendInv, SendShape
  <2> DEFINE was == sweep[s]
  <2>2. sweep' = [sweep EXCEPT ![s] = [was EXCEPT !.rows = rows]]
    BY <2>1 DEF Drain, Begin
  <2>3. LET x == [was EXCEPT !.rows = rows] IN HasRows(x) /\ x.rows = rows /\ x.out = was.out
    <3> HIDE DEF was, rows
    <3>1. HasRows(was)
      BY <2>1 DEF was
    <3> QED
      BY <3>1 DEF HasRows
  <2> HIDE DEF rows
  <2> QED
    BY <1>1, <2>1, <2>2, <2>3 DEF Moves
<1>3. \A a \in rows : a.key \in Due
  OBVIOUS
<1>4. \A a, b \in rows : a.key = b.key => a = b
  OBVIOUS
<1> HIDE DEF rows
<1>5. \A k \in Due : k \in DOMAIN deliveries /\ deliveries[k].state = "pending"
  BY DEF Due
<1>6. SendShape'
  BY <1>1, <1>2 DEF SendInv, SendShape, Moves
<1>7. SweepInv'
  <2>1. \A x \in Sweeps : sweep'[x].out = {} /\ (x # s => sweep'[x].rows = {})
    BY <1>1, <1>2 DEF Moves
  <2>2. sweep'[s].rows = rows
    BY <1>2 DEF Moves
  <2>3. ASSUME NEW x \in Sweeps, NEW k \in InHand(x)'
        PROVE  k \in DOMAIN deliveries' /\ deliveries'[k].state = "pending"
    BY <1>1, <1>3, <1>5, <2>1, <2>2 DEF InHand
  <2> QED
    BY <1>4, <2>1, <2>2, <2>3 DEF SweepInv, Busy
<1>8. SentInv'
  <2>1. \A x \in Sweeps : sweep'[x].out = {} /\ (x # s => sweep'[x].rows = {})
    BY <1>1, <1>2 DEF Moves
  <2>2. sweep'[s].rows = rows
    BY <1>2 DEF Moves
  <2>3. \A k \in DOMAIN deliveries : deliveries[k].state = "pending" /\ k \in got => k \in doubt
    BY <1>1 DEF SendInv, SentInv
  <2>4. \A a \in rows : a.key \in got => a.key \in doubt
    BY <1>3, <1>5, <2>3
  <2>5. \A c : Removed(c)' = Removed(c)
    BY <1>1 DEF Removed
  <2> QED
    BY <1>1, <2>1, <2>2, <2>3, <2>4, <2>5 DEF SendInv, SentInv, NoDuplicate
<1> QED
  BY <1>6, <1>7, <1>8 DEF SendInv

(* A row is taken: what it says of the message is true, or doubted.         *)
LEMMA TakeKeeps ==
    ASSUME SendInv, NEW s \in Sweeps, NEW row, NEW outcome, Takes(s, row, outcome),
           \/ outcome = "sent" /\ Arrive(row.key) /\ doubt' = doubt
           \/ outcome # "sent" /\ got' = got /\ twice' = twice /\ doubt' = doubt
           \/ outcome # "sent" /\ Arrive(row.key) /\ doubt' = doubt \cup {row.key}
    PROVE  SendInv'
<1> DEFINE o == [row |-> row, ok |-> outcome]
<1>1. /\ row \in sweep[s].rows /\ sweep[s].out = {} /\ deliveries' = deliveries /\ chan' = chan
      /\ sweep'[s].rows = sweep[s].rows \ {row} /\ sweep'[s].out = {o}
      /\ \A x \in Sweeps \ {s} : sweep'[x] = sweep[x]
  BY DEF Takes, Moves
<1>2. o.row = row /\ o.ok = outcome
  OBVIOUS
<1> HIDE DEF o
<1>3. \A x \in Sweeps \ {s} : sweep[x].rows = {} /\ sweep[x].out = {}
  BY <1>1, OnlyOne DEF SendInv, Busy
<1>4. SendShape'
  BY DEF SendInv, SendShape, Takes, Moves
<1>5. \A c : Removed(c)' = Removed(c)
  BY <1>1 DEF Removed
<1>6. \A a \in sweep[s].rows : a.key = row.key => a = row
  BY <1>1 DEF SendInv, SweepInv
<1>7. SweepInv'
  <2>1. \A x \in Sweeps : \A k \in InHand(x)' : k \in InHand(x)
    BY <1>1, <1>2 DEF InHand
  <2>2. \A x \in Sweeps : \A k \in InHand(x)' :
          IF k \in DOMAIN deliveries' THEN deliveries'[k].state = "pending" ELSE Removed(k[2])'
    BY <1>1, <1>5, <2>1 DEF SendInv, SweepInv
  <2>3. \A x, y \in Sweeps : Busy(x)' /\ Busy(y)' => x = y
    BY <1>1, <1>3 DEF Busy
  <2>4. \A x \in Sweeps : \A p, q \in sweep'[x].out : p = q
    BY <1>1, <1>3
  <2>5. \A x \in Sweeps : \A a, b \in sweep'[x].rows : a.key = b.key => a = b
    BY <1>1 DEF SendInv, SweepInv
  <2>6. \A x \in Sweeps : \A p \in sweep'[x].out, a \in sweep'[x].rows : a.key # p.row.key
    BY <1>1, <1>2, <1>3, <1>6
  <2> QED
    BY <2>2, <2>3, <2>4, <2>5, <2>6 DEF SweepInv
<1>8. SentInv'
  <2>1. /\ got \subseteq got' /\ got' \subseteq got \cup {row.key}
        /\ outcome = "sent" => row.key \in got'
        /\ doubt \subseteq doubt'
        /\ outcome # "sent" /\ row.key \in got' => row.key \in doubt'
        /\ twice' \subseteq twice \cup (got \cap {row.key})
    <3>1. row.key \in got => row.key \in doubt
      BY <1>1 DEF SendInv, SentInv
    <3> QED
      BY <3>1 DEF Arrive
  <2>2. row.key \in got => row.key \in doubt
    BY <1>1 DEF SendInv, SentInv
  <2>3. row.key \in InHand(s)
    BY <1>1 DEF InHand
  <2>4. row.key \in DOMAIN deliveries => deliveries[row.key].state = "pending"
    BY <2>3 DEF SendInv, SweepInv
  <2>5. row.key \in DOMAIN deliveries \/ Removed(row.key[2])
    BY <2>3 DEF SendInv, SweepInv
  <2>6. \A k \in got' : k \in DOMAIN deliveries' \/ Removed(k[2])'
    BY <1>1, <1>5, <2>1, <2>5 DEF SendInv, SentInv
  <2>7. \A x \in Sweeps : \A a \in sweep'[x].rows : a.key \in got' => a.key \in doubt'
    BY <1>1, <1>3, <1>6, <2>1 DEF SendInv, SentInv
  <2>8. \A x \in Sweeps : \A p \in sweep'[x].out :
          IF p.ok = "sent" THEN p.row.key \in got' ELSE p.row.key \in got' => p.row.key \in doubt'
    BY <1>1, <1>2, <1>3, <2>1
  <2>9. ASSUME NEW k \in DOMAIN deliveries', deliveries'[k].state = "pending", k \in got', k \notin doubt'
        PROVE  \E x \in Sweeps : \E p \in sweep'[x].out : p.ok = "sent" /\ p.row.key = k
    <3>1. CASE k = row.key
      BY <1>1, <1>2, <2>1, <2>9, <3>1
    <3>2. CASE k # row.key
      <4>1. \E x \in Sweeps : \E p \in sweep[x].out : p.ok = "sent" /\ p.row.key = k
        BY <1>1, <2>1, <2>9, <3>2 DEF SendInv, SentInv
      <4> QED
        BY <1>1, <1>3, <4>1
    <3> QED
      BY <3>1, <3>2
  <2>10. \A k \in DOMAIN deliveries' : deliveries'[k].state = "sent" => k \in got'
    BY <1>1, <2>1 DEF SendInv, SentInv
  <2>11. \A k \in DOMAIN deliveries' : deliveries'[k].state = "failed" /\ k \in got' => k \in doubt'
    BY <1>1, <2>1, <2>4 DEF SendInv, SentInv
  <2>12. NoDuplicate'
    BY <2>1, <2>2 DEF SendInv, SentInv, NoDuplicate
  <2> QED
    BY <2>6, <2>7, <2>8, <2>9, <2>10, <2>11, <2>12 DEF SentInv
<1> QED
  BY <1>4, <1>7, <1>8 DEF SendInv

(* The outcome is recorded: what has arrived is sent or doubted.            *)
LEMMA WriteKeeps ==
    ASSUME SendInv, NEW s \in Sweeps, NEW o \in sweep[s].out, NEW row, Writes(s, o.row.key, row),
           got' = got, twice' = twice,
           \/ o.ok = "sent" /\ row.state = "sent" /\ doubt' = doubt
           \/ o.ok # "sent" /\ row.state \in {"failed", "pending"} /\ doubt' = doubt
           \/ row.state \in {"failed", "pending"} /\ doubt' = doubt \cup {o.row.key}
    PROVE  SendInv'
<1> DEFINE k == o.row.key
<1>1. /\ k \in DOMAIN deliveries /\ chan' = chan
      /\ DOMAIN deliveries' = DOMAIN deliveries /\ deliveries'[k] = row
      /\ \A x \in DOMAIN deliveries \ {k} : deliveries'[x] = deliveries[x]
      /\ sweep'[s].rows = sweep[s].rows /\ sweep'[s].out = {}
      /\ \A x \in Sweeps \ {s} : sweep'[x] = sweep[x]
  BY DEF Writes, Moves
<1>2. \A x \in Sweeps \ {s} : sweep[x].rows = {} /\ sweep[x].out = {}
  BY OnlyOne DEF SendInv, Busy
<1>3. SendShape'
  BY <1>1 DEF SendInv, SendShape, Writes, Moves
<1>4. \A c : Removed(c)' = Removed(c)
  BY <1>1 DEF Removed
<1>5. (\A a \in sweep[s].rows : a.key # k) /\ (\A p \in sweep[s].out : p = o)
  BY DEF SendInv, SweepInv
<1> HIDE DEF k
<1>6. SweepInv'
  <2>1. \A x \in Sweeps : \A y \in InHand(x)' : y \in InHand(x) /\ y # k
    BY <1>1, <1>2, <1>5 DEF InHand
  <2>2. \A x \in Sweeps : \A y \in InHand(x)' :
          IF y \in DOMAIN deliveries' THEN deliveries'[y].state = "pending" ELSE Removed(y[2])'
    BY <1>1, <1>4, <2>1 DEF SendInv, SweepInv
  <2> QED
    BY <1>1, <1>2, <2>2 DEF SendInv, SweepInv, Busy
<1>7. SentInv'
  <2>1. /\ row.state = "sent" => k \in got
        /\ row.state # "sent" /\ k \in got => k \in doubt'
        /\ doubt \subseteq doubt'
    BY DEF SendInv, SentInv, k
  <2>2. \A y \in got' : y \in DOMAIN deliveries' \/ Removed(y[2])'
    BY <1>1, <1>4 DEF SendInv, SentInv
  <2>3. ASSUME NEW y \in DOMAIN deliveries', deliveries'[y].state = "pending", y \in got', y # k
        PROVE  y \in doubt'
    <3>1. y \in doubt \/ \E x \in Sweeps : \E p \in sweep[x].out : p.ok = "sent" /\ p.row.key = y
      BY <1>1, <2>3 DEF SendInv, SentInv
    <3>2. \A x \in Sweeps : \A p \in sweep[x].out : p.row.key = k
      BY <1>2, <1>5 DEF k
    <3> QED
      BY <2>1, <2>3, <3>1, <3>2
  <2>4. \A y \in DOMAIN deliveries' : deliveries'[y].state = "pending" /\ y \in got' => y \in doubt'
    BY <1>1, <2>1, <2>3
  <2>5. \A y \in DOMAIN deliveries' : deliveries'[y].state = "sent" => y \in got'
    BY <1>1, <2>1 DEF SendInv, SentInv
  <2>6. \A y \in DOMAIN deliveries' : deliveries'[y].state = "failed" /\ y \in got' => y \in doubt'
    BY <1>1, <2>1 DEF SendInv, SentInv
  <2>7. \A x \in Sweeps : \A a \in sweep'[x].rows : a.key \in got' => a.key \in doubt'
    BY <1>1, <1>2, <2>1 DEF SendInv, SentInv
  <2>8. \A x \in Sweeps : sweep'[x].out = {}
    BY <1>1, <1>2
  <2>9. NoDuplicate'
    BY <2>1 DEF SendInv, SentInv, NoDuplicate
  <2> QED
    BY <2>2, <2>4, <2>5, <2>6, <2>7, <2>8, <2>9 DEF SentInv
<1> QED
  BY <1>3, <1>6, <1>7 DEF SendInv

LEMMA DropKeeps ==
    ASSUME SendInv, NEW s \in Sweeps, OutcomeDropped(s) PROVE SendInv'
<1>1. /\ deliveries' = deliveries /\ chan' = chan /\ got' = got /\ twice' = twice /\ doubt' = doubt
      /\ Moves(s, sweep[s].rows, {})
  BY DoneMoves DEF SendInv, OutcomeDropped, Done, adminVars, sentVars
<1>2. PICK o \in sweep[s].out : o.row.key \notin DOMAIN deliveries
  BY DEF OutcomeDropped
<1>3. \A p \in sweep[s].out : p = o
  BY DEF SendInv, SweepInv
<1>4. \A x \in Sweeps \ {s} : sweep[x].rows = {} /\ sweep[x].out = {}
  BY OnlyOne DEF SendInv, Busy
<1>5. /\ sweep'[s].rows = sweep[s].rows /\ sweep'[s].out = {}
      /\ \A x \in Sweeps \ {s} : sweep'[x] = sweep[x]
  BY <1>1 DEF Moves
<1>6. \A c : Removed(c)' = Removed(c)
  BY <1>1 DEF Removed
<1>7. SendShape'
  BY <1>1 DEF SendInv, SendShape, Moves
<1>8. SweepInv'
  <2>1. \A x \in Sweeps : \A y \in InHand(x)' : y \in InHand(x)
    BY <1>4, <1>5 DEF InHand
  <2> QED
    BY <1>1, <1>4, <1>5, <1>6, <2>1 DEF SendInv, SweepInv, Busy
<1>9. SentInv'
  <2>1. ASSUME NEW k \in DOMAIN deliveries, deliveries[k].state = "pending", k \in got PROVE k \in doubt
    BY <1>2, <1>3, <1>4, <2>1 DEF SendInv, SentInv
  <2>2. \A x \in Sweeps : sweep'[x].out = {} /\ sweep'[x].rows = sweep[x].rows
    BY <1>4, <1>5
  <2> QED
    BY <1>1, <1>6, <2>1, <2>2 DEF SendInv, SentInv, NoDuplicate
<1> QED
  BY <1>7, <1>8, <1>9 DEF SendInv

LEMMA CrashKeeps ==
    ASSUME SendInv, Crash PROVE SendInv'
<1>1. /\ deliveries' = deliveries /\ chan' = chan /\ got' = got /\ twice' = twice
      /\ DOMAIN sweep' = Sweeps
      /\ \A s \in Sweeps : HasRows(sweep'[s]) /\ sweep'[s].rows = {} /\ sweep'[s].out = {}
  BY DEF Crash, adminVars, HasRows
<1>2. /\ doubt \subseteq doubt'
      /\ \A s \in Sweeps : \A o \in sweep[s].out : o.ok = "sent" => o.row.key \in doubt'
  BY DEF Crash
<1>3. \A c : Removed(c)' = Removed(c)
  BY <1>1 DEF Removed
<1>4. SendShape'
  BY <1>1 DEF SendInv, SendShape
<1>5. SweepInv'
  BY <1>1 DEF SendInv, SweepInv, Busy, InHand
<1>6. SentInv'
  BY <1>1, <1>2, <1>3 DEF SendInv, SentInv, NoDuplicate
<1> QED
  BY <1>4, <1>5, <1>6 DEF SendInv

LEMMA DeliverKinds ==
    ASSUME SendInv, NEW s \in Sweeps, Deliver(s) \/ RecordFails(s) \/ \E row \in sweep[s].rows : SendTimesOut(s, row)
    PROVE  SendInv'
<1>0. SendShape /\ SweepInv
  BY DEF SendInv
<1>1. CASE Drain(s)
  BY <1>1, DrainKeeps
<1>2. CASE RecordOutcome(s) \/ RecordFails(s)
  <2>1. PICK o \in sweep[s].out : TRUE
    BY <1>2 DEF RecordOutcome, RecordFails
  <2> QED
    BY <1>0, <1>2, <2>1, WriteKind, WriteKeeps
<1>3. CASE OutcomeDropped(s)
  BY <1>3, DropKeeps
<1>4. ASSUME NEW row \in sweep[s].rows, Send(s, row) PROVE SendInv'
  <2>1. Takes(s, row, "sent") /\ Arrive(row.key) /\ doubt' = doubt
    BY <1>0, <1>4, TakeKind DEF Send
  <2> QED
    BY <2>1, TakeKeeps
<1>5. ASSUME NEW row \in sweep[s].rows, NEW o \in {"retry", "refused"}, SendFails(s, row, o) PROVE SendInv'
  <2>1. Takes(s, row, o) /\ got' = got /\ twice' = twice /\ doubt' = doubt
    BY <1>0, <1>5, TakeKind DEF SendFails, sentVars
  <2>2. o # "sent"
    OBVIOUS
  <2> QED
    BY <2>1, <2>2, TakeKeeps
<1>6. ASSUME NEW row \in sweep[s].rows, SendTimesOut(s, row) PROVE SendInv'
  <2>1. Takes(s, row, "retry") /\ Arrive(row.key) /\ doubt' = doubt \cup {row.key}
    BY <1>0, <1>6, TakeKind DEF SendTimesOut
  <2> QED
    BY <2>1, TakeKeeps
<1> QED
  BY <1>1, <1>2, <1>3, <1>4, <1>5, <1>6 DEF Deliver

LEMMA SendNext == SendInv /\ DetInv /\ [Next]_vars => SendInv'
<1> SUFFICES ASSUME SendInv, DetInv, [Next]_vars PROVE SendInv'
  OBVIOUS
<1>0. SendShape /\ DetMute
  BY DEF SendInv, DetInv
<1>1. ASSUME Rests \/ Ages \/ (\E c : Removes(c)) \/ (\E k, row : Queues(k, row)) PROVE SendInv'
  BY <1>0, <1>1, TablesKinds, TablesKeep
<1>2. ASSUME NEW d \in Detectors, Queue(d) PROVE SendInv'
  <2>1. Rests \/ \E k, row : Queues(k, row)
    BY <1>0, <1>2, QueueKind
  <2> QED
    BY <1>1, <2>1
<1> QED
  BY <1>0, <1>1, <1>2, Kinds1, DeliverKinds, CrashKeeps

-----------------------------------------------------------------------------
(* What the detectors know: a muted target has its reason.                  *)
Sound(x) ==
    /\ HasTargets(x)
    /\ x.targets # {} \/ x.next # {} => x.ev # {}
    /\ \A ev \in x.ev, t \in x.next : t.mute => Reason(t.chan, ev)
LEMMA SoundEach == DetInv <=> DOMAIN det = Detectors /\ \A d \in Detectors : Sound(det[d])
  BY DEF DetInv, DetShape, DetMute, Sound

LEMMA QuietSound == Sound(Quiet)
  BY DEF Sound, Quiet, HasTargets

LEMMA StepSound ==
    ASSUME DetInv, NEW d \in Detectors, NEW x, Sound(x), det' = [det EXCEPT ![d] = x], got' = got
    PROVE  DetInv'
<1>1. DOMAIN det' = Detectors /\ \A e \in Detectors : Sound(det'[e])
  BY SoundEach
<1> QED
  BY <1>1 DEF DetInv, DetShape, DetMute, Sound, Reason

LEMMA RestSound ==
    ASSUME DetInv, det' = det, got \subseteq got'
    PROVE  DetInv'
  BY DEF DetInv, DetShape, DetMute, Reason

LEMMA GotGrows ==
    ASSUME SendShape, [Next]_vars PROVE got \subseteq got'
<1>1. CASE Rests \/ Ages \/ \E c \in Channels : Removes(c)
  BY <1>1 DEF Rests, Ages, Removes, SendSame
<1>2. ASSUME NEW d \in Detectors, Queue(d) PROVE got \subseteq got'
  BY <1>2 DEF Queue, sentVars
<1>3. ASSUME NEW s \in Sweeps, Deliver(s) PROVE got \subseteq got'
  BY <1>3 DEF Deliver, Drain, Begin, RecordOutcome, OutcomeDropped, Send, SendFails, Arrive, sentVars
<1>4. ASSUME NEW s \in Sweeps, RecordFails(s) \/ \E row \in sweep[s].rows : SendTimesOut(s, row) PROVE got \subseteq got'
  BY <1>4 DEF RecordFails, SendTimesOut, Arrive
<1>5. CASE Crash
  BY <1>5 DEF Crash
<1> QED
  BY <1>1, <1>2, <1>3, <1>4, <1>5, Kinds1

LEMMA RecentReason ==
    ASSUME SentInv, NEW c, NEW ev, NEW window, RecentlySent(c, ev, window)
    PROVE  Reason(c, ev)
  BY DEF SentInv, RecentlySent, Reason

LEMMA DetectSound ==
    ASSUME SentInv, DetInv, NEW d \in Detectors, Detect(d) PROVE DetInv'
<1> DEFINE was == det[d]
<1>1. DOMAIN det = Detectors /\ Sound(was)
  BY SoundEach
<1>2. CASE NextRun(d)
  <2>1. PICK a, b : det' = [det EXCEPT ![d] = [was EXCEPT !.todo = a, !.raise = b]] /\ got' = got
    BY <1>2 DEF NextRun, sentVars
  <2>2. Sound([was EXCEPT !.todo = a, !.raise = b])
    <3> HIDE DEF was
    <3> QED
      BY <1>1 DEF Sound, HasTargets
  <2> QED
    BY <2>1, <2>2, StepSound
<1>3. CASE RecordEvent(d)
  <2>1. PICK a, b : det' = [det EXCEPT ![d] = [was EXCEPT !.raise = a, !.ev = b]] /\ got' = got
    BY <1>3 DEF RecordEvent, sentVars
  <2>2. was.targets = {} /\ was.next = {}
    BY <1>1, <1>3 DEF RecordEvent, Sound
  <2>3. Sound([was EXCEPT !.raise = a, !.ev = b])
    <3> HIDE DEF was
    <3> QED
      BY <1>1, <2>2 DEF Sound, HasTargets
  <2> QED
    BY <2>1, <2>3, StepSound
<1>4. CASE FanOut(d)
  <2>1. PICK ev \in was.ev : TRUE
    BY <1>4 DEF FanOut
  <2> DEFINE new == TargetsOf(ev)
             evs == IF new = {} THEN {} ELSE was.ev
  <2>2. det' = [det EXCEPT ![d] = [was EXCEPT !.targets = new, !.ev = evs]] /\ got' = got
    BY <1>1, <1>4, <2>1 DEF FanOut, sentVars
  <2>3. (new # {} => evs # {}) /\ was.next = {}
    BY <1>4, <2>1 DEF FanOut
  <2>4. Sound([was EXCEPT !.targets = new, !.ev = evs])
    <3> HIDE DEF was, new, evs
    <3> QED
      BY <1>1, <2>3 DEF Sound, HasTargets
  <2> HIDE DEF new, evs
  <2> QED
    BY <2>2, <2>4, StepSound
<1>5. ASSUME NEW t \in det[d].targets, Throttle(d, t) PROVE DetInv'
  <2>1. was.ev # {}
    BY <1>1 DEF Sound
  <2> DEFINE rest == was.targets \ {t}
             Next1(ev) == {[chan |-> t.chan, window |-> t.window,
                            mute |-> t.window > 0 /\ RecentlySent(t.chan, ev, t.window)]}
  <2>2. /\ got' = got
        /\ \A ev \in was.ev : det' = [det EXCEPT ![d] = [was EXCEPT !.targets = rest, !.next = Next1(ev)]]
    BY <1>1, <1>5 DEF Throttle, sentVars
  <2>3. PICK ev \in was.ev : TRUE
    BY <2>1
  <2>4. ASSUME NEW ew \in was.ev, NEW x \in Next1(ev), x.mute PROVE Reason(x.chan, ew)
    <3>1. Next1(ew) = Next1(ev)
      <4>1. [was EXCEPT !.targets = rest, !.next = Next1(ew)] = [was EXCEPT !.targets = rest, !.next = Next1(ev)]
        BY <1>1, <2>2
      <4> HIDE DEF was, rest, Next1
      <4> QED
        BY <1>1, <4>1 DEF Sound, HasTargets
    <3>2. x \in Next1(ew)
      BY <2>4, <3>1
    <3> HIDE DEF was
    <3>3. x = [chan |-> t.chan, window |-> t.window, mute |-> t.window > 0 /\ RecentlySent(t.chan, ew, t.window)]
      BY <3>2
    <3>4. x.chan = t.chan /\ x.mute = (t.window > 0 /\ RecentlySent(t.chan, ew, t.window))
      BY <3>3
    <3> QED
      BY <2>4, <3>4, RecentReason
  <2>5. Sound([was EXCEPT !.targets = rest, !.next = Next1(ev)])
    <3> HIDE DEF was, rest, Next1
    <3> QED
      BY <1>1, <2>1, <2>4 DEF Sound, HasTargets
  <2>6. det' = [det EXCEPT ![d] = [was EXCEPT !.targets = rest, !.next = Next1(ev)]]
    BY <2>2, <2>3
  <2> HIDE DEF rest, Next1
  <2> QED
    BY <2>2, <2>5, <2>6, StepSound
<1>6. CASE Queue(d)
  <2>1. PICK ev \in was.ev, t \in was.next : TRUE
    BY <1>1, <1>6 DEF Queue, Sound
  <2> DEFINE evs == IF was.targets = {} THEN {} ELSE was.ev
  <2>2. det' = [det EXCEPT ![d] = [was EXCEPT !.next = {}, !.ev = evs]] /\ got' = got
    BY <1>1, <1>6, <2>1 DEF Queue, sentVars
  <2>3. was.targets # {} => evs # {}
    BY <2>1
  <2>4. Sound([was EXCEPT !.next = {}, !.ev = evs])
    <3> HIDE DEF was, evs
    <3> QED
      BY <1>1, <2>3 DEF Sound, HasTargets
  <2> HIDE DEF evs
  <2> QED
    BY <2>2, <2>4, StepSound
<1>7. CASE QueueThrows(d)
  BY <1>7, QuietSound, StepSound DEF QueueThrows, sentVars
<1> QED
  BY <1>2, <1>3, <1>4, <1>5, <1>6, <1>7 DEF Detect

LEMMA DetNext ==
    ASSUME SendInv, DetInv, [Next]_vars PROVE DetInv'
<1>0. SendShape /\ SentInv /\ DOMAIN det = Detectors /\ \A d \in Detectors : Sound(det[d])
  BY SoundEach DEF SendInv
<1>1. got \subseteq got'
  BY <1>0, GotGrows
<1>2. CASE det' = det
  BY <1>1, <1>2, RestSound
<1>3. ASSUME NEW n \in 1..MaxBatch, NEW o \in [1..n -> Outcomes], IngestRuns(n, o) PROVE DetInv'
  <2> DEFINE was == det["hub"]
  <2>1. PICK a : det' = [det EXCEPT !["hub"] = [was EXCEPT !.todo = a]] /\ got' = got
    BY <1>3 DEF IngestRuns, sentVars
  <2>2. Sound(was) /\ "hub" \in Detectors
    BY <1>0 DEF Detectors
  <2>3. Sound([was EXCEPT !.todo = a])
    <3> HIDE DEF was
    <3> QED
      BY <2>2 DEF Sound, HasTargets
  <2> QED
    BY <2>1, <2>2, <2>3, StepSound
<1>4. ASSUME NEW d \in Detectors, NEW ev \in Others, Raise(d, ev) PROVE DetInv'
  <2> DEFINE was == det[d]
  <2>1. PICK a : det' = [det EXCEPT ![d] = [was EXCEPT !.raise = a]] /\ got' = got
    BY <1>4 DEF Raise, sentVars
  <2>2. Sound(was)
    BY <1>0
  <2>3. Sound([was EXCEPT !.raise = a])
    <3> HIDE DEF was
    <3> QED
      BY <2>2 DEF Sound, HasTargets
  <2> QED
    BY <2>1, <2>3, StepSound
<1>5. ASSUME NEW d \in Detectors, DetectorThrows(d) PROVE DetInv'
  BY <1>5, QuietSound, StepSound DEF DetectorThrows, sentVars
<1>6. CASE Crash
  <2>1. DOMAIN det' = Detectors /\ \A d \in Detectors : Sound(det'[d])
    BY <1>6, QuietSound DEF Crash
  <2>2. got' = got
    BY <1>6 DEF Crash
  <2> QED
    BY <2>1, <2>2 DEF DetInv, DetShape, DetMute, Sound, Reason
<1>7. CASE UNCHANGED vars
  BY <1>2, <1>7 DEF vars
<1>8. CASE Admin
  BY <1>2, <1>8 DEF Admin, DeleteChannel, TestChannel, SaveChannel, DeleteRule, SaveRule
<1>9. ASSUME NEW s \in Sweeps, Deliver(s) \/ RecordFails(s) \/ \E row \in sweep[s].rows : SendTimesOut(s, row)
      PROVE  DetInv'
  <2>1. det' = det
    BY <1>9 DEF Deliver, Drain, Begin, RecordOutcome, OutcomeDropped, RecordFails, Send, SendFails, SendTimesOut, Take
  <2> QED
    BY <1>2, <2>1
<1>10. ASSUME Tick \/ \E k \in DOMAIN deliveries : BackoffEnds(k) PROVE DetInv'
  BY <1>2, <1>10 DEF Tick, BackoffEnds
<1>11. ASSUME NEW d \in Detectors, Detect(d) PROVE DetInv'
  BY <1>0, <1>11, DetectSound
<1> QED
  BY <1>3, <1>4, <1>5, <1>6, <1>7, <1>8, <1>9, <1>10, <1>11 DEF Next

-----------------------------------------------------------------------------
(* A muted alert keeps its reason.                                          *)
LEMMA MutedNext ==
    ASSUME SendInv, DetInv, RowsMuted, [Next]_vars PROVE RowsMuted'
<1>0. SendShape /\ SweepInv /\ DetMute
  BY DEF SendInv, DetInv
<1>1. \A c, ev : Reason(c, ev) => Reason(c, ev)'
  BY <1>0, GotGrows DEF Reason
<1>2. CASE Rests \/ Ages \/ \E c \in Channels : Removes(c)
  <2>1. \A k \in DOMAIN deliveries' : k \in DOMAIN deliveries /\ deliveries'[k].state = deliveries[k].state
    BY <1>2 DEF Rests, Ages, Removes
  <2> QED
    BY <1>1, <2>1 DEF RowsMuted
<1>3. ASSUME NEW d \in Detectors, Queue(d) PROVE RowsMuted'
  <2>1. CASE Rests
    BY <1>2, <2>1
  <2>2. ASSUME NEW ev \in det[d].ev, NEW t \in det[d].next, NEW row,
               Queues(<<ev, t.chan>>, row), row.state = "suppressed" => t.mute
        PROVE  RowsMuted'
    <3>1. t.mute => Reason(t.chan, ev)
      BY <1>0 DEF DetMute
    <3> DEFINE key == <<ev, t.chan>>
    <3>2. key[1] = ev /\ key[2] = t.chan
      OBVIOUS
    <3> HIDE DEF key
    <3>3. Queues(key, row)
      BY <2>2 DEF key
    <3>4. \A k \in DOMAIN deliveries' : IF k \in DOMAIN deliveries THEN deliveries'[k] = deliveries[k]
                                        ELSE k = key /\ deliveries'[k] = row
      BY <3>3 DEF Queues
    <3> QED
      BY <1>1, <2>2, <3>1, <3>2, <3>4 DEF RowsMuted
  <2> QED
    BY <1>0, <1>3, <2>1, <2>2, QueueKind
<1>4. ASSUME NEW s \in Sweeps, RecordOutcome(s) \/ RecordFails(s) PROVE RowsMuted'
  <2>1. PICK o \in sweep[s].out : TRUE
    BY <1>4 DEF RecordOutcome, RecordFails
  <2>2. PICK row : Writes(s, o.row.key, row) /\ row.state \in {"sent", "failed", "pending"}
    BY <1>0, <1>4, <2>1, WriteKind
  <2> QED
    BY <1>1, <2>2 DEF Writes, RowsMuted
<1>5. ASSUME deliveries' = deliveries PROVE RowsMuted'
  BY <1>1, <1>5 DEF RowsMuted
<1>6. ASSUME NEW s \in Sweeps,
             \/ Drain(s) \/ OutcomeDropped(s)
             \/ \E row \in sweep[s].rows :
                  Send(s, row) \/ SendTimesOut(s, row) \/ \E o \in {"retry", "refused"} : SendFails(s, row, o)
      PROVE  RowsMuted'
  BY <1>5, <1>6 DEF Drain, Begin, OutcomeDropped, Send, SendFails, SendTimesOut, Take
<1>7. CASE Crash
  BY <1>5, <1>7 DEF Crash
<1> QED
  BY <1>0, <1>2, <1>3, <1>4, <1>6, <1>7, Kinds1 DEF Deliver

-----------------------------------------------------------------------------
LEMMA InitOK == Init => IInv
<1> SUFFICES ASSUME Init PROVE IInv
  OBVIOUS
<1>1. /\ DOMAIN deliveries = {} /\ got = {} /\ twice = {} /\ DOMAIN chan = Channels
      /\ DOMAIN sweep = Sweeps /\ DOMAIN det = Detectors
      /\ \A s \in Sweeps : HasRows(sweep[s]) /\ sweep[s].rows = {} /\ sweep[s].out = {}
      /\ \A d \in Detectors : Sound(det[d])
  BY QuietSound DEF Init, HasRows
<1>2. SendInv
  BY <1>1 DEF SendInv, SendShape, SweepInv, SentInv, NoDuplicate, Busy, InHand
<1>3. DetInv
  BY <1>1, SoundEach
<1> QED
  BY <1>1, <1>2, <1>3 DEF IInv, RowsMuted

LEMMA NextOK == IInv /\ [Next]_vars => IInv'
  BY SendNext, DetNext, MutedNext DEF IInv

LEMMA Invariant == Spec => []IInv
<1>1. Init => IInv
  BY InitOK
<1>2. IInv /\ [Next]_vars => IInv'
  BY NextOK
<1> QED
  BY <1>1, <1>2, PTL DEF Spec

(* An alert arrives in a channel twice only when the outcome of a send was  *)
(* lost: one sweep is under way at a time, it has each row once, and a row  *)
(* it has in hand has not arrived, or is doubted (drain, #deliver).         *)
THEOREM ArrivesOnce == Spec => []NoDuplicate
<1>1. IInv => NoDuplicate
  BY DEF IInv, SendInv, SentInv
<1> QED
  BY <1>1, Invariant, PTL

(* What the table says of an alert is so: sent alerts have arrived, muted   *)
(* ones have a reason in the channel, failed ones that arrived are doubted  *)
(* (#fanOut, #recentlySent, #deliver).                                      *)
THEOREM TableTellsTheTruth == Spec => []RecordIsTrue
<1>1. IInv => RecordIsTrue
  <2> SUFFICES ASSUME IInv, NEW k \in DOMAIN deliveries
               PROVE  CASE deliveries[k].state = "sent" -> k \in got
                        [] deliveries[k].state = "suppressed" ->
                              \E g \in got : g[2] = k[2] /\ SameThing(g[1], k[1])
                        [] deliveries[k].state = "failed" -> k \in got => k \in doubt
                        [] OTHER -> TRUE
    BY DEF RecordIsTrue
  <2>1. /\ deliveries[k].state = "sent" => k \in got
        /\ deliveries[k].state = "failed" => (k \in got => k \in doubt)
        /\ deliveries[k].state = "suppressed" => \E g \in got : g[2] = k[2] /\ SameThing(g[1], k[1])
    BY DEF IInv, SendInv, SentInv, RowsMuted, Reason
  <2> QED
    BY <2>1
<1> QED
  BY <1>1, Invariant, PTL

-----------------------------------------------------------------------------
(* The detectors' work: runs to look at, events to record.                  *)
Working(x) ==
    /\ HasTargets(x) /\ x.todo \in Seq(Runs) /\ x.raise \in Seq(AllEvents)
    /\ x.ev \subseteq AllEvents /\ \A a, b \in x.ev : a = b
WorkShape ==
    /\ DOMAIN det = Detectors /\ \A d \in Detectors : Working(det[d])
    /\ history \in Seq(Outcomes) /\ Len(history) <= MaxRuns
    /\ events \subseteq AllEvents /\ faults \in Nat /\ orphan \in BOOLEAN

\* What the hub has still to look at are the newest runs, in their order.
Latest(x) ==
    /\ Len(x.todo) <= Len(history)
    /\ \A i \in 1..Len(x.todo) : x.todo[i] = Len(history) - Len(x.todo) + i
LostInv == WorkShape /\ Latest(det["hub"]) /\ NothingLost

LEMMA QuietWorking == Working(Quiet)
  BY DEF Working, Quiet, HasTargets

(* A success after a failure has a failure before it (#failureContext).     *)
LEMMA Preceded ==
    ASSUME history \in Seq(Outcomes), NEW r \in DOMAIN history, NEW q \in Before(r), history[q] = "failed",
           \A p \in Before(r) : p <= q
    PROVE  PreviousFailures(r) # 0
<1> DEFINE streak == {x \in Before(r) : \A p \in Before(r) : p >= x => history[p] = "failed"}
<1>1. streak \subseteq 1..Len(history) /\ \A p \in Before(r) : p \in Nat
  BY DEF Before
<1>2. IsFiniteSet(streak)
  <2>1. IsFiniteSet(1..Len(history))
    BY FS_Interval
  <2> HIDE DEF streak
  <2> QED
    BY <1>1, <2>1, FS_Subset
<1>3. q \in streak
  <2>1. ASSUME NEW p \in Before(r), p >= q PROVE p = q
    BY <1>1, <2>1
  <2> QED
    BY <2>1
<1>4. PreviousFailures(r) = Cardinality(streak)
  BY DEF PreviousFailures
<1> HIDE DEF streak
<1> QED
  BY <1>2, <1>3, <1>4, FS_EmptySet

LEMMA EventsTyped ==
    ASSUME NEW r \in Runs PROVE EventsOf(r) \in Seq(AllEvents)
<1>1. JobOf(r) \in Gone \/ \A kind \in {"job.failed", "job.succeeded", "job.recovered"} : RunEvent(kind, r) \in AllEvents
  BY NotificationAssumption DEF RunEvent, AllEvents
<1> QED
  BY <1>1 DEF EventsOf

(* What a run has to be announced as is among the events it stands for.     *)
LEMMA EventsAnnounce ==
    ASSUME WorkShape, NEW r \in DOMAIN history, JobOf(r) \in Jobs, NEW kind \in Announced(r)
    PROVE  \E i \in DOMAIN EventsOf(r) : EventsOf(r)[i] = RunEvent(kind, r)
<1>1. JobOf(r) \notin Gone /\ history[r] \in Outcomes /\ r \in 1..Len(history) /\ history \in Seq(Outcomes)
  BY NotificationAssumption DEF WorkShape
<1>2. CASE history[r] = "failed"
  <2>1. kind = "job.failed" /\ EventsOf(r) = <<RunEvent("job.failed", r)>>
    BY <1>1, <1>2 DEF Announced, EventsOf
  <2> QED
    BY <2>1
<1>3. CASE history[r] # "failed"
  <2> DEFINE prior == {q \in 1..(r - 1) : JobOf(q) = JobOf(r)}
  <2>1. /\ kind = "job.recovered" /\ history[r] = "ok"
        /\ \E q \in prior : history[q] = "failed" /\ \A p \in prior : p <= q
    BY <1>3 DEF Announced
  <2>2. prior = Before(r)
    BY <1>1 DEF Before
  <2> HIDE DEF prior
  <2>3. PreviousFailures(r) # 0
    BY <1>1, <2>1, <2>2, Preceded
  <2>4. EventsOf(r) = <<RunEvent("job.succeeded", r), RunEvent("job.recovered", r)>>
    BY <1>1, <2>1, <2>3 DEF EventsOf
  <2> QED
    BY <2>1, <2>4
<1> QED
  BY <1>2, <1>3

(* What a step may do to the detectors' work: nothing that the hub's events *)
(* depend on, one detector's work changed, or work given up.                *)
Same == history' = history /\ events' = events /\ orphan' = orphan /\ faults' = faults
Idles ==
    /\ history' = history /\ events' = events /\ orphan' = orphan /\ faults' \in {faults, faults + 1}
    /\ det' = det
Works(d, x) == DOMAIN det' = Detectors /\ det' = [det EXCEPT ![d] = x]
Stops ==
    /\ history' = history /\ events' = events
    /\ (faults' = faults + 1 /\ orphan' = orphan) \/ (faults' = faults /\ orphan' = TRUE)
    /\ DOMAIN det' = Detectors /\ \A d \in Detectors : det'[d] \in {Quiet, det[d]}

LEMMA WorkKinds ==
    ASSUME WorkShape, [Next]_vars
    PROVE  \/ Idles \/ Stops
           \/ \E n \in 1..MaxBatch : \E o \in [1..n -> Outcomes] : IngestRuns(n, o)
           \/ \E d \in Detectors : Detect(d) /\ ~QueueThrows(d)
           \/ \E d \in Detectors : \E ev \in Others : Raise(d, ev)
<1>0. DOMAIN det = Detectors
  BY DEF WorkShape
<1>1. CASE UNCHANGED vars
  BY <1>1 DEF vars, Idles
<1>2. CASE Admin
  BY <1>2 DEF Admin, DeleteChannel, TestChannel, SaveChannel, DeleteRule, SaveRule, Idles
<1>3. ASSUME NEW d \in Detectors, DetectorThrows(d) \/ QueueThrows(d) PROVE Stops
  BY <1>0, <1>3 DEF DetectorThrows, QueueThrows, Fault, Stops
<1>4. ASSUME NEW s \in Sweeps, Deliver(s) PROVE Idles
  BY <1>4 DEF Deliver, Drain, Begin, RecordOutcome, OutcomeDropped, Send, SendFails, Take, Idles
<1>5. ASSUME NEW s \in Sweeps, RecordFails(s) \/ \E row \in sweep[s].rows : SendTimesOut(s, row) PROVE Idles
  BY <1>5 DEF RecordFails, SendTimesOut, Take, Fault, Idles
<1>6. ASSUME Tick \/ \E k \in DOMAIN deliveries : BackoffEnds(k) PROVE Idles
  BY <1>6 DEF Tick, BackoffEnds, Idles
<1>7. CASE Crash
  BY <1>0, <1>7 DEF Crash, Fault, Stops
<1> QED
  BY <1>1, <1>2, <1>3, <1>4, <1>5, <1>6, <1>7 DEF Next

LEMMA IdlesLose == LostInv /\ Idles => LostInv'
<1> SUFFICES ASSUME LostInv, Idles PROVE LostInv'
  OBVIOUS
<1>1. WorkShape'
  BY DEF LostInv, Idles, WorkShape
<1>2. Latest(det["hub"])'
  BY DEF LostInv, Idles, Latest
<1>3. faults' = 0 /\ ~orphan' => faults = 0 /\ ~orphan
  BY DEF LostInv, Idles, WorkShape
<1>4. Raised => Raised'
  BY DEF Idles, Raised, Seen, Announced
<1> QED
  BY <1>1, <1>2, <1>3, <1>4 DEF LostInv, NothingLost

LEMMA StopsLose == LostInv /\ Stops => LostInv'
<1> SUFFICES ASSUME LostInv, Stops PROVE LostInv'
  OBVIOUS
<1>1. WorkShape'
  <2>1. \A d \in Detectors : Working(det'[d])
    BY QuietWorking DEF LostInv, WorkShape, Stops
  <2>2. faults' \in Nat
    BY DEF LostInv, WorkShape, Stops
  <2>3. orphan' \in BOOLEAN
    BY Zenon DEF LostInv, WorkShape, Stops
  <2> QED
    BY <2>1, <2>2, <2>3 DEF LostInv, WorkShape, Stops
<1>2. Latest(det["hub"])'
  <2>1. det'["hub"] = Quiet \/ det'["hub"] = det["hub"]
    BY DEF Stops, Detectors
  <2>2. CASE det'["hub"] = det["hub"]
    BY <2>2 DEF LostInv, Stops, Latest
  <2>3. CASE det'["hub"] = Quiet
    <3>1. det'["hub"].todo = <<>> /\ Len(<<>>) = 0
      BY <2>3 DEF Quiet
    <3>2. history' = history /\ Len(history) \in Nat
      BY DEF LostInv, WorkShape, Stops
    <3> QED
      BY <3>1, <3>2 DEF Latest
  <2> QED
    BY <2>1, <2>2, <2>3
<1>3. NothingLost'
  BY DEF LostInv, WorkShape, Stops, NothingLost
<1> QED
  BY <1>1, <1>2, <1>3 DEF LostInv

(* One detector's work changes.                                             *)
LEMMA StepWorks ==
    ASSUME WorkShape, NEW d \in Detectors, NEW x, Working(x), det' = [det EXCEPT ![d] = x],
           history' \in Seq(Outcomes), Len(history') <= MaxRuns, events' \subseteq AllEvents,
           faults' = faults, orphan' = orphan
    PROVE  WorkShape' /\ det'[d] = x /\ \A e \in Detectors \ {d} : det'[e] = det[e]
BY DEF WorkShape

\* The hub has nothing new to announce, and what it had to record it has or recorded.
LEMMA HubKeeps ==
    ASSUME LostInv, WorkShape', history' = history, faults' = faults, orphan' = orphan,
           det'["hub"].todo = det["hub"].todo, events \subseteq events',
           \A i \in DOMAIN det["hub"].raise :
              \/ det["hub"].raise[i] \in events'
              \/ \E j \in DOMAIN det'["hub"].raise : det'["hub"].raise[j] = det["hub"].raise[i]
    PROVE  LostInv'
<1>1. Latest(det["hub"])'
  BY DEF LostInv, Latest
<1>2. NothingLost'
  <2> SUFFICES ASSUME faults = 0, ~orphan PROVE Raised'
    BY DEF NothingLost
  <2> SUFFICES ASSUME NEW r \in Runs, Seen(r)', JobOf(r) \in Jobs, NEW kind \in Announced(r)'
               PROVE  \/ RunEvent(kind, r) \in events'
                      \/ \E i \in DOMAIN det'["hub"].raise : det'["hub"].raise[i] = RunEvent(kind, r)
    BY DEF Raised, RunEvent
  <2>1. Seen(r) /\ kind \in Announced(r)
    BY DEF Seen, Announced
  <2>2. \/ RunEvent(kind, r) \in events
        \/ \E i \in DOMAIN det["hub"].raise : det["hub"].raise[i] = RunEvent(kind, r)
    BY <2>1 DEF LostInv, NothingLost, Raised
  <2> QED
    BY <2>2
<1> QED
  BY <1>1, <1>2 DEF LostInv

LEMMA DetectLoses ==
    ASSUME LostInv, DetInv, NEW d \in Detectors, Detect(d), ~QueueThrows(d) PROVE LostInv'
<1> DEFINE was == det[d]
<1>a. /\ WorkShape /\ DOMAIN det = Detectors /\ Working(was) /\ Working(det["hub"])
      /\ history \in Seq(Outcomes) /\ Len(history) <= MaxRuns /\ events \subseteq AllEvents
  BY DEF LostInv, WorkShape, Detectors
<1>1. ASSUME NEW x, Working(x), x.todo = was.todo, x.raise = was.raise, det' = [det EXCEPT ![d] = x], Same
      PROVE  LostInv'
  <2>1. WorkShape' /\ det'[d] = x /\ \A e \in Detectors \ {d} : det'[e] = det[e]
    BY <1>1, <1>a, StepWorks DEF Same
  <2>2. det'["hub"].todo = det["hub"].todo /\ det'["hub"].raise = det["hub"].raise
    BY <1>1, <2>1 DEF Detectors
  <2> QED
    BY <1>1, <2>1, <2>2, HubKeeps DEF Same
<1>2. CASE NextRun(d)
  <2> DEFINE r == Head(was.todo)
             rest == Tail(was.todo)
             new == EventsOf(r)
             x == [was EXCEPT !.todo = rest, !.raise = new]
  <2>1. was.raise = <<>> /\ was.todo # <<>> /\ det' = [det EXCEPT ![d] = x] /\ Same
    BY <1>a, <1>2 DEF NextRun, Same, adminVars
  <2>2. r \in Runs /\ rest \in Seq(Runs) /\ new \in Seq(AllEvents)
    BY <1>a, <2>1, EventsTyped DEF Working
  <2>3. Working(x) /\ x.todo = rest /\ x.raise = new
    <3> HIDE DEF was, rest, new
    <3> QED
      BY <1>a, <2>2 DEF Working, HasTargets
  <2> HIDE DEF x
  <2>4. WorkShape' /\ det'[d] = x /\ \A e \in Detectors \ {d} : det'[e] = det[e]
    BY <1>a, <2>1, <2>3, StepWorks DEF Same
  <2>5. CASE d # "hub"
    <3>1. det'["hub"] = det["hub"]
      BY <2>4, <2>5 DEF Detectors
    <3> QED
      BY <2>1, <2>4, <3>1, HubKeeps DEF Same
  <2>6. CASE d = "hub"
    <3>1. /\ was.todo \in Seq(Runs) /\ Len(rest) = Len(was.todo) - 1 /\ Len(was.todo) \in Nat \ {0}
          /\ \A i \in 1..Len(rest) : rest[i] = was.todo[i + 1]
          /\ r = was.todo[1]
      BY <1>a, <2>1 DEF Working
    <3>2. /\ Len(was.todo) <= Len(history)
          /\ \A i \in 1..Len(was.todo) : was.todo[i] = Len(history) - Len(was.todo) + i
      BY <2>6 DEF LostInv, Latest
    <3>3. det'["hub"].todo = rest /\ det'["hub"].raise = new /\ rest \in Seq(Runs) /\ Len(history) \in Nat
      BY <1>a, <2>2, <2>3, <2>4, <2>6
    <3> HIDE DEF was, rest, new, r
    <3>4. Len(rest) <= Len(history) /\ \A i \in 1..Len(rest) : rest[i] = Len(history) - Len(rest) + i
      <4>1. ASSUME NEW i \in 1..Len(rest) PROVE rest[i] = Len(history) - Len(rest) + i
        <5>1. i + 1 \in 1..Len(was.todo) /\ i \in Nat
          BY <3>1
        <5>2. rest[i] = Len(history) - Len(was.todo) + (i + 1)
          BY <3>1, <3>2, <5>1
        <5> QED
          BY <3>1, <3>3, <5>1, <5>2
      <4>2. Len(rest) <= Len(history)
        BY <3>1, <3>2, <3>3
      <4> QED
        BY <4>1, <4>2
    <3>5. Latest(det["hub"])'
      BY <2>1, <3>3, <3>4 DEF Latest, Same
    <3>6. NothingLost'
      <4> SUFFICES ASSUME faults = 0, ~orphan PROVE Raised'
        BY <2>1 DEF NothingLost, Same
      <4> SUFFICES ASSUME NEW q \in Runs, Seen(q)', JobOf(q) \in Jobs, NEW kind \in Announced(q)'
                   PROVE  \/ RunEvent(kind, q) \in events'
                          \/ \E i \in DOMAIN new : new[i] = RunEvent(kind, q)
        BY <3>3 DEF Raised, RunEvent
      <4>1. kind \in Announced(q) /\ q \in DOMAIN history /\ \A i \in DOMAIN rest : rest[i] > q
        BY <2>1, <3>3 DEF Same, Seen, Announced
      <4>2. q \in 1..Len(history) /\ r = Len(history) - Len(rest)
        <5>1. q \in 1..Len(history)
          BY <1>a, <4>1
        <5>2. was.todo[1] = Len(history) - Len(was.todo) + 1
          <6>1. 1 \in 1..Len(was.todo)
            BY <3>1
          <6> QED
            BY <3>2, <6>1
        <5> QED
          BY <3>1, <3>3, <5>1, <5>2
      <4>3. CASE q = r
        <5>1. \E i \in DOMAIN EventsOf(q) : EventsOf(q)[i] = RunEvent(kind, q)
          BY <1>a, <4>1, EventsAnnounce
        <5> QED
          BY <4>3, <5>1 DEF new
      <4>4. CASE q # r
        <5>1. q < r
          <6>1. CASE Len(rest) = 0
            BY <3>3, <4>2, <4>4, <6>1
          <6>2. CASE Len(rest) # 0
            <7>1. 1 \in DOMAIN rest /\ rest[1] = Len(history) - Len(rest) + 1
              BY <3>3, <3>4, <6>2
            <7> QED
              BY <3>3, <4>1, <4>2, <4>4, <7>1
          <6> QED
            BY <6>1, <6>2
        <5>2. Seen(q)
          <6>1. ASSUME NEW i \in DOMAIN was.todo PROVE was.todo[i] > q
            <7>1. i \in 1..Len(was.todo) /\ i \in Nat /\ q \in Nat /\ Len(was.todo) \in Nat
              BY <3>1, <3>3, <4>2
            <7>2. was.todo[i] = Len(history) - Len(was.todo) + i
              BY <3>2, <7>1
            <7>3. i >= 1 /\ Len(was.todo) = Len(rest) + 1 /\ Len(rest) \in Nat
              BY <3>1, <3>3, <7>1
            <7>4. q < Len(history) - Len(rest)
              BY <4>2, <5>1
            <7> QED
              BY <3>3, <7>1, <7>2, <7>3, <7>4
          <6> QED
            BY <2>6, <4>1, <6>1 DEF Seen, was
        <5>3. DOMAIN det["hub"].raise = {}
          BY <2>1, <2>6 DEF was
        <5>4. RunEvent(kind, q) \in events
          BY <4>1, <5>2, <5>3 DEF LostInv, NothingLost, Raised
        <5> QED
          BY <2>1, <5>4 DEF Same
      <4> QED
        BY <4>3, <4>4
    <3> QED
      BY <2>4, <3>5, <3>6 DEF LostInv
  <2> QED
    BY <2>5, <2>6
<1>3. CASE RecordEvent(d)
  <2> DEFINE ev == Head(was.raise)
             rest == Tail(was.raise)
             evs == {ev} \ events
             x == [was EXCEPT !.raise = rest, !.ev = evs]
  <2>1. /\ was.raise # <<>> /\ det' = [det EXCEPT ![d] = x] /\ events' = events \cup {ev}
        /\ history' = history /\ faults' = faults /\ orphan' = orphan
    BY <1>a, <1>3 DEF RecordEvent, adminVars
  <2>2. ev \in AllEvents /\ rest \in Seq(AllEvents) /\ evs \subseteq AllEvents /\ \A a, b \in evs : a = b
    BY <1>a, <2>1 DEF Working
  <2>3. Working(x) /\ x.todo = was.todo /\ x.raise = rest
    <3> HIDE DEF was, rest, evs
    <3> QED
      BY <1>a, <2>2 DEF Working, HasTargets
  <2>4. \A i \in DOMAIN was.raise : was.raise[i] = ev \/ \E j \in DOMAIN rest : rest[j] = was.raise[i]
    <3>1. was.raise \in Seq(AllEvents)
      BY <1>a DEF Working
    <3>2. ASSUME NEW i \in DOMAIN was.raise, i # 1 PROVE i - 1 \in DOMAIN rest /\ rest[i - 1] = was.raise[i]
      BY <2>1, <3>1, <3>2
    <3>3. was.raise[1] = ev
      BY <2>1, <3>1
    <3> QED
      BY <3>2, <3>3
  <2> HIDE DEF x, ev, rest, evs
  <2>5. WorkShape' /\ det'[d] = x /\ \A e \in Detectors \ {d} : det'[e] = det[e]
    BY <1>a, <2>1, <2>2, <2>3, StepWorks
  <2>6. /\ det'["hub"].todo = det["hub"].todo
        /\ \A i \in DOMAIN det["hub"].raise :
              \/ det["hub"].raise[i] \in events'
              \/ \E j \in DOMAIN det'["hub"].raise : det'["hub"].raise[j] = det["hub"].raise[i]
    BY <2>1, <2>3, <2>4, <2>5 DEF Detectors
  <2> QED
    BY <2>1, <2>5, <2>6, HubKeeps
<1>4. CASE FanOut(d)
  <2>1. PICK ev \in was.ev : TRUE
    BY <1>4 DEF FanOut
  <2> DEFINE new == TargetsOf(ev)
             evs == IF new = {} THEN {} ELSE was.ev
  <2>2. det' = [det EXCEPT ![d] = [was EXCEPT !.targets = new, !.ev = evs]] /\ Same
    BY <1>a, <1>4, <2>1 DEF FanOut, Same, adminVars
  <2>3. evs \subseteq was.ev
    OBVIOUS
  <2> DEFINE x == [was EXCEPT !.targets = new, !.ev = evs]
  <2>4. Working(x) /\ x.todo = was.todo /\ x.raise = was.raise
    <3> HIDE DEF was, new, evs
    <3> QED
      BY <1>a, <2>3 DEF Working, HasTargets
  <2> HIDE DEF new, evs
  <2> QED
    BY <1>1, <2>2, <2>4
<1>5. ASSUME NEW t \in det[d].targets, Throttle(d, t) PROVE LostInv'
  <2>1. PICK ev \in was.ev : TRUE
    BY <1>5, SoundEach DEF Sound
  <2> DEFINE rest == was.targets \ {t}
             next == {[chan |-> t.chan, window |-> t.window,
                       mute |-> t.window > 0 /\ RecentlySent(t.chan, ev, t.window)]}
             x == [was EXCEPT !.targets = rest, !.next = next]
  <2>2. det' = [det EXCEPT ![d] = x] /\ Same
    BY <1>a, <1>5, <2>1 DEF Throttle, Same, adminVars
  <2>3. Working(x) /\ x.todo = was.todo /\ x.raise = was.raise
    <3> HIDE DEF was, rest, next
    <3> QED
      BY <1>a DEF Working, HasTargets
  <2> HIDE DEF x
  <2> QED
    BY <1>1, <2>2, <2>3
<1>6. CASE Queue(d)
  <2>1. PICK ev \in was.ev, t \in was.next : TRUE
    BY <1>6, SoundEach DEF Queue, Sound
  <2> DEFINE evs == IF was.targets = {} THEN {} ELSE was.ev
             x == [was EXCEPT !.next = {}, !.ev = evs]
  <2>2. det' = [det EXCEPT ![d] = x] /\ Same
    BY <1>a, <1>6, <2>1 DEF Queue, Same, adminVars
  <2>3. evs \subseteq was.ev
    OBVIOUS
  <2>4. Working(x) /\ x.todo = was.todo /\ x.raise = was.raise
    <3> HIDE DEF was, evs
    <3> QED
      BY <1>a, <2>3 DEF Working, HasTargets
  <2> HIDE DEF x
  <2> QED
    BY <1>1, <2>2, <2>4
<1> QED
  BY <1>2, <1>3, <1>4, <1>5, <1>6 DEF Detect

LEMMA IngestLoses ==
    ASSUME LostInv, NEW n \in 1..MaxBatch, NEW outcome \in [1..n -> Outcomes], IngestRuns(n, outcome)
    PROVE  LostInv'
<1> DEFINE was == det["hub"]
           todo == [i \in 1..n |-> Len(history) + i]
           x == [was EXCEPT !.todo = todo]
<1>1. /\ was = Quiet /\ Len(history) + n <= MaxRuns /\ history' = history \o outcome
      /\ det' = [det EXCEPT !["hub"] = x] /\ events' = events /\ faults' = faults /\ orphan' = orphan
  BY DEF IngestRuns, adminVars
<1>a. /\ WorkShape /\ DOMAIN det = Detectors /\ "hub" \in Detectors /\ Working(was)
      /\ history \in Seq(Outcomes) /\ Len(history) \in Nat /\ Len(history) <= MaxRuns /\ events \subseteq AllEvents
      /\ n \in Nat \ {0} /\ MaxRuns \in Nat
  BY NotificationAssumption DEF LostInv, WorkShape, Detectors
<1>2. outcome \in Seq(Outcomes) /\ Len(outcome) = n
  BY <1>a
<1>3. /\ history' \in Seq(Outcomes) /\ Len(history') = Len(history) + n
      /\ \A r \in 1..Len(history) : history'[r] = history[r]
  BY <1>a, <1>1, <1>2
<1>4. todo \in Seq(Runs) /\ Len(todo) = n /\ \A i \in 1..n : todo[i] = Len(history) + i
  <2>1. \A i \in 1..n : Len(history) + i \in Runs
    BY <1>a, <1>1 DEF Runs
  <2> QED
    BY <1>a, <2>1
<1>5. Working(x) /\ x.todo = todo /\ x.raise = was.raise
  <2> HIDE DEF was, todo
  <2> QED
    BY <1>a, <1>4 DEF Working, HasTargets
<1> HIDE DEF x, todo
<1>6. WorkShape' /\ det'["hub"] = x
  <2>1. Len(history') <= MaxRuns
    BY <1>1, <1>3
  <2> QED
    BY <1>1, <1>a, <1>3, <1>5, <2>1, StepWorks
<1>7. Latest(det["hub"])'
  <2>1. det'["hub"].todo = todo
    BY <1>5, <1>6
  <2>2. Len(todo) <= Len(history') /\ \A i \in 1..Len(todo) : todo[i] = Len(history') - Len(todo) + i
    BY <1>a, <1>3, <1>4
  <2> QED
    BY <2>1, <2>2 DEF Latest
<1>8. NothingLost'
  <2> SUFFICES ASSUME faults = 0, ~orphan PROVE Raised'
    BY <1>1 DEF NothingLost
  <2> SUFFICES ASSUME NEW r \in Runs, Seen(r)', JobOf(r) \in Jobs, NEW kind \in Announced(r)'
               PROVE  RunEvent(kind, r) \in events
    BY <1>1 DEF Raised, RunEvent
  <2>1. r \in DOMAIN history' /\ \A i \in DOMAIN todo : todo[i] > r
    BY <1>5, <1>6 DEF Seen
  <2>2. r \in 1..Len(history)
    <3>1. 1 \in DOMAIN todo /\ todo[1] = Len(history) + 1
      BY <1>a, <1>4
    <3> QED
      BY <1>a, <1>3, <2>1, <3>1
  <2>3. \A q \in 1..r : history'[q] = history[q]
    BY <1>a, <1>3, <2>2
  <2>4. kind \in Announced(r)
    BY <1>a, <2>2, <2>3 DEF Announced
  <2>5. Seen(r) /\ DOMAIN det["hub"].raise = {}
    BY <1>a, <1>1, <2>2 DEF Seen, Quiet
  <2> QED
    BY <2>4, <2>5 DEF LostInv, NothingLost, Raised
<1> QED
  BY <1>6, <1>7, <1>8 DEF LostInv

LEMMA RaiseLoses ==
    ASSUME LostInv, NEW d \in Detectors, NEW ev \in Others, Raise(d, ev)
    PROVE  LostInv'
<1> DEFINE was == det[d]
           new == <<ev>>
           x == [was EXCEPT !.raise = new]
<1>1. was = Quiet /\ det' = [det EXCEPT ![d] = x] /\ Same
  BY DEF Raise, Same, adminVars
<1>a. /\ WorkShape /\ DOMAIN det = Detectors /\ Working(was)
      /\ history \in Seq(Outcomes) /\ Len(history) <= MaxRuns /\ events \subseteq AllEvents
  BY DEF LostInv, WorkShape
<1>2. new \in Seq(AllEvents)
  BY DEF AllEvents
<1>3. Working(x) /\ x.todo = was.todo
  <2> HIDE DEF was, new
  <2> QED
    BY <1>a, <1>2 DEF Working, HasTargets
<1> HIDE DEF x
<1>4. WorkShape' /\ det'[d] = x /\ \A e \in Detectors \ {d} : det'[e] = det[e]
  BY <1>1, <1>a, <1>3, StepWorks DEF Same
<1>5. det'["hub"].todo = det["hub"].todo
  BY <1>3, <1>4 DEF Detectors
<1>6. \A i \in DOMAIN det["hub"].raise : \E j \in DOMAIN det'["hub"].raise : det'["hub"].raise[j] = det["hub"].raise[i]
  <2>1. CASE d = "hub"
    BY <1>1, <2>1 DEF Quiet
  <2>2. CASE d # "hub"
    BY <1>4, <2>2 DEF Detectors
  <2> QED
    BY <2>1, <2>2
<1> QED
  BY <1>1, <1>4, <1>5, <1>6, HubKeeps DEF Same

LEMMA LostNext == LostInv /\ DetInv /\ [Next]_vars => LostInv'
<1> SUFFICES ASSUME LostInv, DetInv, [Next]_vars PROVE LostInv'
  OBVIOUS
<1>1. WorkShape
  BY DEF LostInv
<1> QED
  BY <1>1, WorkKinds, IdlesLose, StopsLose, IngestLoses, DetectLoses, RaiseLoses

LEMMA LostInit == Init => LostInv
<1> SUFFICES ASSUME Init PROVE LostInv
  OBVIOUS
<1>1. /\ history = <<>> /\ events = {} /\ det = [d \in Detectors |-> Quiet] /\ orphan = FALSE /\ faults = 0
      /\ MaxRuns \in Nat
  BY NotificationAssumption DEF Init
<1>2. WorkShape
  <2>1. DOMAIN det = Detectors /\ \A d \in Detectors : Working(det[d])
    BY <1>1, QuietWorking
  <2>2. history \in Seq(Outcomes) /\ Len(history) <= MaxRuns /\ events \subseteq AllEvents /\ faults \in Nat
    BY <1>1
  <2>3. orphan \in BOOLEAN
    BY <1>1, Zenon
  <2> QED
    BY <2>1, <2>2, <2>3 DEF WorkShape
<1>3. Latest(det["hub"])
  BY <1>1 DEF Latest, Quiet, Detectors
<1>4. Raised
  BY <1>1 DEF Raised, Seen
<1> QED
  BY <1>2, <1>3, <1>4 DEF LostInv, NothingLost

LEMMA LostKept == Spec => []LostInv
<1>1. Init => LostInv
  BY LostInit
<1>2. LostInv /\ DetInv /\ [Next]_vars => LostInv'
  BY LostNext
<1>3. IInv => DetInv
  BY DEF IInv
<1> QED
  BY <1>1, <1>2, <1>3, Invariant, PTL DEF Spec

(* onRunsIngested, #failureContext and recordEvent: with no fault, and no   *)
(* rule that names a removed channel, every failure and every success that  *)
(* ends a streak of failures is recorded or about to be, however the        *)
(* history is cut into batches and whatever the timer detects meanwhile.    *)
THEOREM EveryFailureIsRaised == Spec => []NothingLost
<1>1. LostInv => NothingLost
  BY DEF LostInv
<1> QED
  BY <1>1, LostKept, PTL

-----------------------------------------------------------------------------
(* The types of what the detectors, the sweeps and the tables hold.         *)
Target == [chan : Channels, window : 0..MaxWindow]
Looked == [chan : Channels, window : 0..MaxWindow, mute : BOOLEAN]
Opened(c) == c \in Channels /\ chan[c] # "new"

RuleInv ==
    /\ rules \in [Rules -> SUBSET [form : Forms, on : BOOLEAN]]
    /\ chan \in [Channels -> {"new", "on", "off", "removed"}] /\ failing \subseteq Channels
    /\ \A r \in Rules : \A f \in rules[r] : \A c \in f.form.chans : Opened(c)
\* Targets are channels there are, or were: the rules named them.
Aimed(x) ==
    /\ x.targets \subseteq Target /\ x.next \subseteq Looked
    /\ \A t \in x.targets \cup x.next : Opened(t.chan)
AimInv == \A d \in Detectors : Aimed(det[d])
\* A row that is still to be sent has an attempt left.
RowTyped(k, row) ==
    /\ k \in Pairs /\ row \in Delivery /\ chan[k[2]] \in {"on", "off"}
    /\ row.state = "pending" => row.attempts < MaxAttempts
Taken(row) == row.key \in Pairs /\ row.attempts \in Nat /\ row.attempts < MaxAttempts
RowInv == \A k \in DOMAIN deliveries : RowTyped(k, deliveries[k])
HandInv == \A s \in Sweeps : (\A row \in sweep[s].rows : Taken(row)) /\ (\A o \in sweep[s].out : Taken(o.row))
ArrivedInv == got \subseteq Pairs /\ twice \subseteq got /\ doubt \subseteq got
TypeInv == RuleInv /\ AimInv /\ RowInv /\ HandInv /\ ArrivedInv

LEMMA FormOf ==
    ASSUME NEW f \in Forms
    PROVE  f.chans \subseteq Channels /\ f.window \in 0..MaxWindow /\ MaxWindow \in Nat
<1>1. f \in Form /\ MaxWindow \in Nat
  BY NotificationAssumption
<1> QED
  BY <1>1 DEF Form

(* Of several windows one is the shortest.                                  *)
LEMMA Least ==
    ASSUME NEW S, S \subseteq Nat, S # {}
    PROVE  \E w \in S : \A v \in S : w <= v
<1> DEFINE R == OpToRel(<, Nat)
<1>1. IsWellFoundedOn(R, Nat)
  BY NatLessThanWellFounded
<1>2. \A x, y \in Nat : x < y => <<x, y>> \in R
  BY DEF OpToRel
<1> HIDE DEF R
<1>3. PICK w \in S : \A v \in S : ~ (<<v, w>> \in R)
  BY <1>1, WFMin
<1>4. ASSUME NEW v \in S PROVE w <= v
  <2>1. v \in Nat /\ w \in Nat /\ ~(v < w)
    BY <1>2, <1>3
  <2> QED
    BY <2>1
<1> QED
  BY <1>4

LEMMA TargetsTyped ==
    ASSUME RuleInv, NEW ev
    PROVE  TargetsOf(ev) \subseteq Target /\ \A t \in TargetsOf(ev) : Opened(t.chan)
<1> DEFINE ms == Matching(ev)
           Short(c, w) == \E f \in ms : /\ c \in f.form.chans /\ f.form.window = w
                                        /\ \A g \in ms : c \in g.form.chans => w <= g.form.window
           Aim(c) == [chan |-> c, window |-> CHOOSE w \in 0..MaxWindow : Short(c, w)]
           Aims == UNION {f.form.chans : f \in ms}
<1>1. \A f \in ms : \E r \in Rules : f \in rules[r]
  BY DEF Matching
<1>2. \A f \in ms : f.form \in Forms /\ \A c \in f.form.chans : Opened(c)
  BY <1>1 DEF RuleInv
<1> HIDE DEF ms
<1>3. ASSUME NEW c \in Aims PROVE Opened(c) /\ Aim(c) \in Target
  <2>1. PICK f \in ms : c \in f.form.chans
    OBVIOUS
  <2> DEFINE S == {g.form.window : g \in {h \in ms : c \in h.form.chans}}
  <2>2. S \subseteq 0..MaxWindow /\ MaxWindow \in Nat /\ f.form.window \in S
    BY <1>2, <2>1, FormOf
  <2>3. \A g \in ms : c \in g.form.chans => g.form.window \in S
    OBVIOUS
  <2>4. \A w \in S : \E g \in ms : c \in g.form.chans /\ g.form.window = w
    OBVIOUS
  <2> HIDE DEF S
  <2>5. S \subseteq Nat /\ S # {}
    BY <2>2
  <2>6. PICK w \in S : \A v \in S : w <= v
    BY <2>5, Least
  <2>7. w \in 0..MaxWindow /\ Short(c, w)
    BY <2>2, <2>3, <2>4, <2>6
  <2> HIDE DEF Short
  <2>8. (CHOOSE x \in 0..MaxWindow : Short(c, x)) \in 0..MaxWindow
    BY <2>7
  <2> QED
    BY <1>2, <2>1, <2>8 DEF Target, Opened
<1>4. TargetsOf(ev) = {Aim(c) : c \in Aims}
  BY DEF TargetsOf, ms
<1>5. \A c \in Aims : Aim(c).chan = c
  OBVIOUS
<1> HIDE DEF Aim, Aims
<1> QED
  BY <1>3, <1>4, <1>5

(* A channel that was saved once stays one that was.                        *)
LEMMA RuleNext ==
    ASSUME RuleInv, RowInv, [Next]_vars
    PROVE  RuleInv' /\ \A c : Opened(c) => Opened(c)'
<1>1. ASSUME rules' = rules, chan' = chan, failing' \subseteq Channels
      PROVE  RuleInv' /\ \A c : Opened(c) => Opened(c)'
  BY <1>1 DEF RuleInv, Opened
<1>2. ASSUME NEW c \in Channels, NEW x \in {"on", "off", "removed"}, chan' = [chan EXCEPT ![c] = x],
             rules' = rules, failing' \subseteq failing
      PROVE  RuleInv' /\ \A k : Opened(k) => Opened(k)'
  BY <1>2 DEF RuleInv, Opened
<1>3. ASSUME NEW r \in Rules, NEW set \in SUBSET [form : Forms, on : BOOLEAN],
             \A f \in set : \A c \in f.form.chans : Opened(c),
             rules' = [rules EXCEPT ![r] = set], chan' = chan, failing' = failing
      PROVE  RuleInv' /\ \A k : Opened(k) => Opened(k)'
  BY <1>3 DEF RuleInv, Opened
<1>4. ASSUME NEW c \in Channels, DeleteChannel(c) \/ TestChannel(c) \/ \E on \in BOOLEAN : SaveChannel(c, on)
      PROVE  RuleInv' /\ \A k : Opened(k) => Opened(k)'
  <2>1. CASE TestChannel(c)
    BY <1>1, <2>1 DEF TestChannel, RuleInv
  <2>2. CASE DeleteChannel(c)
    BY <1>2, <2>2 DEF DeleteChannel
  <2>3. ASSUME NEW on \in BOOLEAN, SaveChannel(c, on) PROVE RuleInv' /\ \A k : Opened(k) => Opened(k)'
    <3>1. PICK x \in {"on", "off"} : chan' = [chan EXCEPT ![c] = x]
      BY <2>3 DEF SaveChannel
    <3> QED
      BY <1>2, <2>3, <3>1 DEF SaveChannel
  <2> QED
    BY <1>4, <2>1, <2>2, <2>3
<1>5. ASSUME NEW r \in Rules, DeleteRule(r) \/ \E f \in Forms, on \in BOOLEAN : SaveRule(r, f, on)
      PROVE  RuleInv' /\ \A k : Opened(k) => Opened(k)'
  <2>1. CASE DeleteRule(r)
    BY <1>3, <2>1 DEF DeleteRule
  <2>2. ASSUME NEW f \in Forms, NEW on \in BOOLEAN, SaveRule(r, f, on)
        PROVE  RuleInv' /\ \A k : Opened(k) => Opened(k)'
    <3> DEFINE rule == [form |-> f, on |-> on]
               set == {rule}
    <3>1. rule \in [form : Forms, on : BOOLEAN] /\ rule.form = f
      OBVIOUS
    <3>2. \A c \in f.chans : Opened(c)
      BY <2>2, FormOf DEF SaveRule, RuleInv, Opened
    <3>3. rules' = [rules EXCEPT ![r] = set] /\ chan' = chan /\ failing' = failing
      BY <2>2 DEF SaveRule
    <3> HIDE DEF rule
    <3>4. set \in SUBSET [form : Forms, on : BOOLEAN] /\ \A g \in set : \A c \in g.form.chans : Opened(c)
      BY <3>1, <3>2
    <3> HIDE DEF set
    <3> QED
      BY <1>3, <3>3, <3>4
  <2> QED
    BY <1>5, <2>1, <2>2
<1>6. failing \subseteq Channels /\ \A k \in DOMAIN deliveries : k[2] \in Channels
  BY DEF RuleInv, RowInv, RowTyped, Pairs
<1>7. ASSUME NEW s \in Sweeps, RecordOutcome(s) \/ RecordFails(s)
      PROVE  adminVars' = adminVars /\ failing' \subseteq Channels
  BY <1>6, <1>7 DEF RecordOutcome, RecordFails, adminVars
<1>8. ASSUME NEW s \in Sweeps,
             \/ Drain(s) \/ OutcomeDropped(s)
             \/ \E row \in sweep[s].rows :
                  Send(s, row) \/ SendTimesOut(s, row) \/ \E o \in {"retry", "refused"} : SendFails(s, row, o)
      PROVE  adminVars' = adminVars /\ failing' = failing
  BY <1>8 DEF Drain, Begin, OutcomeDropped, Send, SendFails, SendTimesOut, Take, adminVars
<1>9. ASSUME NEW d \in Detectors, Detect(d) \/ DetectorThrows(d) \/ \E ev \in Others : Raise(d, ev)
      PROVE  adminVars' = adminVars /\ failing' = failing
  BY <1>9 DEF Detect, NextRun, RecordEvent, FanOut, Queue, QueueThrows, Throttle, DetectorThrows, Raise, adminVars
<1>10. ASSUME \/ \E n \in 1..MaxBatch : \E o \in [1..n -> Outcomes] : IngestRuns(n, o)
              \/ \E k \in DOMAIN deliveries : BackoffEnds(k)
              \/ Tick \/ Crash \/ UNCHANGED vars
       PROVE  adminVars' = adminVars /\ failing' = failing
  BY <1>10 DEF IngestRuns, BackoffEnds, Tick, Crash, vars, adminVars
<1>11. ASSUME adminVars' = adminVars, failing' = failing PROVE RuleInv' /\ \A k : Opened(k) => Opened(k)'
  BY <1>1, <1>6, <1>11 DEF adminVars
<1>12. ASSUME adminVars' = adminVars, failing' \subseteq Channels PROVE RuleInv' /\ \A k : Opened(k) => Opened(k)'
  BY <1>1, <1>12 DEF adminVars
<1> QED
  BY <1>4, <1>5, <1>7, <1>8, <1>9, <1>10, <1>11, <1>12 DEF Next, Admin, Deliver

-----------------------------------------------------------------------------
(* A detector aims at channels there are, or were.                          *)
LEMMA AimKeeps ==
    ASSUME DetShape, AimInv, \A c : Opened(c) => Opened(c)', NEW d \in Detectors,
           NEW x, Aimed(x), det' = [det EXCEPT ![d] = x]
    PROVE  AimInv'
<1>1. DOMAIN det = Detectors /\ \A e \in Detectors : Aimed(det'[e])
  BY DEF DetShape, AimInv
<1> QED
  BY <1>1 DEF AimInv, Aimed

LEMMA AimRests ==
    ASSUME AimInv, \A c : Opened(c) => Opened(c)', det' = det PROVE AimInv'
  BY DEF AimInv, Aimed

LEMMA QuietAimed == Aimed(Quiet)
  BY DEF Aimed, Quiet

LEMMA DetectAims ==
    ASSUME RuleInv, DetInv, AimInv, \A c : Opened(c) => Opened(c)', NEW d \in Detectors, Detect(d)
    PROVE  AimInv'
<1> DEFINE was == det[d]
<1>0. DetShape
  BY DEF DetInv
<1>1. DOMAIN det = Detectors /\ HasTargets(was) /\ Aimed(was)
  BY DEF DetInv, DetShape, AimInv
<1>2. CASE NextRun(d)
  <2>1. PICK a, b : det' = [det EXCEPT ![d] = [was EXCEPT !.todo = a, !.raise = b]]
    BY <1>2 DEF NextRun
  <2>2. Aimed([was EXCEPT !.todo = a, !.raise = b])
    <3> HIDE DEF was
    <3> QED
      BY <1>1 DEF Aimed, HasTargets
  <2> QED
    BY <1>0, <2>1, <2>2, AimKeeps
<1>3. CASE RecordEvent(d)
  <2>1. PICK a, b : det' = [det EXCEPT ![d] = [was EXCEPT !.raise = a, !.ev = b]]
    BY <1>3 DEF RecordEvent
  <2>2. Aimed([was EXCEPT !.raise = a, !.ev = b])
    <3> HIDE DEF was
    <3> QED
      BY <1>1 DEF Aimed, HasTargets
  <2> QED
    BY <1>0, <2>1, <2>2, AimKeeps
<1>4. CASE FanOut(d)
  <2>1. PICK ev \in was.ev : TRUE
    BY <1>4 DEF FanOut
  <2> DEFINE new == TargetsOf(ev)
             evs == IF new = {} THEN {} ELSE was.ev
  <2>2. det' = [det EXCEPT ![d] = [was EXCEPT !.targets = new, !.ev = evs]]
    BY <1>1, <1>4, <2>1 DEF FanOut
  <2>3. new \subseteq Target /\ \A t \in new : Opened(t.chan)
    BY TargetsTyped
  <2>4. Aimed([was EXCEPT !.targets = new, !.ev = evs])
    <3> HIDE DEF was, new, evs
    <3> QED
      BY <1>1, <2>3 DEF Aimed, HasTargets
  <2> HIDE DEF new, evs
  <2> QED
    BY <1>0, <2>2, <2>4, AimKeeps
<1>5. ASSUME NEW t \in det[d].targets, Throttle(d, t) PROVE AimInv'
  <2>1. PICK ev \in was.ev : TRUE
    BY DEF DetInv, DetMute
  <2> DEFINE rest == was.targets \ {t}
             muted == t.window > 0 /\ RecentlySent(t.chan, ev, t.window)
             look == [chan |-> t.chan, window |-> t.window, mute |-> muted]
  <2>2. det' = [det EXCEPT ![d] = [was EXCEPT !.targets = rest, !.next = {look}]]
    BY <1>1, <1>5, <2>1 DEF Throttle
  <2>3. muted \in BOOLEAN
    BY Zenon
  <2> HIDE DEF muted
  <2>4. t.chan \in Channels /\ t.window \in 0..MaxWindow /\ Opened(t.chan)
    BY <1>1 DEF Aimed, Target
  <2>5. look \in Looked /\ look.chan = t.chan
    BY <2>3, <2>4 DEF Looked
  <2> HIDE DEF look
  <2>6. Aimed([was EXCEPT !.targets = rest, !.next = {look}])
    <3>1. rest \subseteq was.targets
      OBVIOUS
    <3> HIDE DEF was, rest
    <3> QED
      BY <1>1, <2>4, <2>5, <3>1 DEF Aimed, HasTargets
  <2> HIDE DEF rest
  <2> QED
    BY <1>0, <2>2, <2>6, AimKeeps
<1>6. CASE Queue(d)
  <2>1. PICK ev \in was.ev, t \in was.next : TRUE
    BY <1>6 DEF Queue, DetInv, DetMute
  <2> DEFINE evs == IF was.targets = {} THEN {} ELSE was.ev
  <2>2. det' = [det EXCEPT ![d] = [was EXCEPT !.next = {}, !.ev = evs]]
    BY <1>1, <1>6, <2>1 DEF Queue
  <2>3. Aimed([was EXCEPT !.next = {}, !.ev = evs])
    <3> HIDE DEF was, evs
    <3> QED
      BY <1>1 DEF Aimed, HasTargets
  <2> HIDE DEF evs
  <2> QED
    BY <1>0, <2>2, <2>3, AimKeeps
<1>7. CASE QueueThrows(d)
  BY <1>0, <1>7, QuietAimed, AimKeeps DEF QueueThrows
<1> QED
  BY <1>2, <1>3, <1>4, <1>5, <1>6, <1>7 DEF Detect

LEMMA AimNext ==
    ASSUME RuleInv, DetInv, AimInv, \A c : Opened(c) => Opened(c)', [Next]_vars
    PROVE  AimInv'
<1>0. DetShape /\ DOMAIN det = Detectors /\ \A d \in Detectors : HasTargets(det[d]) /\ Aimed(det[d])
  BY DEF DetInv, DetShape, AimInv
<1>1. ASSUME NEW n \in 1..MaxBatch, NEW o \in [1..n -> Outcomes], IngestRuns(n, o) PROVE AimInv'
  <2> DEFINE was == det["hub"]
  <2>1. PICK a : det' = [det EXCEPT !["hub"] = [was EXCEPT !.todo = a]]
    BY <1>1 DEF IngestRuns
  <2>2. HasTargets(was) /\ Aimed(was) /\ "hub" \in Detectors
    BY <1>0 DEF Detectors
  <2>3. Aimed([was EXCEPT !.todo = a])
    <3> HIDE DEF was
    <3> QED
      BY <2>2 DEF Aimed, HasTargets
  <2> QED
    BY <1>0, <2>1, <2>2, <2>3, AimKeeps
<1>2. ASSUME NEW d \in Detectors, NEW ev \in Others, Raise(d, ev) PROVE AimInv'
  <2> DEFINE was == det[d]
  <2>1. PICK a : det' = [det EXCEPT ![d] = [was EXCEPT !.raise = a]]
    BY <1>2 DEF Raise
  <2>2. Aimed([was EXCEPT !.raise = a])
    <3>1. HasTargets(was) /\ Aimed(was)
      BY <1>0
    <3> HIDE DEF was
    <3> QED
      BY <3>1 DEF Aimed, HasTargets
  <2> QED
    BY <1>0, <2>1, <2>2, AimKeeps
<1>3. ASSUME NEW d \in Detectors, DetectorThrows(d) PROVE AimInv'
  BY <1>0, <1>3, QuietAimed, AimKeeps DEF DetectorThrows
<1>4. CASE Crash
  <2>1. \A d \in Detectors : det'[d] = Quiet
    BY <1>4 DEF Crash
  <2> QED
    BY <2>1 DEF AimInv, Aimed, Quiet
<1>5. ASSUME NEW s \in Sweeps, Deliver(s) \/ RecordFails(s) \/ \E row \in sweep[s].rows : SendTimesOut(s, row)
      PROVE  det' = det
  BY <1>5 DEF Deliver, Drain, Begin, RecordOutcome, OutcomeDropped, RecordFails, Send, SendFails, SendTimesOut, Take
<1>6. ASSUME Admin \/ Tick \/ (\E k \in DOMAIN deliveries : BackoffEnds(k)) \/ UNCHANGED vars PROVE det' = det
  BY <1>6 DEF Admin, DeleteChannel, TestChannel, SaveChannel, DeleteRule, SaveRule, Tick, BackoffEnds, vars
<1> QED
  BY <1>1, <1>2, <1>3, <1>4, <1>5, <1>6, AimRests, DetectAims DEF Next

-----------------------------------------------------------------------------
(* What the sweeps have in hand, and what has arrived.                      *)
LEMMA Attempts == MaxAttempts \in Nat \ {0} /\ MaxWindow \in Nat
  BY NotificationAssumption

LEMMA HandMoves ==
    ASSUME HandInv, NEW s \in Sweeps, NEW rows, NEW out, Moves(s, rows, out),
           \A row \in rows : Taken(row), \A o \in out : Taken(o.row)
    PROVE  HandInv'
<1>1. /\ sweep'[s].rows = rows /\ sweep'[s].out = out
      /\ \A x \in Sweeps \ {s} : sweep'[x] = sweep[x]
  BY DEF Moves
<1>2. ASSUME NEW x \in Sweeps
      PROVE  (\A row \in sweep'[x].rows : Taken(row)) /\ (\A o \in sweep'[x].out : Taken(o.row))
  <2>1. CASE x = s
    BY <1>1, <2>1
  <2>2. CASE x # s
    BY <1>1, <2>2 DEF HandInv
  <2> QED
    BY <2>1, <2>2
<1> QED
  BY <1>2 DEF HandInv, Taken

LEMMA DrainTakes ==
    ASSUME SendShape, RowInv, HandInv, NEW s \in Sweeps, Drain(s) PROVE HandInv'
<1> DEFINE rows == {[key |-> k, attempts |-> deliveries[k].attempts] : k \in Due}
           was == sweep[s]
<1>1. DOMAIN sweep = Sweeps /\ HasRows(was)
  BY DEF SendShape
<1>2. sweep' = [sweep EXCEPT ![s] = [was EXCEPT !.rows = rows]] /\ was.out = {}
  BY <1>1 DEF Drain, Begin
<1>3. \A k \in Due : k \in Pairs /\ deliveries[k].attempts \in Nat /\ deliveries[k].attempts < MaxAttempts
  BY Attempts DEF Due, RowInv, RowTyped, Delivery
<1>4. \A row \in rows : Taken(row)
  BY <1>3 DEF Taken
<1>5. LET x == [was EXCEPT !.rows = rows] IN HasRows(x) /\ x.rows = rows /\ x.out = was.out
  <2> HIDE DEF was, rows
  <2> QED
    BY <1>1 DEF HasRows
<1> HIDE DEF rows
<1>6. Moves(s, rows, {})
  BY <1>1, <1>2, <1>5 DEF Moves
<1> QED
  BY <1>4, <1>6, HandMoves

LEMMA HandNext ==
    ASSUME SendShape, RowInv, HandInv, [Next]_vars PROVE HandInv'
<1>1. ASSUME NEW s \in Sweeps, Drain(s) PROVE HandInv'
  BY <1>1, DrainTakes
<1>2. ASSUME NEW s \in Sweeps, RecordOutcome(s) \/ RecordFails(s) \/ OutcomeDropped(s) PROVE HandInv'
  <2>1. Moves(s, sweep[s].rows, {})
    BY <1>2, DoneMoves DEF RecordOutcome, RecordFails, OutcomeDropped, Done
  <2>2. \A row \in sweep[s].rows : Taken(row)
    BY DEF HandInv
  <2> QED
    BY <2>1, <2>2, HandMoves
<1>3. ASSUME NEW s \in Sweeps, NEW row \in sweep[s].rows, NEW outcome, Take(s, row, outcome) PROVE HandInv'
  <2> DEFINE o == [row |-> row, ok |-> outcome]
  <2>1. Moves(s, sweep[s].rows \ {row}, {o})
    BY <1>3, TakeKind DEF Takes
  <2>2. o.row = row /\ \A x \in sweep[s].rows : Taken(x)
    BY DEF HandInv
  <2> HIDE DEF o
  <2> QED
    BY <2>1, <2>2, HandMoves
<1>4. ASSUME NEW s \in Sweeps, NEW row \in sweep[s].rows,
             Send(s, row) \/ SendTimesOut(s, row) \/ \E o \in {"retry", "refused"} : SendFails(s, row, o)
      PROVE  HandInv'
  BY <1>3, <1>4 DEF Send, SendTimesOut, SendFails
<1>5. CASE Crash
  <2>1. \A s \in Sweeps : sweep'[s].rows = {} /\ sweep'[s].out = {}
    BY <1>5 DEF Crash
  <2> QED
    BY <2>1 DEF HandInv
<1>6. ASSUME NEW d \in Detectors, Detect(d) \/ DetectorThrows(d) \/ \E ev \in Others : Raise(d, ev) PROVE sweep' = sweep
  BY <1>6 DEF Detect, NextRun, RecordEvent, FanOut, Queue, QueueThrows, Throttle, DetectorThrows, Raise
<1>7. ASSUME \/ Admin \/ Tick \/ (\E k \in DOMAIN deliveries : BackoffEnds(k)) \/ UNCHANGED vars
             \/ \E n \in 1..MaxBatch : \E o \in [1..n -> Outcomes] : IngestRuns(n, o)
      PROVE  sweep' = sweep
  BY <1>7 DEF Admin, DeleteChannel, TestChannel, SaveChannel, DeleteRule, SaveRule, Tick, BackoffEnds, IngestRuns, vars
<1>8. CASE sweep' = sweep
  BY <1>8 DEF HandInv, Taken
<1> QED
  BY <1>1, <1>2, <1>4, <1>5, <1>6, <1>7, <1>8 DEF Next, Deliver

LEMMA ArrivedNext ==
    ASSUME SentInv, HandInv, ArrivedInv, [Next]_vars PROVE ArrivedInv'
<1>1. ASSUME got' = got, twice' = twice, doubt' \subseteq got PROVE ArrivedInv'
  BY <1>1 DEF ArrivedInv
<1>2. ASSUME NEW k \in Pairs, Arrive(k), doubt' \subseteq doubt \cup {k} PROVE ArrivedInv'
  BY <1>2 DEF Arrive, ArrivedInv
<1>3. ASSUME NEW s \in Sweeps, NEW row \in sweep[s].rows, Send(s, row) \/ SendTimesOut(s, row) PROVE ArrivedInv'
  <2>1. row.key \in Pairs
    BY DEF HandInv, Taken
  <2> QED
    BY <1>2, <1>3, <2>1 DEF Send, SendTimesOut
<1>4. ASSUME NEW s \in Sweeps, RecordFails(s) PROVE ArrivedInv'
  <2>1. PICK o \in sweep[s].out : o.ok = "sent" /\ doubt' = doubt \cup {o.row.key}
    BY <1>4 DEF RecordFails
  <2>2. o.row.key \in got
    BY <2>1 DEF SentInv
  <2> QED
    BY <1>1, <1>4, <2>1, <2>2 DEF ArrivedInv, RecordFails
<1>5. CASE Crash
  <2>1. \A o \in UNION {sweep[s].out : s \in Sweeps} : o.ok = "sent" => o.row.key \in got
    BY DEF SentInv
  <2>2. doubt' \subseteq got
    BY <1>5, <2>1 DEF Crash, ArrivedInv
  <2> QED
    BY <1>1, <1>5, <2>2 DEF Crash
<1>6. CASE UNCHANGED sentVars
  BY <1>1, <1>6 DEF sentVars, ArrivedInv
<1>7. ASSUME NEW d \in Detectors, Detect(d) \/ DetectorThrows(d) \/ \E ev \in Others : Raise(d, ev) PROVE UNCHANGED sentVars
  BY <1>7 DEF Detect, NextRun, RecordEvent, FanOut, Queue, QueueThrows, Throttle, DetectorThrows, Raise
<1>8. ASSUME \/ Admin \/ Tick \/ (\E k \in DOMAIN deliveries : BackoffEnds(k)) \/ UNCHANGED vars
             \/ \E n \in 1..MaxBatch : \E o \in [1..n -> Outcomes] : IngestRuns(n, o)
      PROVE  UNCHANGED sentVars
  BY <1>8 DEF Admin, DeleteChannel, TestChannel, SaveChannel, DeleteRule, SaveRule, Tick, BackoffEnds, IngestRuns, vars
<1>9. ASSUME NEW s \in Sweeps,
             \/ Drain(s) \/ RecordOutcome(s) \/ OutcomeDropped(s)
             \/ \E row \in sweep[s].rows : \E o \in {"retry", "refused"} : SendFails(s, row, o)
      PROVE  UNCHANGED sentVars
  BY <1>9 DEF Drain, Begin, RecordOutcome, OutcomeDropped, SendFails, sentVars
<1> QED
  BY <1>3, <1>4, <1>5, <1>6, <1>7, <1>8, <1>9 DEF Next, Deliver

-----------------------------------------------------------------------------
(* The rows of the deliveries.                                              *)
LEMMA WrittenTyped ==
    ASSUME NEW old \in Delivery, NEW row, Taken(row), NEW outcome
    PROVE  /\ [old EXCEPT !.state = "sent", !.attempts = row.attempts + 1, !.age = 0] \in Delivery
           /\ LET giveUp == outcome = "refused" \/ row.attempts + 1 >= MaxAttempts
                  new == [old EXCEPT !.state = IF giveUp THEN "failed" ELSE "pending",
                                     !.attempts = row.attempts + 1, !.later = TRUE]
              IN new \in Delivery /\ (new.state = "pending" => new.attempts < MaxAttempts)
<1> DEFINE n == row.attempts + 1
           st == IF outcome = "refused" \/ n >= MaxAttempts THEN "failed" ELSE "pending"
           sent == [old EXCEPT !.state = "sent", !.attempts = n, !.age = 0]
           new == [old EXCEPT !.state = st, !.attempts = n, !.later = TRUE]
<1>1. /\ n \in 0..MaxAttempts /\ st \in {"failed", "pending"} /\ (st = "pending" => n < MaxAttempts)
      /\ 0 \in 0..(MaxWindow + 1)
  BY Attempts DEF Taken
<1> HIDE DEF n, st
<1>2. sent \in Delivery
  BY <1>1 DEF Delivery
<1>3. new \in Delivery /\ new.state = st /\ new.attempts = n
  BY <1>1 DEF Delivery
<1> QED
  BY <1>1, <1>2, <1>3 DEF n, st

LEMMA QueueRows ==
    ASSUME RuleInv, AimInv, DetMute, WorkShape, RowInv, NEW d \in Detectors, Queue(d) PROVE RowInv'
<1>1. PICK ev \in det[d].ev, t \in det[d].next : TRUE
  BY DEF Queue, DetMute
<1> DEFINE k == <<ev, t.chan>>
           row == [state |-> IF t.mute THEN "suppressed" ELSE "pending", window |-> t.window,
                   attempts |-> 0, later |-> FALSE, age |-> 0]
<1>2. chan' = chan /\ chan[t.chan] # "removed" /\ deliveries' = Queued(ev, t)
  BY <1>1 DEF Queue, adminVars
<1>3. ev \in AllEvents /\ t.chan \in Channels /\ t.window \in 0..MaxWindow /\ Opened(t.chan)
  BY <1>1 DEF WorkShape, Working, AimInv, Aimed, Looked
<1>4. chan[t.chan] \in {"on", "off"}
  BY <1>2, <1>3 DEF RuleInv, Opened
<1>5. row \in Delivery /\ row.attempts = 0
  <2> DEFINE st == IF t.mute THEN "suppressed" ELSE "pending"
  <2>1. st \in {"suppressed", "pending"}
    OBVIOUS
  <2> HIDE DEF st
  <2>2. [state |-> st, window |-> t.window, attempts |-> 0, later |-> FALSE, age |-> 0] \in Delivery
    BY <1>3, <2>1, Attempts DEF Delivery
  <2> QED
    BY <2>2 DEF st
<1>6. deliveries' = IF k \in DOMAIN deliveries THEN deliveries
                    ELSE [x \in DOMAIN deliveries \cup {k} |-> IF x \in DOMAIN deliveries THEN deliveries[x] ELSE row]
  BY <1>2 DEF Queued
<1>7. k \in Pairs /\ k[2] = t.chan
  BY <1>3 DEF Pairs
<1> HIDE DEF k, row
<1>8. \A x \in DOMAIN deliveries' : (x \in DOMAIN deliveries /\ deliveries'[x] = deliveries[x]) \/ (x = k /\ deliveries'[x] = row)
  BY <1>6
<1>9. RowTyped(k, row)
  BY <1>4, <1>5, <1>7, Attempts DEF RowTyped
<1> QED
  BY <1>2, <1>8, <1>9 DEF RowInv, RowTyped

LEMMA RowNext ==
    ASSUME RuleInv, AimInv, DetMute, WorkShape, RowInv, HandInv, [Next]_vars PROVE RowInv'
<1>1. ASSUME chan' = chan, \A k \in DOMAIN deliveries' : RowTyped(k, deliveries'[k]) PROVE RowInv'
  BY <1>1 DEF RowInv, RowTyped
<1>2. CASE chan' = chan /\ deliveries' = deliveries
  BY <1>1, <1>2 DEF RowInv
<1>3. ASSUME NEW c \in Channels, DeleteChannel(c) PROVE RowInv'
  <2>1. \A k \in DOMAIN deliveries' : k \in DOMAIN deliveries /\ k[2] # c /\ deliveries'[k] = deliveries[k]
    BY <1>3 DEF DeleteChannel
  <2>2. \A x \in Channels : x # c => chan'[x] = chan[x]
    BY <1>3 DEF DeleteChannel, RuleInv
  <2>3. \A k \in DOMAIN deliveries : k[2] \in Channels
    BY DEF RowInv, RowTyped, Pairs
  <2> QED
    BY <2>1, <2>2, <2>3 DEF RowInv, RowTyped
<1>4. ASSUME NEW c \in Channels, NEW on \in BOOLEAN, SaveChannel(c, on) PROVE RowInv'
  <2>1. \A x \in Channels : chan[x] \in {"on", "off"} => chan'[x] \in {"on", "off"}
    BY <1>4 DEF SaveChannel, RuleInv
  <2>2. \A k \in DOMAIN deliveries : k[2] \in Channels
    BY DEF RowInv, RowTyped, Pairs
  <2>3. deliveries' = deliveries
    BY <1>4 DEF SaveChannel
  <2> QED
    BY <2>1, <2>2, <2>3 DEF RowInv, RowTyped
<1>5. ASSUME NEW s \in Sweeps, NEW o \in sweep[s].out, NEW row, chan' = chan, o.row.key \in DOMAIN deliveries,
             deliveries' = [deliveries EXCEPT ![o.row.key] = row],
             row = SentRow(o.row) \/ \E outcome : row = Retried(o.row, outcome)
      PROVE  RowInv'
  <2> DEFINE k == o.row.key
             old == deliveries[k]
  <2>1. RowTyped(k, old) /\ Taken(o.row)
    BY <1>5 DEF RowInv, HandInv
  <2>2. row \in Delivery /\ (row.state = "pending" => row.attempts < MaxAttempts)
    <3>1. old \in Delivery
      BY <2>1 DEF RowTyped
    <3> HIDE DEF old
    <3>2. CASE row = SentRow(o.row)
      <4>1. row \in Delivery
        BY <2>1, <3>1, <3>2, WrittenTyped DEF SentRow, old
      <4>2. row.state = "sent"
        BY <3>1, <3>2 DEF SentRow, old, Delivery
      <4> QED
        BY <4>1, <4>2
    <3>3. ASSUME NEW outcome, row = Retried(o.row, outcome)
          PROVE  row \in Delivery /\ (row.state = "pending" => row.attempts < MaxAttempts)
      BY <2>1, <3>1, <3>3, WrittenTyped DEF Retried, old
    <3> QED
      BY <1>5, <3>2, <3>3
  <2>3. RowTyped(k, row)
    BY <2>1, <2>2 DEF RowTyped
  <2>4. \A x \in DOMAIN deliveries' : x \in DOMAIN deliveries /\ (deliveries'[x] = deliveries[x] \/ (x = k /\ deliveries'[x] = row))
    BY <1>5
  <2> HIDE DEF k
  <2> QED
    BY <1>1, <1>5, <2>3, <2>4 DEF RowInv
<1>6. ASSUME NEW s \in Sweeps, RecordOutcome(s) PROVE RowInv'
  <2>1. PICK o \in sweep[s].out :
          /\ o.row.key \in DOMAIN deliveries
          /\ deliveries' = [deliveries EXCEPT ![o.row.key] = IF o.ok = "sent" THEN SentRow(o.row) ELSE Retried(o.row, o.ok)]
    BY <1>6 DEF RecordOutcome
  <2>2. chan' = chan
    BY <1>6 DEF RecordOutcome, adminVars
  <2>3. CASE o.ok = "sent"
    BY <1>5, <2>1, <2>2, <2>3
  <2>4. CASE o.ok # "sent"
    BY <1>5, <2>1, <2>2, <2>4
  <2> QED
    BY <2>3, <2>4
<1>7. ASSUME NEW s \in Sweeps, RecordFails(s) PROVE RowInv'
  <2>1. PICK o \in sweep[s].out :
          /\ o.row.key \in DOMAIN deliveries
          /\ deliveries' = [deliveries EXCEPT ![o.row.key] = Retried(o.row, "retry")]
    BY <1>7 DEF RecordFails
  <2>2. chan' = chan
    BY <1>7 DEF RecordFails, adminVars
  <2> QED
    BY <1>5, <2>1, <2>2
<1>8. ASSUME NEW k \in DOMAIN deliveries, BackoffEnds(k) PROVE RowInv'
  <2> DEFINE old == deliveries[k]
             new == [old EXCEPT !.later = FALSE]
  <2>1. RowTyped(k, old)
    BY DEF RowInv
  <2>2. new \in Delivery /\ new.state = old.state /\ new.attempts = old.attempts
    <3>1. old \in Delivery
      BY <2>1 DEF RowTyped
    <3> HIDE DEF old
    <3> QED
      BY <3>1 DEF Delivery
  <2>3. chan' = chan /\ deliveries' = [deliveries EXCEPT ![k] = new]
    BY <1>8 DEF BackoffEnds, adminVars
  <2> HIDE DEF new
  <2>4. RowTyped(k, new)
    BY <2>1, <2>2 DEF RowTyped
  <2> QED
    BY <1>1, <2>3, <2>4 DEF RowInv
<1>9. CASE Tick
  <2>1. chan' = chan /\ DOMAIN deliveries' = DOMAIN deliveries
    BY <1>9 DEF Tick, adminVars
  <2>2. ASSUME NEW k \in DOMAIN deliveries PROVE RowTyped(k, deliveries'[k])
    <3> DEFINE old == deliveries[k]
               n == old.age + 1
               new == [old EXCEPT !.age = n]
    <3>1. RowTyped(k, old)
      BY DEF RowInv
    <3>2. deliveries'[k] = IF old.state = "sent" /\ old.age <= MaxWindow THEN new ELSE old
      BY <1>9 DEF Tick
    <3>3. old.age <= MaxWindow => n \in 0..(MaxWindow + 1)
      BY <3>1, Attempts DEF RowTyped, Delivery
    <3> HIDE DEF n
    <3>4. old.age <= MaxWindow => new \in Delivery /\ new.state = old.state /\ new.attempts = old.attempts
      <4>1. old \in Delivery
        BY <3>1 DEF RowTyped
      <4> HIDE DEF old
      <4> QED
        BY <3>3, <4>1 DEF Delivery
    <3> HIDE DEF new
    <3> QED
      BY <3>1, <3>2, <3>4 DEF RowTyped
  <2> QED
    BY <1>1, <2>1, <2>2
<1>10. ASSUME NEW s \in Sweeps,
              \/ Drain(s) \/ OutcomeDropped(s)
              \/ \E row \in sweep[s].rows :
                   Send(s, row) \/ SendTimesOut(s, row) \/ \E o \in {"retry", "refused"} : SendFails(s, row, o)
       PROVE  chan' = chan /\ deliveries' = deliveries
  BY <1>10 DEF Drain, Begin, OutcomeDropped, Send, SendFails, SendTimesOut, Take, adminVars
<1>11. ASSUME NEW d \in Detectors,
              \/ NextRun(d) \/ RecordEvent(d) \/ FanOut(d) \/ QueueThrows(d) \/ DetectorThrows(d)
              \/ (\E t \in det[d].targets : Throttle(d, t)) \/ \E ev \in Others : Raise(d, ev)
       PROVE  chan' = chan /\ deliveries' = deliveries
  BY <1>11 DEF NextRun, RecordEvent, FanOut, QueueThrows, Throttle, DetectorThrows, Raise, adminVars
<1>12. ASSUME \/ \E n \in 1..MaxBatch : \E o \in [1..n -> Outcomes] : IngestRuns(n, o)
              \/ \E c \in Channels : TestChannel(c)
              \/ \E r \in Rules : DeleteRule(r) \/ \E f \in Forms, on \in BOOLEAN : SaveRule(r, f, on)
              \/ Crash \/ UNCHANGED vars
       PROVE  chan' = chan /\ deliveries' = deliveries
  BY <1>12 DEF IngestRuns, TestChannel, DeleteRule, SaveRule, Crash, vars, adminVars
<1> QED
  BY <1>2, <1>3, <1>4, <1>6, <1>7, <1>8, <1>9, <1>10, <1>11, <1>12, QueueRows DEF Next, Admin, Deliver, Detect

LEMMA TypeInit == Init => TypeInv
<1> SUFFICES ASSUME Init PROVE TypeInv
  OBVIOUS
<1>1. /\ rules \in [Rules -> {{}} \cup {{[form |-> f, on |-> TRUE]} : f \in Forms}]
      /\ chan \in [Channels -> {"new", "on"}] /\ failing = {}
      /\ \A r \in Rules : \A f \in rules[r] : \A c \in f.form.chans : chan[c] = "on"
      /\ DOMAIN deliveries = {} /\ got = {} /\ twice = {} /\ doubt = {}
      /\ \A d \in Detectors : det[d] = Quiet
      /\ \A s \in Sweeps : sweep[s].rows = {} /\ sweep[s].out = {}
  BY DEF Init
<1>2. RuleInv
  <2>1. \A f \in Forms : [form |-> f, on |-> TRUE] \in [form : Forms, on : BOOLEAN]
    OBVIOUS
  <2>2. \A x \in {{}} \cup {{[form |-> f, on |-> TRUE]} : f \in Forms} : x \in SUBSET [form : Forms, on : BOOLEAN]
    BY <2>1
  <2>3. rules \in [Rules -> SUBSET [form : Forms, on : BOOLEAN]]
    BY <1>1, <2>2
  <2>4. \A r \in Rules : \A f \in rules[r] : f.form \in Forms
    BY <2>3
  <2>5. \A r \in Rules : \A f \in rules[r] : \A c \in f.form.chans : Opened(c)
    BY <1>1, <2>4, FormOf DEF Opened
  <2> QED
    BY <1>1, <2>3, <2>5 DEF RuleInv
<1>3. AimInv
  BY <1>1, QuietAimed DEF AimInv
<1> QED
  BY <1>1, <1>2, <1>3 DEF TypeInv, RowInv, HandInv, ArrivedInv

LEMMA TypeNext == IInv /\ LostInv /\ TypeInv /\ [Next]_vars => TypeInv'
<1> SUFFICES ASSUME IInv, LostInv, TypeInv, [Next]_vars PROVE TypeInv'
  OBVIOUS
<1>1. SendShape /\ SentInv /\ DetInv /\ DetMute /\ WorkShape
  BY DEF IInv, SendInv, DetInv, LostInv
<1>2. RuleInv /\ AimInv /\ RowInv /\ HandInv /\ ArrivedInv
  BY DEF TypeInv
<1>3. RuleInv' /\ \A c : Opened(c) => Opened(c)'
  BY <1>2, RuleNext
<1>4. AimInv' /\ RowInv'
  BY <1>1, <1>2, <1>3, AimNext, RowNext
<1>5. HandInv' /\ ArrivedInv'
  BY <1>1, <1>2, HandNext, ArrivedNext
<1> QED
  BY <1>3, <1>4, <1>5 DEF TypeInv

LEMMA TypeKept == Spec => []TypeInv
<1>1. Init => TypeInv
  BY TypeInit
<1>2. IInv /\ LostInv /\ TypeInv /\ [Next]_vars => TypeInv'
  BY TypeNext
<1> QED
  BY <1>1, <1>2, Invariant, LostKept, PTL DEF Spec

(* store.ts, service.ts: rules, channels, events and deliveries keep their  *)
(* types whatever is edited meanwhile; a delivery belongs to a channel that *)
(* is there, none has more attempts than MAX_ATTEMPTS, and a detector has   *)
(* one event in hand.                                                       *)
THEOREM NotificationTypeCorrect == Spec => []TypeOK
<1>1. LostInv /\ TypeInv => TypeOK
  <2> SUFFICES ASSUME LostInv, TypeInv PROVE TypeOK
    OBVIOUS
  <2>1. history \in Seq(Outcomes) /\ events \subseteq AllEvents
    BY DEF LostInv, WorkShape
  <2>2. ASSUME NEW d \in Detectors PROVE det[d].ev \subseteq AllEvents /\ Cardinality(det[d].ev) <= 1
    <3> DEFINE S == det[d].ev
    <3>1. S \subseteq AllEvents /\ \A a, b \in S : a = b
      BY DEF LostInv, WorkShape, Working
    <3>2. CASE S = {}
      BY <3>1, <3>2, FS_EmptySet
    <3>3. CASE S # {}
      <4>1. PICK e \in S : S = {e}
        BY <3>1, <3>3
      <4>2. Cardinality({e}) = 1
        BY FS_Singleton
      <4> QED
        BY <3>1, <4>1, <4>2
    <3> QED
      BY <3>2, <3>3
  <2>3. \A k \in DOMAIN deliveries : k \in Pairs /\ deliveries[k] \in Delivery /\ chan[k[2]] \in {"on", "off"}
    BY DEF TypeInv, RowInv, RowTyped
  <2> QED
    BY <2>1, <2>2, <2>3 DEF TypeOK, TypeInv, RuleInv, ArrivedInv
<1> QED
  BY <1>1, TypeKept, LostKept, PTL

-----------------------------------------------------------------------------
(* The promise of the list of alerts.                                       *)

(* What is queued, fanned out or in a sweep's hands is a recorded event.    *)
KnownInv ==
    /\ \A k \in DOMAIN deliveries : k[1] \in events
    /\ \A d \in Detectors : det[d].ev \subseteq events
    /\ \A s \in Sweeps : \A k \in InHand(s) : k[1] \in events

LEMMA DueKeys ==
    ASSUME SendShape, NEW s \in Sweeps, Drain(s), NEW x \in Sweeps, NEW k \in InHand(x)'
    PROVE  k \in Due
<1> DEFINE rows == {[key |-> i, attempts |-> deliveries[i].attempts] : i \in Due}
           was == sweep[s]
<1>1. DOMAIN sweep = Sweeps /\ HasRows(was) /\ \A y \in Sweeps : sweep[y].rows = {} /\ sweep[y].out = {}
  BY DEF SendShape, Drain
<1>2. sweep' = [sweep EXCEPT ![s] = [was EXCEPT !.rows = rows]]
  BY <1>1 DEF Drain, Begin
<1>3. \A row \in rows : row.key \in Due
  OBVIOUS
<1>4. LET y == [was EXCEPT !.rows = rows] IN y.rows = rows /\ y.out = was.out
  <2> HIDE DEF was, rows
  <2> QED
    BY <1>1 DEF HasRows
<1> HIDE DEF rows
<1>5. sweep'[x].out = {} /\ sweep'[x].rows \in {{}, rows}
  BY <1>1, <1>2, <1>4
<1> QED
  BY <1>3, <1>5 DEF InHand

LEMMA HandGrows ==
    ASSUME SendShape, [Next]_vars, NEW x \in Sweeps, NEW k \in InHand(x)'
    PROVE  k \in InHand(x) \/ k \in DOMAIN deliveries
<1>1. ASSUME NEW s \in Sweeps, Drain(s) PROVE k \in DOMAIN deliveries
  BY <1>1, DueKeys DEF Due
<1>2. ASSUME NEW s \in Sweeps, NEW rows, NEW out, Moves(s, rows, out), rows \subseteq sweep[s].rows,
             \A o \in out : o.row.key \in InHand(s)
      PROVE  k \in InHand(x)
  BY <1>2 DEF Moves, InHand
<1>3. ASSUME NEW s \in Sweeps, RecordOutcome(s) \/ RecordFails(s) \/ OutcomeDropped(s) PROVE k \in InHand(x)
  <2>1. Moves(s, sweep[s].rows, {})
    BY <1>3, DoneMoves DEF RecordOutcome, RecordFails, OutcomeDropped, Done
  <2> QED
    BY <1>2, <2>1
<1>4. ASSUME NEW s \in Sweeps, NEW row \in sweep[s].rows, NEW outcome, Take(s, row, outcome) PROVE k \in InHand(x)
  <2> DEFINE o == [row |-> row, ok |-> outcome]
  <2>1. Moves(s, sweep[s].rows \ {row}, {o})
    BY <1>4, TakeKind DEF Takes
  <2>2. o.row.key \in InHand(s)
    BY DEF InHand
  <2> HIDE DEF o
  <2> QED
    BY <1>2, <2>1, <2>2
<1>5. ASSUME NEW s \in Sweeps, NEW row \in sweep[s].rows,
             Send(s, row) \/ SendTimesOut(s, row) \/ \E o \in {"retry", "refused"} : SendFails(s, row, o)
      PROVE  k \in InHand(x)
  BY <1>4, <1>5 DEF Send, SendTimesOut, SendFails
<1>6. CASE Crash
  BY <1>6 DEF Crash, InHand
<1>7. CASE sweep' = sweep
  BY <1>7 DEF InHand
<1>8. CASE \/ Rests \/ Ages \/ (\E c \in Channels : Removes(c))
           \/ \E d \in Detectors : Queue(d)
  BY <1>7, <1>8 DEF Rests, Ages, Removes, SendSame, Queue
<1> QED
  BY <1>1, <1>3, <1>5, <1>6, <1>8, Kinds1 DEF Deliver

(* A detector comes by an event only by recording it.                       *)
LEMMA EventsInHand ==
    ASSUME DetInv, [Next]_vars, NEW d \in Detectors
    PROVE  events \subseteq events' /\ (det'[d].ev \subseteq det[d].ev \/ det'[d].ev \subseteq events')
<1> DEFINE Goal == events \subseteq events' /\ (det'[d].ev \subseteq det[d].ev \/ det'[d].ev \subseteq events')
<1>0. DOMAIN det = Detectors /\ \A x \in Detectors : HasTargets(det[x])
  BY DEF DetInv, DetShape
<1>m. \A e \in Detectors : det[e].targets # {} \/ det[e].next # {} => det[e].ev # {}
  BY DEF DetInv, DetMute
<1>1. ASSUME det' = det, events' = events PROVE Goal
  BY <1>1
<1>2. ASSUME NEW e \in Detectors, NEW x, x.ev \subseteq det[e].ev \/ x.ev \subseteq events',
             events \subseteq events', det' = [det EXCEPT ![e] = x]
      PROVE  Goal
  BY <1>0, <1>2
<1>3. ASSUME NEW e \in Detectors, NextRun(e) PROVE Goal
  <2> DEFINE was == det[e]
  <2>1. PICK a, b : det' = [det EXCEPT ![e] = [was EXCEPT !.todo = a, !.raise = b]] /\ events' = events
    BY <1>3 DEF NextRun
  <2>2. [was EXCEPT !.todo = a, !.raise = b].ev = was.ev
    <3> HIDE DEF was
    <3>1. HasTargets(was)
      BY <1>0 DEF was
    <3> QED
      BY <3>1 DEF HasTargets
  <2> QED
    BY <1>2, <2>1, <2>2
<1>4. ASSUME NEW e \in Detectors, RecordEvent(e) PROVE Goal
  <2> DEFINE was == det[e]
  <2>1. PICK ev, a : /\ det' = [det EXCEPT ![e] = [was EXCEPT !.raise = a, !.ev = {ev} \ events]]
                     /\ events' = events \cup {ev}
    BY <1>4 DEF RecordEvent
  <2>2. [was EXCEPT !.raise = a, !.ev = {ev} \ events].ev = {ev} \ events
    <3> HIDE DEF was
    <3>1. HasTargets(was)
      BY <1>0 DEF was
    <3> QED
      BY <3>1 DEF HasTargets
  <2> QED
    BY <1>2, <2>1, <2>2
<1>5. ASSUME NEW e \in Detectors, FanOut(e) PROVE Goal
  <2> DEFINE was == det[e]
  <2>1. PICK ew \in was.ev : TRUE
    BY <1>5 DEF FanOut
  <2> DEFINE new == TargetsOf(ew)
             evs == IF new = {} THEN {} ELSE was.ev
  <2>2. det' = [det EXCEPT ![e] = [was EXCEPT !.targets = new, !.ev = evs]] /\ events' = events
    BY <1>5, <2>1 DEF FanOut
  <2>3. evs \subseteq was.ev
    OBVIOUS
  <2>4. [was EXCEPT !.targets = new, !.ev = evs].ev = evs
    <3> HIDE DEF was, new, evs
    <3>1. HasTargets(was)
      BY <1>0 DEF was
    <3> QED
      BY <3>1 DEF HasTargets
  <2> HIDE DEF new, evs
  <2> QED
    BY <1>2, <2>2, <2>3, <2>4
<1>6. ASSUME NEW e \in Detectors, NEW t \in det[e].targets, Throttle(e, t) PROVE Goal
  <2> PICK ew \in det[e].ev : TRUE
    BY <1>m, <1>6
  <2> DEFINE was == det[e]
             rest == was.targets \ {t}
             looked == {[chan |-> t.chan, window |-> t.window,
                         mute |-> t.window > 0 /\ RecentlySent(t.chan, ew, t.window)]}
  <2>1. det' = [det EXCEPT ![e] = [was EXCEPT !.targets = rest, !.next = looked]] /\ events' = events
    BY <1>6 DEF Throttle
  <2>2. [was EXCEPT !.targets = rest, !.next = looked].ev = was.ev
    <3> HIDE DEF was, rest, looked
    <3>1. HasTargets(was)
      BY <1>0 DEF was
    <3> QED
      BY <3>1 DEF HasTargets
  <2> HIDE DEF rest, looked
  <2> QED
    BY <1>2, <2>1, <2>2
<1>7. ASSUME NEW e \in Detectors, Queue(e) PROVE Goal
  <2> PICK ew \in det[e].ev : TRUE
    BY <1>m, <1>7 DEF Queue
  <2> DEFINE was == det[e]
             evs == IF was.targets = {} THEN {} ELSE was.ev
  <2>1. det' = [det EXCEPT ![e] = [was EXCEPT !.next = {}, !.ev = evs]] /\ events' = events
    BY <1>7 DEF Queue
  <2>2. [was EXCEPT !.next = {}, !.ev = evs].ev = evs /\ evs \subseteq was.ev
    <3>1. evs \subseteq was.ev
      OBVIOUS
    <3> HIDE DEF was, evs
    <3>2. HasTargets(was)
      BY <1>0 DEF was
    <3> QED
      BY <3>1, <3>2 DEF HasTargets
  <2> HIDE DEF evs
  <2> QED
    BY <1>2, <2>1, <2>2
<1>8. ASSUME NEW e \in Detectors, QueueThrows(e) \/ DetectorThrows(e) PROVE Goal
  BY <1>2, <1>8 DEF QueueThrows, DetectorThrows, Quiet
<1>9. ASSUME NEW n \in 1..MaxBatch, NEW o \in [1..n -> Outcomes], IngestRuns(n, o) PROVE Goal
  <2> DEFINE was == det["hub"]
  <2>1. PICK a : det' = [det EXCEPT !["hub"] = [was EXCEPT !.todo = a]] /\ events' = events
    BY <1>9 DEF IngestRuns
  <2>2. [was EXCEPT !.todo = a].ev = was.ev /\ "hub" \in Detectors
    <3>1. HasTargets(was) /\ "hub" \in Detectors
      BY <1>0 DEF Detectors
    <3> HIDE DEF was
    <3> QED
      BY <3>1 DEF HasTargets
  <2> QED
    BY <1>2, <2>1, <2>2
<1>10. ASSUME NEW e \in Detectors, NEW ev \in Others, Raise(e, ev) PROVE Goal
  <2> DEFINE was == det[e]
  <2>1. PICK a : det' = [det EXCEPT ![e] = [was EXCEPT !.raise = a]] /\ events' = events
    BY <1>10 DEF Raise
  <2>2. [was EXCEPT !.raise = a].ev = was.ev
    <3> HIDE DEF was
    <3>1. HasTargets(was)
      BY <1>0 DEF was
    <3> QED
      BY <3>1 DEF HasTargets
  <2> QED
    BY <1>2, <2>1, <2>2
<1>11. CASE Crash
  <2>1. det'[d].ev = {} /\ events' = events
    BY <1>11 DEF Crash, Quiet
  <2> QED
    BY <2>1
<1>12. ASSUME Admin \/ Tick \/ \E k \in DOMAIN deliveries : BackoffEnds(k) PROVE Goal
  BY <1>1, <1>12 DEF Admin, DeleteChannel, TestChannel, SaveChannel, DeleteRule, SaveRule, Tick, BackoffEnds
<1>13. ASSUME NEW s \in Sweeps, Deliver(s) \/ RecordFails(s) \/ \E row \in sweep[s].rows : SendTimesOut(s, row)
       PROVE  Goal
  BY <1>1, <1>13
  DEF Deliver, Drain, Begin, RecordOutcome, OutcomeDropped, RecordFails, Send, SendFails, SendTimesOut, Take
<1>14. ASSUME NEW e \in Detectors, Detect(e) PROVE Goal
  BY <1>3, <1>4, <1>5, <1>6, <1>7, <1>8, <1>14 DEF Detect
<1>15. CASE UNCHANGED vars
  BY <1>1, <1>15 DEF vars
<1>16. ASSUME Next PROVE Goal
  BY <1>8, <1>9, <1>10, <1>11, <1>12, <1>13, <1>14, <1>16 DEF Next
<1> QED
  BY <1>15, <1>16

LEMMA KnownNext == IInv /\ KnownInv /\ [Next]_vars => KnownInv'
<1> SUFFICES ASSUME IInv, KnownInv, [Next]_vars PROVE KnownInv'
  OBVIOUS
<1>0. SendShape /\ SweepInv /\ DetInv /\ DetMute
  BY DEF IInv, SendInv, DetInv
<1>1. \A d \in Detectors : events \subseteq events' /\ (det'[d].ev \subseteq det[d].ev \/ det'[d].ev \subseteq events')
  BY <1>0, EventsInHand
<1>2. events \subseteq events'
  BY <1>1 DEF Detectors
<1>3. \A k \in DOMAIN deliveries' : k[1] \in events
  <2>1. CASE Rests \/ Ages \/ (\E c \in Channels : Removes(c))
    BY <2>1 DEF Rests, Ages, Removes, KnownInv
  <2>2. ASSUME NEW d \in Detectors, Queue(d) PROVE \A k \in DOMAIN deliveries' : k[1] \in events
    <3>1. ASSUME NEW ev \in det[d].ev, NEW t \in det[d].next, NEW row, Queues(<<ev, t.chan>>, row)
          PROVE  \A k \in DOMAIN deliveries' : k[1] \in events
      BY <3>1 DEF Queues, KnownInv
    <3> QED
      BY <1>0, <2>1, <2>2, <3>1, QueueKind
  <2>3. ASSUME NEW s \in Sweeps, RecordOutcome(s) \/ RecordFails(s) PROVE DOMAIN deliveries' = DOMAIN deliveries
    BY <2>3 DEF RecordOutcome, RecordFails
  <2>4. ASSUME NEW s \in Sweeps,
               \/ Drain(s) \/ OutcomeDropped(s)
               \/ \E row \in sweep[s].rows :
                    Send(s, row) \/ SendTimesOut(s, row) \/ \E o \in {"retry", "refused"} : SendFails(s, row, o)
        PROVE  DOMAIN deliveries' = DOMAIN deliveries
    BY <2>4 DEF Drain, Begin, OutcomeDropped, Send, SendFails, SendTimesOut, Take
  <2>5. CASE Crash
    BY <2>5 DEF Crash, KnownInv
  <2>6. CASE DOMAIN deliveries' = DOMAIN deliveries
    BY <2>6 DEF KnownInv
  <2> QED
    BY <1>0, <2>1, <2>2, <2>3, <2>4, <2>5, <2>6, Kinds1 DEF Deliver
<1>4. \A s \in Sweeps : \A k \in InHand(s)' : k[1] \in events
  BY <1>0, HandGrows DEF KnownInv
<1> QED
  BY <1>1, <1>2, <1>3, <1>4 DEF KnownInv

(* What the list says of each alert.                                        *)
Listed == [k \in Pairs |-> IF k \in DOMAIN deliveries THEN deliveries[k].state
                           ELSE IF chan[k[2]] = "removed" THEN "dropped" ELSE "none"]
Told == [Promise!Next]_(Promise!vars)

LEMMA ListedKept ==
    ASSUME DOMAIN deliveries' = DOMAIN deliveries,
           \A k \in DOMAIN deliveries : deliveries'[k].state = deliveries[k].state,
           \A c \in Channels : chan'[c] = "removed" <=> chan[c] = "removed"
    PROVE  Listed' = Listed
BY DEF Listed, Pairs

LEMMA NothingToTell ==
    ASSUME Listed' = Listed, UNCHANGED <<events, got, twice, doubt>> PROVE Told
BY DEF Told, Promise!vars, Listed

(* A step that tells something of one alert.                                *)
LEMMA AlertTold ==
    ASSUME NEW k \in Pairs,
           Promise!Queue(k) \/ Promise!Suppress(k) \/ Promise!Arrive(k) \/ Promise!Settle(k) \/ Promise!GiveUp(k)
    PROVE  Told
BY DEF Told, Promise!Next, Promise!Alerts, Pairs

LEMMA DoubtTold ==
    ASSUME NEW S, S \subseteq got, doubt' = doubt \cup S, Listed' = Listed, UNCHANGED <<events, got, twice>>
    PROVE  Told
<1>1. PICK T \in SUBSET got : T = S
  OBVIOUS
<1>2. Promise!Doubt(T)
  BY <1>1 DEF Promise!Doubt, Listed
<1> QED
  BY <1>2 DEF Told, Promise!Next

(* The administrator, the clock and the detectors.                          *)
LEMMA RemoveTold ==
    ASSUME SendShape, NEW c \in Channels, DeleteChannel(c) PROVE Told
<1>1. /\ UNCHANGED <<events, got, twice, doubt>>
      /\ \A k \in Pairs : k[2] = c => k \notin DOMAIN deliveries' /\ chan'[k[2]] = "removed"
      /\ \A k \in Pairs : k[2] # c => /\ k \in DOMAIN deliveries' <=> k \in DOMAIN deliveries
                                      /\ k \in DOMAIN deliveries => deliveries'[k] = deliveries[k]
                                      /\ chan'[k[2]] = chan[k[2]]
  BY DEF DeleteChannel, sentVars, SendShape, Pairs
<1>2. Listed' = [k \in Pairs |-> IF k[2] = c THEN "dropped" ELSE Listed[k]]
  BY <1>1 DEF Listed
<1>3. Promise!Forget(c)
  BY <1>1, <1>2 DEF Promise!Forget, Promise!Alerts, Listed, Pairs
<1> QED
  BY <1>3 DEF Told, Promise!Next

LEMMA AdminTold == ASSUME SendShape, Admin PROVE Told
<1>1. CASE deliveries' = deliveries /\ UNCHANGED <<events, got, twice, doubt>>
           /\ \A c \in Channels : chan'[c] = "removed" <=> chan[c] = "removed"
  BY <1>1, ListedKept, NothingToTell
<1>2. ASSUME NEW c \in Channels, NEW on \in BOOLEAN, SaveChannel(c, on) PROVE Told
  BY <1>1, <1>2 DEF SaveChannel, sentVars, SendShape
<1>3. ASSUME NEW c \in Channels, TestChannel(c) PROVE Told
  BY <1>1, <1>3 DEF TestChannel, sentVars
<1>4. ASSUME NEW r \in Rules, DeleteRule(r) \/ \E f \in Forms, on \in BOOLEAN : SaveRule(r, f, on) PROVE Told
  BY <1>1, <1>4 DEF DeleteRule, SaveRule, sentVars
<1> QED
  BY <1>2, <1>3, <1>4, RemoveTold DEF Admin

LEMMA AgeTold == ASSUME SendShape, Tick \/ \E k \in DOMAIN deliveries : BackoffEnds(k) PROVE Told
<1>1. Ages
  BY BackoffAges, TickAges
<1>2. events' = events
  BY DEF Tick, BackoffEnds
<1> QED
  BY <1>1, <1>2, ListedKept, NothingToTell DEF Ages, SendSame

LEMMA QueueTold ==
    ASSUME SendShape, DetMute, WorkShape, AimInv, ArrivedInv, KnownInv, NEW d \in Detectors, Queue(d)
    PROVE  Told
<1>1. UNCHANGED <<events, got, twice, doubt>> /\ chan' = chan
  BY DEF Queue, adminVars, sentVars
<1>2. CASE deliveries' = deliveries
  BY <1>1, <1>2, ListedKept, NothingToTell
<1>3. ASSUME NEW ev \in det[d].ev, NEW t \in det[d].next, NEW row,
             Queues(<<ev, t.chan>>, row), row.state = "suppressed" => t.mute
      PROVE  Told
  <2>1. ev \in AllEvents /\ ev \in events /\ t.chan \in Channels
    BY DEF WorkShape, Working, AimInv, Aimed, Opened, KnownInv
  <2>2. PICK k \in Pairs : k = <<ev, t.chan>>
    BY <2>1 DEF Pairs
  <2>3. k[1] = ev /\ k[2] = t.chan /\ k \notin DOMAIN deliveries /\ chan[k[2]] # "removed"
        /\ row.state \in {"pending", "suppressed"}
        /\ deliveries' = [x \in DOMAIN deliveries \cup {k} |-> IF x \in DOMAIN deliveries THEN deliveries[x] ELSE row]
    BY <1>3, <2>1, <2>2 DEF Queues, Removed
  <2>4. Listed[k] = "none"
    BY <2>3 DEF Listed
  <2>5. Listed' = [Listed EXCEPT ![k] = row.state]
    BY <1>1, <2>3 DEF Listed
  <2>6. CASE row.state = "pending"
    <3>1. Promise!Queue(k)
      BY <1>1, <2>1, <2>3, <2>4, <2>5, <2>6 DEF Promise!Queue, Promise!Becomes, Listed
    <3> QED
      BY <3>1, AlertTold
  <2>7. CASE row.state = "suppressed"
    <3>1. PICK g \in got : g[2] = t.chan /\ SameThing(g[1], ev)
      BY <1>3, <2>7 DEF DetMute, Reason
    <3>2. g[1] \in AllEvents
      BY DEF ArrivedInv, Pairs
    <3>3. <<g[1], k[1]>> \in {p \in AllEvents \X AllEvents : SameThing(p[1], p[2])}
      BY <2>1, <2>3, <3>1, <3>2
    <3>4. Promise!Suppress(k)
      BY <1>1, <2>1, <2>3, <2>4, <2>5, <2>7, <3>1, <3>3 DEF Promise!Suppress, Promise!Becomes, Listed
    <3> QED
      BY <3>4, AlertTold
  <2> QED
    BY <2>3, <2>6, <2>7
<1> QED
  BY <1>2, <1>3, QueueKind DEF Rests

LEMMA DetectTold ==
    ASSUME SendShape, DetMute, WorkShape, AimInv, ArrivedInv, KnownInv, NEW d \in Detectors, Detect(d)
    PROVE  Told
<1>1. ASSUME deliveries' = deliveries, chan' = chan, UNCHANGED <<events, got, twice, doubt>> PROVE Told
  BY <1>1, ListedKept, NothingToTell
<1>2. CASE RecordEvent(d)
  <2>1. det[d].raise \in Seq(AllEvents) /\ det[d].raise # <<>>
    BY <1>2 DEF RecordEvent, WorkShape, Working
  <2>2. PICK e \in AllEvents : e = Head(det[d].raise)
    BY <2>1
  <2>3. /\ events' = events \cup {e}
        /\ UNCHANGED <<deliveries, chan, got, twice, doubt>>
    BY <1>2, <2>2 DEF RecordEvent, adminVars, sentVars
  <2>4. Promise!Learn(e)
    BY <2>3 DEF Promise!Learn
  <2> QED
    BY <2>4 DEF Told, Promise!Next
<1>3. CASE NextRun(d) \/ FanOut(d) \/ QueueThrows(d) \/ \E t \in det[d].targets : Throttle(d, t)
  BY <1>1, <1>3 DEF NextRun, FanOut, QueueThrows, Throttle, adminVars, sentVars
<1> QED
  BY <1>2, <1>3, QueueTold DEF Detect

(* A row in a sweep's hands.                                                *)
LEMMA InHandListed ==
    ASSUME SweepInv, NEW s \in Sweeps, NEW k \in InHand(s), k \in Pairs
    PROVE  Listed[k] = IF k \in DOMAIN deliveries THEN "pending" ELSE "dropped"
BY DEF SweepInv, Listed, Removed

LEMMA ArriveTold ==
    ASSUME SendInv, HandInv, KnownInv, NEW s \in Sweeps, NEW row \in sweep[s].rows, Arrive(row.key),
           UNCHANGED <<events, deliveries, chan>>, doubt' \in {doubt, doubt \cup {row.key}}
    PROVE  Told
<1>1. PICK k \in Pairs : k = row.key
  BY DEF HandInv, Taken
<1>2. k \in InHand(s)
  BY <1>1 DEF InHand
<1>3. Listed[k] \in {"pending", "dropped"} /\ k[1] \in events
  BY <1>2, InHandListed DEF SendInv, KnownInv
<1>4. k \in got => k \in doubt
  BY <1>1 DEF SendInv, SentInv
<1>5. got' = got \cup {k} /\ twice' = (IF k \in got THEN twice \cup {k} ELSE twice) /\ doubt' \in {doubt, doubt \cup {k}}
  BY <1>1 DEF Arrive
<1>6. Listed' = Listed
  BY ListedKept
<1>7. Promise!Arrive(k)
  BY <1>3, <1>4, <1>5, <1>6 DEF Promise!Arrive, Listed
<1> QED
  BY <1>7, AlertTold

LEMMA WriteTold ==
    ASSUME SendInv, HandInv, NEW s \in Sweeps, NEW o \in sweep[s].out, RecordOutcome(s) \/ RecordFails(s)
    PROVE  Told
<1>1. PICK k \in Pairs : k = o.row.key
  BY DEF HandInv, Taken
<1>2. PICK row :
        /\ Writes(s, k, row) /\ got' = got /\ twice' = twice
        /\ \/ o.ok = "sent" /\ row.state = "sent" /\ doubt' = doubt
           \/ o.ok # "sent" /\ row.state \in {"failed", "pending"} /\ doubt' = doubt
           \/ o.ok = "sent" /\ row.state \in {"failed", "pending"} /\ doubt' = doubt \cup {k}
  BY <1>1, WriteKind DEF SendInv
<1>3. /\ k \in DOMAIN deliveries /\ chan' = chan /\ events' = events
      /\ DOMAIN deliveries' = DOMAIN deliveries /\ deliveries'[k] = row
      /\ \A x \in DOMAIN deliveries \ {k} : deliveries'[x] = deliveries[x]
  BY <1>2 DEF Writes, RecordOutcome, RecordFails
<1>4. Listed[k] = "pending"
  <2>1. k \in InHand(s)
    BY <1>1 DEF InHand
  <2> QED
    BY <1>3, <2>1, InHandListed DEF SendInv
<1>5. IF o.ok = "sent" THEN k \in got ELSE k \in got => k \in doubt
  BY <1>1 DEF SendInv, SentInv
<1>6. Listed' = [Listed EXCEPT ![k] = row.state]
  BY <1>3 DEF Listed
<1>7. CASE row.state = "sent"
  <2>1. doubt' = doubt /\ k \in got
    BY <1>2, <1>5, <1>7
  <2>2. Promise!Settle(k)
    BY <1>2, <1>3, <1>4, <1>6, <1>7, <2>1 DEF Promise!Settle, Promise!Becomes, Listed
  <2> QED
    BY <2>2, AlertTold
<1>8. CASE row.state = "failed"
  <2>1. doubt' \in {doubt, doubt \cup ({k} \cap got)} /\ (k \in got => k \in doubt')
    BY <1>2, <1>5, <1>8
  <2>2. Promise!GiveUp(k)
    BY <1>2, <1>3, <1>4, <1>6, <1>8, <2>1 DEF Promise!GiveUp, Promise!Becomes, Listed
  <2> QED
    BY <2>2, AlertTold
<1>9. CASE row.state = "pending"
  <2>1. Listed' = Listed
    BY <1>4, <1>6, <1>9 DEF Listed
  <2>2. CASE doubt' = doubt
    BY <1>2, <1>3, <2>1, <2>2, NothingToTell
  <2>3. CASE doubt' = doubt \cup {k} /\ k \in got
    BY <1>2, <1>3, <2>1, <2>3, DoubtTold
  <2> QED
    BY <1>2, <1>5, <1>9, <2>2, <2>3
<1> QED
  BY <1>2, <1>7, <1>8, <1>9

LEMMA SweepTold ==
    ASSUME SendInv, HandInv, KnownInv, NEW s \in Sweeps,
           Deliver(s) \/ RecordFails(s) \/ \E row \in sweep[s].rows : SendTimesOut(s, row)
    PROVE  Told
<1>1. ASSUME UNCHANGED <<deliveries, chan, events, got, twice, doubt>> PROVE Told
  BY <1>1, ListedKept, NothingToTell
<1>2. CASE Drain(s) \/ OutcomeDropped(s)
  BY <1>1, <1>2 DEF Drain, Begin, OutcomeDropped, adminVars, sentVars
<1>3. CASE RecordOutcome(s) \/ RecordFails(s)
  <2>1. PICK o \in sweep[s].out : TRUE
    BY <1>3 DEF RecordOutcome, RecordFails
  <2> QED
    BY <1>3, <2>1, WriteTold
<1>4. ASSUME NEW row \in sweep[s].rows, Send(s, row) \/ SendTimesOut(s, row) PROVE Told
  BY <1>4, ArriveTold DEF Send, SendTimesOut, Take, adminVars
<1>5. ASSUME NEW row \in sweep[s].rows, NEW o \in {"retry", "refused"}, SendFails(s, row, o) PROVE Told
  BY <1>1, <1>5 DEF SendFails, Take, adminVars, sentVars
<1> QED
  BY <1>2, <1>3, <1>4, <1>5 DEF Deliver

LEMMA CrashTold == ASSUME SentInv, Crash PROVE Told
<1> DEFINE S == {o.row.key : o \in {x \in UNION {sweep[s].out : s \in Sweeps} : x.ok = "sent"}}
<1>1. UNCHANGED <<deliveries, chan, events, got, twice>> /\ doubt' = doubt \cup S
  BY DEF Crash, adminVars
<1>2. S \subseteq got
  BY DEF SentInv
<1>3. Listed' = Listed
  BY <1>1, ListedKept
<1> HIDE DEF S
<1> QED
  BY <1>1, <1>2, <1>3, DoubtTold

LEMMA StepTold == IInv /\ LostInv /\ TypeInv /\ KnownInv /\ [Next]_vars => Told
<1> SUFFICES ASSUME IInv, LostInv, TypeInv, KnownInv, [Next]_vars PROVE Told
  OBVIOUS
<1>0. SendInv /\ SendShape /\ SentInv /\ DetMute /\ WorkShape /\ AimInv /\ ArrivedInv /\ HandInv
  BY DEF IInv, SendInv, DetInv, LostInv, TypeInv
<1>1. ASSUME UNCHANGED <<deliveries, chan, events, got, twice, doubt>> PROVE Told
  BY <1>1, ListedKept, NothingToTell
<1>2. ASSUME NEW n \in 1..MaxBatch, NEW o \in [1..n -> Outcomes], IngestRuns(n, o) PROVE Told
  BY <1>1, <1>2 DEF IngestRuns, adminVars, sentVars
<1>3. ASSUME NEW d \in Detectors, DetectorThrows(d) \/ \E ev \in Others : Raise(d, ev) PROVE Told
  BY <1>1, <1>3 DEF DetectorThrows, Raise, adminVars, sentVars
<1>4. ASSUME NEW d \in Detectors, Detect(d) PROVE Told
  BY <1>0, <1>4, DetectTold
<1>5. ASSUME NEW s \in Sweeps, Deliver(s) \/ RecordFails(s) \/ \E row \in sweep[s].rows : SendTimesOut(s, row)
      PROVE  Told
  BY <1>0, <1>5, SweepTold
<1>6. ASSUME Admin \/ Tick \/ (\E k \in DOMAIN deliveries : BackoffEnds(k)) \/ Crash PROVE Told
  BY <1>0, <1>6, AdminTold, AgeTold, CrashTold
<1>7. CASE UNCHANGED vars
  BY <1>1, <1>7 DEF vars, adminVars, sentVars
<1> QED
  BY <1>2, <1>3, <1>4, <1>5, <1>6, <1>7 DEF Next

LEMMA PromiseInit == Init => KnownInv /\ Promise!Init
<1> SUFFICES ASSUME Init PROVE KnownInv /\ Promise!Init
  OBVIOUS
<1>1. /\ DOMAIN deliveries = {} /\ events = {} /\ got = {} /\ twice = {} /\ doubt = {}
      /\ \A d \in Detectors : det[d].ev = {}
      /\ \A s \in Sweeps : sweep[s].rows = {} /\ sweep[s].out = {}
      /\ \A c \in Channels : chan[c] # "removed"
  BY DEF Init, Quiet
<1>2. Listed = [k \in Pairs |-> "none"]
  BY <1>1 DEF Listed, Pairs
<1>3. Promise!Init
  BY <1>1, <1>2 DEF Promise!Init, Promise!Alerts, Listed, Pairs
<1> QED
  BY <1>1, <1>3 DEF KnownInv, InHand

(* The list of recent alerts goes one way (Due, onConflictDoNothing, the    *)
(* cascade of deleteChannel): for any number of channels, rules, runs,      *)
(* retries, crashes and requests, what was sent, given up or throttled is   *)
(* not taken up again, only recorded events are sent, and one that arrived  *)
(* is sent again only while nobody may know of it.                          *)
THEOREM AlertsAreKept == Spec => KeepsAlerts
<1>1. Init => KnownInv /\ Promise!Init
  BY PromiseInit
<1>2. IInv /\ KnownInv /\ [Next]_vars => KnownInv'
  BY KnownNext
<1>3. IInv /\ LostInv /\ TypeInv /\ KnownInv /\ [Next]_vars => [Promise!Next]_(Promise!vars)
  BY StepTold DEF Told
<1> QED
  BY <1>1, <1>2, <1>3, Invariant, LostKept, TypeKept, PTL DEF Spec, KeepsAlerts, Promise!Spec

=============================================================================
