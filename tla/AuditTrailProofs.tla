-------------------------- MODULE AuditTrailProofs --------------------------
(***************************************************************************)
(* Proofs about AuditTrail, for any number of events, any batch size, any  *)
(* limit of attempts and any number of faults.                             *)
(***************************************************************************)
EXTENDS AuditTrail, FiniteSetTheorems, TLAPS

(* Events are numbered as their rows are written.                           *)
Numbered ==
    /\ Cardinality(audit) \in Nat /\ audit = 1..Cardinality(audit)
    /\ underway \in Nat /\ underway + Cardinality(audit) <= MaxEvents

(* One drain at a time: running is up as long as it is.                     *)
OneDrain ==
    /\ running <=> \E t \in Ticks : drain[t] # Idle
    /\ \A t, u \in Ticks : drain[t] # Idle /\ drain[u] # Idle => t = u

DrainStates ==
    {Idle} \cup [pc : {"selected"}, batch : SUBSET audit]
           \cup [pc : {"emitted"}, delivered : SUBSET audit, failed : SUBSET audit]
           \cup [pc : {"failures"}, failed : SUBSET audit]

Shape ==
    /\ DOMAIN queue \subseteq audit
    /\ queue = [e \in Queued |-> queue[e]]
    /\ \A e \in Queued : queue[e] \in [attempts : 0..(MaxAttempts - 1), due : BOOLEAN]
    /\ on \in BOOLEAN /\ open \in BOOLEAN /\ collector \in BOOLEAN /\ running \in BOOLEAN
    /\ drain \in [Ticks -> DrainStates]
    /\ buffer \cup delivered \cup twice \cup handed \cup gaveUp \subseteq audit
    /\ faults \in 0..MaxFaults

(* What a drain deletes it has handed over; without a fault nothing that is *)
(* still queued has been, except what the drain is about to delete.         *)
Owned ==
    /\ \A t \in Ticks : drain[t].pc = "emitted" => drain[t].delivered \subseteq handed
    /\ ~open => faults > 0
    /\ faults = 0 =>
         /\ twice = {}
         /\ \A t \in Ticks : drain[t].pc = "selected" => drain[t].batch \cap handed = {}
         /\ \A e \in Queued \cap handed :
              \E t \in Ticks : drain[t].pc = "emitted" /\ e \in drain[t].delivered

IInv == Numbered /\ OneDrain /\ Shape /\ Owned /\ NoQuietDrop

LEMMA InitInv == Init => IInv
<1> SUFFICES ASSUME Init PROVE IInv
  OBVIOUS
<1> USE AuditAssumption DEF Init
<1>1. Numbered
  BY FS_EmptySet DEF Numbered
<1>2. OneDrain
  BY DEF OneDrain
<1>3. Shape
  <2>1. Queued = {} /\ queue = [e \in Queued |-> queue[e]]
    BY DEF Queued
  <2>2. drain \in [Ticks -> DrainStates]
    BY DEF DrainStates
  <2>3. faults \in 0..MaxFaults
    OBVIOUS
  <2> QED
    BY <2>1, <2>2, <2>3 DEF Shape, Queued
<1>4. Owned /\ NoQuietDrop
  BY DEF Owned, NoQuietDrop, Queued, Idle
<1> QED
  BY <1>1, <1>2, <1>3, <1>4 DEF IInv

-----------------------------------------------------------------------------
(* A new row has the next number, so it is neither queued nor handed over.  *)
LEMMA NextRow ==
    ASSUME Numbered, WriteAudit
    PROVE  /\ Numbered' /\ audit' = audit \cup {Cardinality(audit) + 1}
           /\ Cardinality(audit) + 1 \notin audit
<1> DEFINE n == Cardinality(audit)
<1>1. n \in Nat /\ audit = 1..n /\ audit' = audit \cup {n + 1} /\ underway \in Nat /\ underway > 0
      /\ underway + n <= MaxEvents /\ underway' = underway - 1
  BY DEF Numbered, WriteAudit
<1>2. Cardinality(audit)' = n + 1 /\ n + 1 \notin audit
  <2>1. IsFiniteSet(audit) /\ n + 1 \notin audit
    BY <1>1, FS_Interval
  <2> QED
    BY <1>1, <2>1, FS_AddElement
<1>3. audit' = 1..(n + 1)
  BY <1>1
<1> HIDE DEF n
<1>a. underway' \in Nat /\ underway' + (n + 1) <= MaxEvents
  BY <1>1, AuditAssumption
<1>4. /\ audit' = 1..Cardinality(audit') /\ Cardinality(audit') \in Nat
      /\ underway' \in Nat /\ underway' + Cardinality(audit') <= MaxEvents
  <2>1. Cardinality(audit') = n + 1
    BY <1>2
  <2>2. n + 1 \in Nat
    BY <1>1
  <2> QED
    BY <1>3, <1>a, <2>1, <2>2
<1>5. Numbered'
  BY <1>4 DEF Numbered
<1> QED
  BY <1>1, <1>2, <1>5 DEF n

LEMMA WriteStep == IInv /\ WriteAudit => IInv'
<1> SUFFICES ASSUME IInv, WriteAudit PROVE IInv'
  OBVIOUS
<1> DEFINE e == Cardinality(audit) + 1
<1>1. Numbered' /\ audit' = audit \cup {e} /\ e \notin audit
  BY NextRow DEF IInv
<1>2. /\ queue' = [f \in Queued \cup {e} |->
                     IF f = e THEN [attempts |-> 0, due |-> TRUE] ELSE queue[f]]
      /\ UNCHANGED <<on, open, running, drain, collector, buffer, delivered, twice,
                     handed, gaveUp, pruned, faults>>
  BY DEF WriteAudit
<1> HIDE DEF e
<1>3. Queued' = Queued \cup {e}
  BY <1>2 DEF Queued
<1>4. OneDrain'
  BY <1>2 DEF IInv, OneDrain
<1>5. drain' \in [Ticks -> DrainStates']
  BY <1>1, <1>2 DEF IInv, Shape, DrainStates
<1>6. Shape'
  <2>1. \A f \in Queued' : queue'[f] \in [attempts : 0..(MaxAttempts - 1), due : BOOLEAN]
    BY <1>2, <1>3, AuditAssumption DEF IInv, Shape
  <2> QED
    BY <1>1, <1>2, <1>3, <1>5, <2>1 DEF IInv, Shape, Queued
<1>7. Owned'
  BY <1>1, <1>2, <1>3 DEF IInv, Owned, Shape
<1>8. NoQuietDrop'
  BY <1>1, <1>2, <1>3 DEF IInv, NoQuietDrop
<1> QED
  BY <1>1, <1>4, <1>6, <1>7, <1>8 DEF IInv

-----------------------------------------------------------------------------
(* The steps of a drain.                                                    *)

LEMMA BeginStep == ASSUME IInv, NEW t \in Ticks, Begin(t) PROVE IInv'
<1>1. /\ ~running /\ running' = TRUE
      /\ drain' = [drain EXCEPT ![t] = [pc |-> "selected", batch |-> Pending]]
      /\ UNCHANGED <<underway, audit, queue, on, open, collector, buffer, delivered, twice,
                     handed, gaveUp, pruned, faults>>
  BY DEF Begin, BeginAnyway
<1>2. Pending \subseteq Queued
  BY DEF Pending, Due
<1>3. \A u \in Ticks : drain[u] = Idle
  BY <1>1 DEF IInv, OneDrain
<1>4. /\ drain'[t] = [pc |-> "selected", batch |-> Pending]
      /\ \A u \in Ticks \ {t} : drain'[u] = Idle
  BY <1>1, <1>3 DEF IInv, Shape
<1>5. drain'[t] \in DrainStates
  BY <1>2, <1>4 DEF DrainStates, IInv, Shape, Queued
<1>6. Shape'
  BY <1>1, <1>5 DEF IInv, Shape, Queued, DrainStates
<1>7. OneDrain'
  BY <1>1, <1>4 DEF OneDrain, Idle
<1>8. Owned'
  <2>1. faults = 0 => Pending \cap handed = {}
    BY <1>2, <1>3 DEF IInv, Owned, Idle
  <2> QED
    BY <1>1, <1>3, <1>4, <2>1 DEF IInv, Owned, Idle, Queued
<1>9. Numbered' /\ NoQuietDrop'
  BY <1>1 DEF IInv, Numbered, NoQuietDrop, Queued
<1> QED
  BY <1>6, <1>7, <1>8, <1>9 DEF IInv

LEMMA EmitStep == ASSUME IInv, NEW t \in Ticks, Emit(t) PROVE IInv'
<1>1. PICK thrown \in SUBSET drain[t].batch :
        /\ drain' = [drain EXCEPT ![t] =
              [pc |-> "emitted", delivered |-> drain[t].batch \ thrown, failed |-> thrown]]
        /\ handed' = handed \cup (drain[t].batch \ thrown)
        /\ buffer' = IF open THEN buffer \cup (drain[t].batch \ thrown) ELSE buffer
        /\ twice' = IF open THEN twice \cup (handed \cap (drain[t].batch \ thrown)) ELSE twice
  BY DEF Emit, DeliveredRows
<1>2. /\ drain[t].pc = "selected"
      /\ UNCHANGED <<underway, audit, queue, on, open, running, collector, delivered, gaveUp,
                     pruned, faults>>
  BY DEF Emit
<1> DEFINE out == drain[t].batch \ thrown
<1>3. drain[t] # Idle /\ drain[t].batch \subseteq audit
  BY <1>2 DEF IInv, Shape, DrainStates, Idle
<1>4. \A u \in Ticks \ {t} : drain[u] = Idle /\ drain'[u] = Idle
  BY <1>1, <1>3 DEF IInv, OneDrain, Shape
<1>5. drain'[t] = [pc |-> "emitted", delivered |-> out, failed |-> thrown]
  BY <1>1 DEF IInv, Shape
<1>6. drain'[t] \in DrainStates
  BY <1>1, <1>3, <1>5 DEF DrainStates
<1>7. out \subseteq audit /\ (faults = 0 => out \cap handed = {})
  BY <1>2, <1>3 DEF IInv, Owned
<1> HIDE DEF out
<1>8. Shape'
  BY <1>1, <1>2, <1>6, <1>7 DEF IInv, Shape, Queued, DrainStates, out
<1>9. OneDrain'
  BY <1>2, <1>3, <1>4, <1>5 DEF IInv, OneDrain, Idle
<1>10. Owned'
  <2>1. handed' = handed \cup out
    BY <1>1 DEF out
  <2>2. faults = 0 => Queued \cap handed = {}
    BY <1>2, <1>4 DEF IInv, Owned, Idle
  <2>3. faults = 0 => twice' = {}
    BY <1>1, <1>7 DEF IInv, Owned, out
  <2> QED
    BY <1>2, <1>4, <1>5, <2>1, <2>2, <2>3 DEF IInv, Owned, Idle, Queued
<1>11. Numbered' /\ NoQuietDrop'
  BY <1>1, <1>2 DEF IInv, Numbered, NoQuietDrop, Queued
<1> QED
  BY <1>8, <1>9, <1>10, <1>11 DEF IInv

LEMMA DeleteStep == ASSUME IInv, NEW t \in Ticks, DeleteDelivered(t) PROVE IInv'
<1>1. /\ drain[t].pc = "emitted"
      /\ queue' = Without(drain[t].delivered)
      /\ drain' = [drain EXCEPT ![t] = [pc |-> "failures", failed |-> drain[t].failed]]
      /\ UNCHANGED <<underway, audit, on, open, running, collector, buffer, delivered, twice,
                     handed, gaveUp, pruned, faults>>
  BY DEF DeleteDelivered
<1>2. drain[t] # Idle /\ drain[t].failed \subseteq audit
  BY <1>1 DEF IInv, Shape, DrainStates, Idle
<1>3. \A u \in Ticks \ {t} : drain[u] = Idle /\ drain'[u] = Idle
  BY <1>1, <1>2 DEF IInv, OneDrain, Shape
<1>4. drain'[t] = [pc |-> "failures", failed |-> drain[t].failed]
  BY <1>1 DEF IInv, Shape
<1>5. drain'[t] \in DrainStates
  BY <1>2, <1>4 DEF DrainStates
<1>6. /\ Queued' = Queued \ drain[t].delivered
      /\ \A e \in Queued' : queue'[e] = queue[e]
      /\ queue' = [e \in Queued' |-> queue'[e]]
  BY <1>1 DEF Without, Queued
<1>7. Shape'
  BY <1>1, <1>5, <1>6 DEF IInv, Shape, Queued, DrainStates
<1>8. OneDrain'
  BY <1>1, <1>2, <1>3, <1>4 DEF IInv, OneDrain, Idle
<1>9. Owned'
  BY <1>1, <1>3, <1>4, <1>6 DEF IInv, Owned, Idle
<1>10. Numbered' /\ NoQuietDrop'
  BY <1>1, <1>6 DEF IInv, Numbered, NoQuietDrop, Owned
<1> QED
  BY <1>7, <1>8, <1>9, <1>10 DEF IInv

LEMMA SettleStep == ASSUME IInv, NEW t \in Ticks, SettleFailure(t) PROVE IInv'
<1> DEFINE e == CHOOSE e \in drain[t].failed : \A f \in drain[t].failed : e <= f
           attempts == IF e \in Queued THEN NextAttempt(queue[e].attempts) ELSE 0
<1>1. /\ drain[t].pc = "failures"
      /\ drain' = [drain EXCEPT ![t].failed = @ \ {e}]
      /\ IF e \in Queued /\ GivesUp(attempts)
         THEN queue' = Without({e}) /\ gaveUp' = gaveUp \cup {e}
         ELSE /\ queue' = [f \in Queued |-> IF f = e THEN [attempts |-> attempts, due |-> FALSE]
                                            ELSE queue[f]]
              /\ UNCHANGED gaveUp
      /\ UNCHANGED <<underway, audit, on, open, running, collector, buffer, delivered, twice,
                     handed, pruned, faults>>
  BY DEF SettleFailure
<1> HIDE DEF e
<1>2. drain[t] # Idle /\ drain[t] \in [pc : {"failures"}, failed : SUBSET audit]
  BY <1>1 DEF IInv, Shape, DrainStates, Idle
<1>3. \A u \in Ticks \ {t} : drain[u] = Idle /\ drain'[u] = Idle
  BY <1>1, <1>2 DEF IInv, OneDrain, Shape
<1>4. drain'[t] = [pc |-> "failures", failed |-> drain[t].failed \ {e}]
  BY <1>1, <1>2 DEF IInv, Shape
<1>5. drain'[t] \in DrainStates
  BY <1>2, <1>4 DEF DrainStates
<1>6. OneDrain'
  BY <1>1, <1>2, <1>3, <1>4 DEF IInv, OneDrain, Idle
<1>7. CASE e \in Queued /\ GivesUp(attempts)
  <2>1. /\ Queued' = Queued \ {e} /\ gaveUp' = gaveUp \cup {e}
        /\ \A f \in Queued' : queue'[f] = queue[f]
        /\ queue' = [f \in Queued' |-> queue'[f]]
    BY <1>1, <1>7 DEF Without, Queued
  <2>a. drain' \in [Ticks -> DrainStates']
    BY <1>1, <1>5 DEF IInv, Shape, DrainStates
  <2>b. DOMAIN queue' = Queued' /\ Queued' \subseteq Queued
    BY <2>1 DEF Queued
  <2>c. gaveUp' \subseteq audit
    BY <1>7, <2>1 DEF IInv, Shape, Queued
  <2>2. Shape'
    BY <1>1, <2>1, <2>a, <2>b, <2>c DEF IInv, Shape
  <2>3. Owned'
    BY <1>1, <1>3, <1>4, <2>1 DEF IInv, Owned, Idle
  <2>4. Numbered' /\ NoQuietDrop'
    BY <1>1, <2>1 DEF IInv, Numbered, NoQuietDrop
  <2> QED
    BY <1>6, <2>2, <2>3, <2>4 DEF IInv
<1>8. CASE ~(e \in Queued /\ GivesUp(attempts))
  <2>1. /\ gaveUp' = gaveUp
        /\ queue' = [f \in Queued |-> IF f = e THEN [attempts |-> attempts, due |-> FALSE]
                                      ELSE queue[f]]
    BY <1>1, <1>8
  <2>2. Queued' = Queued
    BY <2>1 DEF Queued
  <2>3. e \in Queued => attempts \in 0..(MaxAttempts - 1)
    BY <1>8, AuditAssumption DEF IInv, Shape, GivesUp, NextAttempt
  <2> HIDE DEF attempts
  <2>4. \A f \in Queued : queue'[f] \in [attempts : 0..(MaxAttempts - 1), due : BOOLEAN]
    BY <2>1, <2>3 DEF IInv, Shape
  <2>5. Shape'
    BY <1>1, <1>5, <2>1, <2>2, <2>4 DEF IInv, Shape, Queued, DrainStates
  <2>6. Owned'
    BY <1>1, <1>3, <1>4, <2>2 DEF IInv, Owned, Idle
  <2>7. Numbered' /\ NoQuietDrop'
    BY <1>1, <2>1, <2>2 DEF IInv, Numbered, NoQuietDrop
  <2> QED
    BY <1>6, <2>5, <2>6, <2>7 DEF IInv
<1> QED
  BY <1>7, <1>8

(* A drain that ends, in order or through a failing statement.              *)
LEMMA EndStep == ASSUME IInv, NEW t \in Ticks, Finish(t) \/ DrainFails(t) PROVE IInv'
<1>1. /\ drain[t] # Idle
      /\ drain' = [drain EXCEPT ![t] = Idle] /\ running' = FALSE
      /\ UNCHANGED <<underway, audit, queue, on, open, collector, buffer, delivered, twice,
                     handed, gaveUp, pruned>>
      /\ faults' \in 0..MaxFaults
      /\ \/ faults' = faults /\ drain[t].pc = "failures"
         \/ faults' > 0
  BY AuditAssumption DEF Finish, DrainFails, Idle, IInv, Shape
<1>2. \A u \in Ticks : drain'[u] = Idle
  BY <1>1 DEF IInv, OneDrain, Shape
<1>3. Shape'
  BY <1>1 DEF IInv, Shape, Queued, DrainStates
<1>4. OneDrain'
  BY <1>1, <1>2 DEF OneDrain
<1>5. Owned'
  <2>1. faults' = 0 => \A u \in Ticks : drain[u].pc # "emitted"
    BY <1>1, <1>2 DEF IInv, OneDrain, Shape, Idle
  <2> QED
    BY <1>1, <1>2, <2>1 DEF IInv, Owned, Idle, Queued, Shape
<1>6. Numbered' /\ NoQuietDrop'
  BY <1>1 DEF IInv, Numbered, NoQuietDrop, Queued
<1> QED
  BY <1>3, <1>4, <1>5, <1>6 DEF IInv

-----------------------------------------------------------------------------
(* Everything else.                                                         *)

LEMMA PruneStep == IInv /\ PruneRetention => IInv'
<1> SUFFICES ASSUME IInv, PruneRetention PROVE IInv'
  OBVIOUS
<1>1. /\ pruned' = pruned \cup Queued /\ queue' = Without(Queued)
      /\ UNCHANGED <<underway, audit, on, open, running, drain, collector, buffer, delivered,
                     twice, handed, gaveUp, faults>>
  BY DEF PruneRetention
<1>2. Queued' = {} /\ queue' = [e \in Queued' |-> queue'[e]]
  BY <1>1 DEF Without, Queued
<1>3. Shape' /\ OneDrain' /\ Owned'
  BY <1>1, <1>2 DEF IInv, Shape, OneDrain, Owned, DrainStates, Queued
<1>4. Numbered' /\ NoQuietDrop'
  BY <1>1, <1>2 DEF IInv, Numbered, NoQuietDrop
<1> QED
  BY <1>3, <1>4 DEF IInv

LEMMA BackoffStep == ASSUME IInv, NEW e \in Events, BackoffOver(e) PROVE IInv'
<1>1. /\ e \in Queued /\ queue' = [queue EXCEPT ![e].due = TRUE]
      /\ UNCHANGED <<underway, audit, on, open, running, drain, collector, buffer, delivered,
                     twice, handed, gaveUp, pruned, faults>>
  BY DEF BackoffOver
<1>2. Queued' = Queued /\ queue' = [f \in Queued' |-> queue'[f]]
  BY <1>1 DEF Queued
<1>3. \A f \in Queued : queue'[f] \in [attempts : 0..(MaxAttempts - 1), due : BOOLEAN]
  BY <1>1 DEF IInv, Shape, Queued
<1>4. Shape'
  BY <1>1, <1>2, <1>3 DEF IInv, Shape, DrainStates, Queued
<1>5. OneDrain' /\ Owned'
  BY <1>1, <1>2 DEF IInv, OneDrain, Owned
<1>6. Numbered' /\ NoQuietDrop'
  BY <1>1, <1>2 DEF IInv, Numbered, NoQuietDrop
<1> QED
  BY <1>4, <1>5, <1>6 DEF IInv

LEMMA RestartStep == ASSUME IInv, NEW configured \in BOOLEAN, Restart(configured) PROVE IInv'
<1>1. /\ on' = configured /\ open' = TRUE /\ running' = FALSE
      /\ drain' = [t \in Ticks |-> Idle] /\ buffer' = {} /\ underway' = 0
      /\ UNCHANGED <<audit, queue, collector, delivered, twice, handed, gaveUp, pruned>>
      /\ faults' \in 0..MaxFaults /\ faults' > 0
  BY AuditAssumption DEF Restart, IInv, Shape, Owned
<1>a. drain' \in [Ticks -> DrainStates'] /\ Queued' = Queued
  BY <1>1 DEF DrainStates, Queued
<1>b. Shape'
  BY <1>1, <1>a DEF IInv, Shape, Queued
<1>c. OneDrain'
  BY <1>1 DEF OneDrain
<1>d. Owned'
  BY <1>1 DEF Owned, Idle
<1>2. Shape' /\ OneDrain' /\ Owned'
  BY <1>b, <1>c, <1>d
<1>3. Numbered' /\ NoQuietDrop'
  BY <1>1, AuditAssumption DEF IInv, Numbered, NoQuietDrop, Queued
<1> QED
  BY <1>2, <1>3 DEF IInv

LEMMA OutsideStep ==
    IInv /\ (Do \/ AuditFails \/ Flush \/ CollectorTurns \/ Stop \/ UNCHANGED vars) => IInv'
<1> SUFFICES ASSUME IInv, Do \/ AuditFails \/ Flush \/ CollectorTurns \/ Stop \/ UNCHANGED vars
             PROVE  IInv'
  OBVIOUS
<1>1. /\ UNCHANGED <<audit, queue, on, running, drain, twice, handed, gaveUp, pruned>>
      /\ faults' \in 0..MaxFaults /\ (faults' = faults \/ faults' > 0)
      /\ collector' \in BOOLEAN /\ open' \in BOOLEAN
      /\ buffer' \subseteq buffer /\ delivered' \subseteq delivered \cup buffer
      /\ ~open' => faults' > 0
  <2>1. /\ collector \in BOOLEAN /\ open \in BOOLEAN /\ faults \in 0..MaxFaults
        /\ ~open => faults > 0
    BY DEF IInv, Shape, Owned
  <2>2. CASE Do \/ UNCHANGED vars
    BY <2>1, <2>2 DEF Do, vars
  <2>3. CASE AuditFails
    BY <2>1, <2>3, AuditAssumption DEF AuditFails
  <2>4. CASE Flush
    BY <2>1, <2>4 DEF Flush
  <2>5. CASE CollectorTurns
    BY <2>1, <2>5, AuditAssumption DEF CollectorTurns
  <2>6. CASE Stop
    <3>1. /\ UNCHANGED <<audit, queue, on, running, drain, twice, handed, gaveUp, pruned>>
          /\ collector' = collector /\ open' = FALSE /\ buffer' = {}
          /\ faults' = faults + 1 /\ faults < MaxFaults
      BY <2>6 DEF Stop
    <3>2. delivered' \subseteq delivered \cup buffer
      BY <2>6 DEF Stop
    <3>3. faults' \in 0..MaxFaults /\ faults' > 0
      BY <2>1, <3>1, AuditAssumption
    <3> QED
      BY <2>1, <3>1, <3>2, <3>3
  <2> QED
    BY <2>2, <2>3, <2>4, <2>5, <2>6
<1>2. underway' \in Nat /\ underway' + Cardinality(audit) <= MaxEvents
  BY AuditAssumption
  DEF Do, AuditFails, Flush, CollectorTurns, Stop, vars, IInv, Numbered
<1>3. Shape' /\ OneDrain' /\ Owned'
  BY <1>1 DEF IInv, Shape, OneDrain, Owned, DrainStates, Queued
<1>4. Numbered' /\ NoQuietDrop'
  BY <1>1, <1>2 DEF IInv, Numbered, NoQuietDrop, Queued
<1> QED
  BY <1>3, <1>4 DEF IInv

(* What the results below read off: one drain owns what it has selected,    *)
(* and deletes only what it has handed over.                                *)
THEOREM AuditInductive == Spec => []IInv
<1>1. IInv /\ [Next]_vars => IInv'
  BY WriteStep, BeginStep, EmitStep, DeleteStep, SettleStep, EndStep, PruneStep, BackoffStep,
     RestartStep, OutsideStep
  DEF Next, DrainStep
<1> QED
  BY <1>1, InitInv, PTL DEF Spec

(* The state keeps its shape: only events of the log are queued, selected   *)
(* or handed over, each with fewer attempts than the limit, and running is  *)
(* up exactly while a drain is under way.                                   *)
THEOREM AuditTypeCorrect == Spec => []TypeOK
<1>1. IInv => TypeOK
  <2> SUFFICES ASSUME IInv PROVE TypeOK
    OBVIOUS
  <2>1. underway \in 0..MaxEvents /\ audit \subseteq Events
    BY AuditAssumption DEF IInv, Numbered, Events
  <2>2. running = (\E t \in Ticks : drain[t] # Idle)
    BY DEF IInv, OneDrain, Shape
  <2> QED
    BY <2>1, <2>2 DEF IInv, Shape, TypeOK, DrainStates, Queued
<1> QED
  BY <1>1, AuditInductive, PTL

(* audit-export.ts: "A row is removed only after the record has been handed *)
(* to the batch processor".                                                 *)
THEOREM NothingQuietlyDropped == Spec => []NoQuietDrop
BY AuditInductive, PTL DEF IInv

(* One drain at a time: without a fault no event is handed over twice.      *)
THEOREM OnceWithoutFault == Spec => []TwiceOnlyAfterFault
<1>1. IInv => TwiceOnlyAfterFault
  BY DEF IInv, Owned, TwiceOnlyAfterFault
<1> QED
  BY <1>1, AuditInductive, PTL
=============================================================================
