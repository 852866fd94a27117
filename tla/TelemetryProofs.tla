-------------------------- MODULE TelemetryProofs --------------------------
(***************************************************************************)
(* Proofs about Telemetry, for any number of rows, pollers, sessions and   *)
(* crashes, any batch size and any bound of the outbox.                    *)
(***************************************************************************)
EXTENDS Telemetry, SequenceTheorems, WellFoundedInduction, TLAPS

-----------------------------------------------------------------------------
(* What a queue carries, before and after it is changed.                    *)

LEMMA CarriedBy ==
    ASSUME NEW q \in Seq(Message)
    PROVE  /\ Carried(q) \subseteq Ids
           /\ \A i : i \in Carried(q) <=> \E k \in 1 .. Len(q) : i \in q[k].rows
<1>1. DOMAIN q = 1 .. Len(q)
  BY LenProperties
<1>2. ASSUME NEW i PROVE i \in Carried(q) <=> \E k \in 1 .. Len(q) : i \in q[k].rows
  BY <1>1, Zenon DEF Carried
<1>3. \A k \in 1 .. Len(q) : q[k].rows \subseteq Ids
  <2> SUFFICES ASSUME NEW k \in 1 .. Len(q) PROVE q[k].rows \subseteq Ids
    OBVIOUS
  <2>1. q[k] \in Message
    BY ElementOfSeq
  <2> QED
    BY <2>1 DEF Message
<1> QED
  BY <1>2, <1>3, Zenon

LEMMA EmptyCarries == Carried(<<>>) = {}
BY DEF Carried

LEMMA AppendCarries ==
    ASSUME NEW q \in Seq(Message), NEW m \in Message
    PROVE  /\ Append(q, m) \in Seq(Message)
           /\ Len(Append(q, m)) = Len(q) + 1
           /\ Carried(Append(q, m)) = Carried(q) \cup m.rows
<1>1. /\ Append(q, m) \in Seq(Message)
      /\ Len(Append(q, m)) = Len(q) + 1
      /\ \A i \in 1 .. Len(q) : Append(q, m)[i] = q[i]
      /\ Append(q, m)[Len(q) + 1] = m
  BY AppendProperties
<1>2. Len(q) \in Nat
  BY LenProperties
<1>3. ASSUME NEW i, i \in Carried(Append(q, m)) PROVE i \in Carried(q) \cup m.rows
  <2>1. PICK k \in 1 .. Len(Append(q, m)) : i \in Append(q, m)[k].rows
    BY <1>1, <1>3, CarriedBy
  <2>2. CASE k \in 1 .. Len(q)
    BY <1>1, <2>1, <2>2, CarriedBy
  <2>3. CASE k = Len(q) + 1
    BY <1>1, <2>1, <2>3
  <2> QED
    BY <1>1, <1>2, <2>1, <2>2, <2>3
<1>4. ASSUME NEW i, i \in Carried(q) \cup m.rows PROVE i \in Carried(Append(q, m))
  <2>1. CASE i \in Carried(q)
    <3>1. PICK k \in 1 .. Len(q) : i \in q[k].rows
      BY <2>1, CarriedBy
    <3>2. k \in 1 .. Len(Append(q, m)) /\ i \in Append(q, m)[k].rows
      BY <1>1, <1>2, <3>1
    <3> QED
      BY <1>1, <3>2, CarriedBy
  <2>2. CASE i \in m.rows
    <3>1. Len(q) + 1 \in 1 .. Len(Append(q, m)) /\ i \in Append(q, m)[Len(q) + 1].rows
      BY <1>1, <1>2, <2>2
    <3> QED
      BY <1>1, <3>1, CarriedBy
  <2> QED
    BY <1>4, <2>1, <2>2
<1> QED
  BY <1>1, <1>3, <1>4

LEMMA ConcatCarries ==
    ASSUME NEW p \in Seq(Message), NEW q \in Seq(Message)
    PROVE  /\ p \o q \in Seq(Message)
           /\ Carried(p \o q) = Carried(p) \cup Carried(q)
<1>1. /\ p \o q \in Seq(Message)
      /\ Len(p \o q) = Len(p) + Len(q)
      /\ \A i \in 1 .. Len(p) + Len(q) : (p \o q)[i] = IF i <= Len(p) THEN p[i] ELSE q[i - Len(p)]
  BY ConcatProperties
<1>2. Len(p) \in Nat /\ Len(q) \in Nat
  BY LenProperties
<1>3. ASSUME NEW k \in 1 .. Len(q) PROVE (p \o q)[Len(p) + k] = q[k] /\ Len(p) + k \in 1 .. Len(p \o q)
  BY <1>1, <1>2
<1>4. ASSUME NEW i, i \in Carried(p) \cup Carried(q) PROVE i \in Carried(p \o q)
  <2>1. CASE i \in Carried(p)
    <3>1. PICK k \in 1 .. Len(p) : i \in p[k].rows
      BY <2>1, CarriedBy
    <3>2. k \in 1 .. Len(p \o q) /\ i \in (p \o q)[k].rows
      BY <1>1, <1>2, <3>1
    <3> QED
      BY <1>1, <3>2, CarriedBy
  <2>2. CASE i \in Carried(q)
    <3>1. PICK k \in 1 .. Len(q) : i \in q[k].rows
      BY <2>2, CarriedBy
    <3>2. Len(p) + k \in 1 .. Len(p \o q) /\ i \in (p \o q)[Len(p) + k].rows
      BY <1>3, <3>1
    <3> QED
      BY <1>1, <3>2, CarriedBy
  <2> QED
    BY <1>4, <2>1, <2>2
<1>5. ASSUME NEW i, i \in Carried(p \o q) PROVE i \in Carried(p) \cup Carried(q)
  <2>1. PICK k \in 1 .. Len(p \o q) : i \in (p \o q)[k].rows
    BY <1>1, <1>5, CarriedBy
  <2>2. CASE k <= Len(p)
    BY <1>1, <1>2, <2>1, <2>2, CarriedBy
  <2>3. CASE k > Len(p)
    <3>1. k - Len(p) \in 1 .. Len(q) /\ i \in q[k - Len(p)].rows
      BY <1>1, <1>2, <2>1, <2>3
    <3> QED
      BY <3>1, CarriedBy
  <2> QED
    BY <1>2, <2>1, <2>2, <2>3
<1> QED
  BY <1>1, <1>4, <1>5

LEMMA SplitCarries ==
    ASSUME NEW q \in Seq(Message), NEW k \in 0 .. Len(q)
    PROVE  /\ SubSeq(q, 1, k) \in Seq(Message)
           /\ SubSeq(q, k + 1, Len(q)) \in Seq(Message)
           /\ Len(SubSeq(q, k + 1, Len(q))) = Len(q) - k
           /\ Carried(q) = Carried(SubSeq(q, 1, k)) \cup Carried(SubSeq(q, k + 1, Len(q)))
<1> DEFINE a == SubSeq(q, 1, k)
           b == SubSeq(q, k + 1, Len(q))
<1>1. Len(q) \in Nat /\ k \in Nat /\ k <= Len(q)
  BY LenProperties
<1>2. \A i \in 1 .. Len(q) : q[i] \in Message
  BY ElementOfSeq
<1>3. a \in Seq(Message) /\ Len(a) = k /\ \A i \in 1 .. k : a[i] = q[i]
  <2>1. \A i \in 1 .. k : q[i] \in Message
    BY <1>1, <1>2
  <2>2. /\ a \in Seq(Message)
        /\ Len(a) = IF 1 <= k THEN k - 1 + 1 ELSE 0
        /\ \A i \in 1 .. k - 1 + 1 : a[i] = q[1 + i - 1]
    BY <1>1, <2>1, SubSeqProperties
  <2> HIDE DEF a
  <2> QED
    BY <1>1, <2>2
<1>4. b \in Seq(Message) /\ Len(b) = Len(q) - k /\ \A i \in 1 .. Len(q) - k : b[i] = q[k + i]
  <2>1. \A i \in k + 1 .. Len(q) : q[i] \in Message
    BY <1>1, <1>2
  <2>2. /\ b \in Seq(Message)
        /\ Len(b) = IF k + 1 <= Len(q) THEN Len(q) - (k + 1) + 1 ELSE 0
        /\ \A i \in 1 .. Len(q) - (k + 1) + 1 : b[i] = q[k + 1 + i - 1]
    BY <1>1, <2>1, SubSeqProperties
  <2> HIDE DEF b
  <2> QED
    BY <1>1, <2>2
<1> HIDE DEF a, b
<1>5. ASSUME NEW i, i \in Carried(q) PROVE i \in Carried(a) \cup Carried(b)
  <2>1. PICK n \in 1 .. Len(q) : i \in q[n].rows
    BY <1>5, CarriedBy
  <2>2. CASE n <= k
    BY <1>1, <1>3, <2>1, <2>2, CarriedBy
  <2>3. CASE n > k
    <3>1. n - k \in 1 .. Len(b) /\ i \in b[n - k].rows
      BY <1>1, <1>4, <2>1, <2>3
    <3> QED
      BY <1>4, <3>1, CarriedBy
  <2> QED
    BY <1>1, <2>1, <2>2, <2>3
<1>6. ASSUME NEW i, i \in Carried(a) \cup Carried(b) PROVE i \in Carried(q)
  BY <1>1, <1>3, <1>4, <1>6, CarriedBy
<1> QED
  BY <1>3, <1>4, <1>5, <1>6 DEF a, b

LEMMA TailCarries ==
    ASSUME NEW q \in Seq(Message), q # <<>>
    PROVE  /\ Head(q) \in Message /\ Head(q).rows \subseteq Ids
           /\ Tail(q) \in Seq(Message)
           /\ Carried(q) = Head(q).rows \cup Carried(Tail(q))
<1>1. /\ Head(q) \in Message
      /\ Tail(q) \in Seq(Message)
      /\ Len(Tail(q)) = Len(q) - 1
      /\ \A i \in 1 .. Len(Tail(q)) : Tail(q)[i] = q[i + 1]
  BY HeadTailProperties
<1>2. Len(q) \in Nat \ {0} /\ Head(q) = q[1]
  BY EmptySeq, LenProperties
<1>3. ASSUME NEW i, i \in Carried(q) PROVE i \in Head(q).rows \cup Carried(Tail(q))
  <2>1. PICK n \in 1 .. Len(q) : i \in q[n].rows
    BY <1>3, CarriedBy
  <2>2. CASE n > 1
    <3>1. n - 1 \in 1 .. Len(Tail(q)) /\ i \in Tail(q)[n - 1].rows
      BY <1>1, <1>2, <2>1, <2>2
    <3> QED
      BY <1>1, <3>1, CarriedBy
  <2> QED
    BY <1>2, <2>1, <2>2
<1>4. ASSUME NEW i, i \in Head(q).rows \cup Carried(Tail(q)) PROVE i \in Carried(q)
  <2>1. CASE i \in Head(q).rows
    <3>1. 1 \in 1 .. Len(q) /\ i \in q[1].rows
      BY <1>2, <2>1
    <3> QED
      BY <3>1, CarriedBy
  <2>2. CASE i \in Carried(Tail(q))
    <3>1. PICK k \in 1 .. Len(Tail(q)) : i \in Tail(q)[k].rows
      BY <1>1, <2>2, CarriedBy
    <3>2. k + 1 \in 1 .. Len(q) /\ i \in q[k + 1].rows
      BY <1>1, <1>2, <3>1
    <3> QED
      BY <3>2, CarriedBy
  <2> QED
    BY <1>4, <2>1, <2>2
<1> QED
  BY <1>1, <1>3, <1>4 DEF Message

LEMMA Least ==
    ASSUME NEW T, T \subseteq Nat, T # {}
    PROVE  \E x \in T : \A y \in T : ~ (y < x)
<1> DEFINE R == OpToRel(<, Nat)
<1>1. \A x, y \in Nat : y < x => <<y, x>> \in R
  BY Zenon DEF OpToRel
<1>2. IsWellFoundedOn(R, Nat)
  BY NatLessThanWellFounded, Zenon
<1> HIDE DEF R
<1>3. PICK x \in T : \A y \in T : ~ (<<y, x>> \in R)
  BY <1>2, WFMin, Zenon
<1> QED
  BY <1>1, <1>3, Zenon

(* The highest of some rows is one of them.                                 *)
LEMMA HighestExists ==
    ASSUME NEW S \in SUBSET Ids, S # {}
    PROVE  Highest(S) \in S
<1> DEFINE T == {x \in Nat : \E i \in S : x = MaxId - i}
<1>1. MaxId \in Nat /\ \A i \in S : i \in Nat /\ MaxId - i \in Nat
  BY BoundsAssumption DEF Ids
<1>2. T \subseteq Nat /\ T # {}
  BY <1>1
<1>3. PICK x \in T : \A y \in T : ~ (y < x)
  <2> HIDE DEF T
  <2> QED
    BY <1>2, Least, Zenon
<1>4. \A y \in T : x <= y
  <2> HIDE DEF T
  <2> QED
    BY <1>2, <1>3
<1>5. PICK i \in S : x = MaxId - i
  OBVIOUS
<1>6. ASSUME NEW k \in S PROVE k <= i
  <2>1. MaxId - k \in T
    BY <1>1
  <2>2. x <= MaxId - k
    BY <1>4, <2>1
  <2> QED
    BY <1>1, <1>5, <2>2
<1> QED
  BY <1>6 DEF Highest

LEMMA Bounds ==
    /\ MaxId \in Nat /\ Old \in Nat /\ Window \in Nat /\ Crashes \in Nat /\ Old <= MaxId
    /\ Batch \in Nat \ {0} /\ MaxRows \in Nat \ {0}
BY BoundsAssumption

-----------------------------------------------------------------------------
(* The inductive invariant.  A poll that has read its bookmark is behind    *)
(* the durable one, which others may have moved since, and has found rows.  *)
(* A hub queue at rest holds nothing back; the jobs it still has to refresh *)
(* have stored runs.                                                        *)
PollsBehind ==
    \A p \in Pollers :
        /\ poll[p].pc # "idle" => poll[p].base <= mark /\ poll[p].base < hist
        /\ poll[p].pc = "read" => poll[p].base < poll[p].top /\ poll[p].top <= hist

WorkTidy ==
    \A s \in Sessions : /\ ~work[s].busy => work[s].new = {}
                        /\ \A j \in work[s].todo : RunsOf(j) # {}

IInv == TypeOK /\ PollsBehind /\ WorkTidy /\ Accounted /\ NoRunUnreported

(* Where a row the worker took can be.                                      *)
Here(i) ==
    \/ i \in stored
    \/ i \in Carried(out)
    \/ \E s \in Sessions : i \in Carried(stream[s])
    \/ \E c \in Causes : i \in lost[c]

LEMMA AccountedHere ==
    /\ Accounted <=> \A i \in 1 .. mark : Here(i)
    /\ Accounted' <=> \A i \in 1 .. mark' : Here(i)'
<1>1. Accounted <=> \A i \in 1 .. mark : Here(i)
  BY Zenon DEF Accounted, OnTheWay, Lost, Here
<1>2. Accounted' <=> \A i \in 1 .. mark' : Here(i)'
  BY Zenon DEF Accounted, OnTheWay, Lost, Here
<1> QED
  BY <1>1, <1>2

(* Losing rows keeps an account of them, and of those lost before.          *)
LEMMA LosesKeeps ==
    ASSUME GhostOK, NEW cause \in Causes, NEW rows \in SUBSET Ids, Loses(cause, rows)
    PROVE  /\ lost' \in [Causes -> SUBSET Ids]
           /\ rows \subseteq lost'[cause]
           /\ \A c \in Causes : lost[c] \subseteq lost'[c]
BY DEF GhostOK, Loses

(* A stream that breaks delivers a prefix; the rest is accounted for.       *)
LEMMA BreakKeeps ==
    ASSUME GhostOK, WireOK, link # None, NEW q \in Seq(Message), NEW kept \in 0 .. Len(q),
           Break(kept, q)
    PROVE  /\ link' = None
           /\ stream' \in [Sessions -> Seq(Message)]
           /\ lost' \in [Causes -> SUBSET Ids]
           /\ \A s \in Sessions \ {link} : stream'[s] = stream[s]
           /\ Carried(q) \subseteq Carried(stream'[link]) \cup lost'["transit"]
           /\ \A c \in Causes : lost[c] \subseteq lost'[c]
<1> DEFINE a == SubSeq(q, 1, kept)
           b == SubSeq(q, kept + 1, Len(q))
<1>1. a \in Seq(Message) /\ b \in Seq(Message) /\ Carried(q) = Carried(a) \cup Carried(b)
  BY SplitCarries
<1>2. Carried(b) \in SUBSET Ids
  BY <1>1, CarriedBy
<1>3. link' = None /\ stream' = [stream EXCEPT ![link] = a] /\ Loses("transit", Carried(b))
  BY DEF Break
<1> HIDE DEF a, b
<1>4. /\ lost' \in [Causes -> SUBSET Ids]
      /\ Carried(b) \subseteq lost'["transit"]
      /\ \A c \in Causes : lost[c] \subseteq lost'[c]
  BY <1>2, <1>3, LosesKeeps DEF Causes
<1>5. link \in Sessions
  BY DEF WireOK
<1>6. /\ stream' \in [Sessions -> Seq(Message)]
      /\ stream'[link] = a
      /\ \A s \in Sessions \ {link} : stream'[s] = stream[s]
  BY <1>1, <1>3, <1>5 DEF WireOK
<1> QED
  BY <1>1, <1>3, <1>4, <1>6

(* What the outbox deletes to stay within its bound.                        *)
LEMMA ExcessBounds ==
    ASSUME WorkerOK, OutboxOK
    PROVE  /\ Excess \in 0 .. Len(out) + 1
           /\ depth + 1 - Excess = Len(out) + 1 - Excess
           /\ Len(out) + 1 - Excess <= MaxRows
BY Bounds, LenProperties DEF WorkerOK, OutboxOK, Excess, Smaller, Larger

LEMMA EvictKeeps ==
    ASSUME WorkerOK, OutboxOK, NEW m \in Message, NEW q, q = Append(out, m)
    PROVE  /\ q \in Seq(Message) /\ Len(q) = Len(out) + 1
           /\ SubSeq(q, Excess + 1, Len(q)) \in Seq(Message)
           /\ Len(SubSeq(q, Excess + 1, Len(q))) = Len(out) + 1 - Excess
           /\ Carried(SubSeq(q, 1, Excess)) \in SUBSET Ids
           /\ Carried(out) \cup m.rows =
                Carried(SubSeq(q, 1, Excess)) \cup Carried(SubSeq(q, Excess + 1, Len(q)))
<1>1. q \in Seq(Message) /\ Len(q) = Len(out) + 1 /\ Carried(q) = Carried(out) \cup m.rows
  BY AppendCarries DEF WorkerOK
<1>2. Excess \in 0 .. Len(q)
  BY <1>1, ExcessBounds
<1>3. /\ SubSeq(q, 1, Excess) \in Seq(Message)
      /\ SubSeq(q, Excess + 1, Len(q)) \in Seq(Message)
      /\ Len(SubSeq(q, Excess + 1, Len(q))) = Len(q) - Excess
      /\ Carried(q) = Carried(SubSeq(q, 1, Excess)) \cup Carried(SubSeq(q, Excess + 1, Len(q)))
  BY <1>1, <1>2, SplitCarries
<1>4. Carried(SubSeq(q, 1, Excess)) \in SUBSET Ids
  BY <1>3, CarriedBy
<1>5. Len(SubSeq(q, Excess + 1, Len(q))) = Len(out) + 1 - Excess
  BY <1>1, <1>3
<1> QED
  BY <1>1, <1>3, <1>4, <1>5, Zenon

(* emit: the message is on its way, or in the outbox at the cost of others. *)
LEMMA EmitKeeps ==
    ASSUME WorkerOK, WireOK, GhostOK, OutboxOK, NEW m \in Message, Emit(m), link' = link,
           stored' = stored
    PROVE  /\ out' \in Seq(Message)
           /\ stream' \in [Sessions -> Seq(Message)]
           /\ lost' \in [Causes -> SUBSET Ids]
           /\ OutboxOK'
           /\ \A i : Here(i) => Here(i)'
           /\ \A i \in m.rows : Here(i)'
<1>1. CASE /\ link # None
           /\ stream' = [stream EXCEPT ![link] = Append(@, m)]
           /\ UNCHANGED <<out, depth, lost>>
  <2>1. link \in Sessions /\ stream[link] \in Seq(Message)
    BY <1>1 DEF WireOK
  <2>2. /\ Append(stream[link], m) \in Seq(Message)
        /\ Carried(Append(stream[link], m)) = Carried(stream[link]) \cup m.rows
    BY <2>1, AppendCarries
  <2>3. /\ stream' \in [Sessions -> Seq(Message)]
        /\ stream'[link] = Append(stream[link], m)
        /\ \A s \in Sessions \ {link} : stream'[s] = stream[s]
    BY <1>1, <2>1, <2>2 DEF WireOK
  <2>4. /\ Carried(stream'[link]) = Carried(stream[link]) \cup m.rows
        /\ \A s \in Sessions : Carried(stream[s]) \subseteq Carried(stream'[s])
    BY <2>2, <2>3
  <2>5. ASSUME NEW i, Here(i) PROVE Here(i)'
    BY <1>1, <2>4, <2>5 DEF Here
  <2>6. ASSUME NEW i \in m.rows PROVE Here(i)'
    BY <2>1, <2>4 DEF Here
  <2>7. OutboxOK' /\ out' \in Seq(Message) /\ lost' \in [Causes -> SUBSET Ids]
    BY <1>1 DEF OutboxOK, WorkerOK, GhostOK
  <2> QED
    BY <2>3, <2>5, <2>6, <2>7
<1>2. CASE link = None /\ Enqueue(m) /\ stream' = stream
  <2> DEFINE q == Append(out, m)
             a == SubSeq(q, 1, Excess)
             b == SubSeq(q, Excess + 1, Len(q))
  <2>1. /\ b \in Seq(Message) /\ Len(b) = Len(out) + 1 - Excess
        /\ Carried(a) \in SUBSET Ids
        /\ Carried(out) \cup m.rows = Carried(a) \cup Carried(b)
    BY EvictKeeps
  <2>2. out' = b /\ depth' = depth + 1 - Excess /\ Loses("evicted", Carried(a))
    BY <1>2 DEF Enqueue
  <2> HIDE DEF a, b
  <2>3. /\ lost' \in [Causes -> SUBSET Ids]
        /\ Carried(a) \subseteq lost'["evicted"]
        /\ \A c \in Causes : lost[c] \subseteq lost'[c]
    BY <2>1, <2>2, LosesKeeps DEF Causes
  <2>4. "evicted" \in Causes
    BY DEF Causes
  <2>5. ASSUME NEW i, i \in Carried(out) \cup m.rows PROVE Here(i)'
    BY <2>1, <2>2, <2>3, <2>4, <2>5 DEF Here
  <2>6. ASSUME NEW i, Here(i) PROVE Here(i)'
    BY <1>2, <2>3, <2>5, <2>6 DEF Here
  <2>7. OutboxOK'
    BY <1>2, <2>1, <2>2, ExcessBounds DEF OutboxOK
  <2> QED
    BY <1>2, <2>1, <2>2, <2>3, <2>5, <2>6, <2>7 DEF WireOK
<1> QED
  BY <1>1, <1>2 DEF Emit

-----------------------------------------------------------------------------
(* What a step leaves alone keeps its part of the invariant.                *)

LEMMA ServerFrame ==
    ASSUME IInv, UNCHANGED <<work, store, silent>>
    PROVE  StoreOK' /\ WorkTidy' /\ NoRunUnreported' /\ (known' = known => HubOK')
<1>1. StoreOK' /\ (known' = known => HubOK')
  BY DEF IInv, TypeOK, StoreOK, HubOK, store
<1>2. WorkTidy'
  BY DEF IInv, WorkTidy, RunsOf, store
<1>3. NoRunUnreported'
  BY DEF IInv, NoRunUnreported, store
<1> QED
  BY <1>1, <1>2, <1>3

LEMMA WorkerFrame ==
    ASSUME IInv, UNCHANGED <<hist, worker, link>>
    PROVE  WorkerOK' /\ OutboxOK' /\ PollsBehind'
BY DEF IInv, TypeOK, WorkerOK, OutboxOK, PollsBehind, worker

LEMMA PollsFrame ==
    ASSUME IInv, UNCHANGED poll, mark' \in Nat, mark <= mark', hist' \in Nat, hist <= hist'
    PROVE  PollsBehind'
BY Bounds DEF IInv, TypeOK, WorkerOK, PollsBehind

LEMMA HereFrame ==
    ASSUME IInv, mark' = mark, \A i : Here(i) => Here(i)'
    PROVE  Accounted'
BY AccountedHere DEF IInv

LEMMA InvFrom ==
    ASSUME WorkerOK', WireOK', HubOK', StoreOK', GhostOK', OutboxOK',
           PollsBehind', WorkTidy', Accounted', NoRunUnreported'
    PROVE  IInv'
BY DEF IInv, TypeOK

-----------------------------------------------------------------------------
(* One lemma per action.                                                    *)

LEMMA InitOK == Init => IInv
<1> SUFFICES ASSUME Init PROVE IInv
  OBVIOUS
<1>1. WorkerOK
  <2>1. Idle \in [pc : {"idle", "asked", "read"}, base : 0 .. MaxId, top : 0 .. MaxId]
    BY Bounds DEF Idle
  <2>2. poll = [p \in Pollers |-> Idle]
    BY DEF Init
  <2>3. hist \in Old .. MaxId /\ mark \in 0 .. MaxId /\ mark <= hist
    BY Bounds DEF Init
  <2>4. out \in Seq(Message) /\ mon = "none" /\ ready \in BOOLEAN
    BY EmptySeq DEF Init
  <2> QED
    BY <2>1, <2>2, <2>3, <2>4 DEF WorkerOK
<1>2. WireOK
  BY EmptySeq DEF Init, WireOK
<1>3. HubOK
  BY Bounds DEF Init, HubOK, Nothing
<1>4. StoreOK /\ GhostOK
  BY Bounds DEF Init, StoreOK, GhostOK
<1>5. OutboxOK
  BY Bounds, EmptySeq DEF Init, OutboxOK
<1>6. PollsBehind
  BY DEF Init, PollsBehind, Idle
<1>7. WorkTidy
  BY DEF Init, WorkTidy, Nothing
<1>8. Accounted /\ NoRunUnreported
  BY DEF Init, Accounted, NoRunUnreported
<1> QED
  BY <1>1, <1>2, <1>3, <1>4, <1>5, <1>6, <1>7, <1>8 DEF IInv, TypeOK

LEMMA RunStep ==
    ASSUME IInv, Run
    PROVE  IInv'
<1>1. WorkerOK' /\ OutboxOK'
  BY Bounds DEF IInv, TypeOK, WorkerOK, OutboxOK, Run, worker, wire
<1>2. WireOK' /\ GhostOK'
  BY DEF IInv, TypeOK, WireOK, GhostOK, Run, wire, ghosts
<1>3. HubOK' /\ StoreOK' /\ WorkTidy' /\ NoRunUnreported'
  BY ServerFrame DEF Run, hub, ghosts
<1>4. PollsBehind'
  BY Bounds, PollsFrame DEF IInv, TypeOK, WorkerOK, Run, worker
<1>5. Accounted'
  BY HereFrame DEF Here, Run, worker, wire, store, ghosts
<1> QED
  BY <1>1, <1>2, <1>3, <1>4, <1>5, InvFrom

LEMMA StartMonitorStep ==
    ASSUME IInv, StartMonitor
    PROVE  IInv'
<1>1. /\ mark \in 0 .. MaxId /\ hist \in 0 .. MaxId /\ mark <= hist
      /\ Seeded \in 0 .. MaxId /\ mark <= Seeded /\ Seeded <= hist
      /\ mark' = Seeded /\ hist' = hist
  BY Bounds DEF IInv, TypeOK, WorkerOK, StartMonitor, Seeded, Larger
<1>2. WorkerOK' /\ OutboxOK'
  BY Bounds, <1>1 DEF IInv, TypeOK, WorkerOK, OutboxOK, StartMonitor, wire
<1>3. mark + 1 .. Seeded \in SUBSET Ids
  BY Bounds, <1>1 DEF Ids
<1>4. /\ lost' \in [Causes -> SUBSET Ids]
      /\ mark + 1 .. Seeded \subseteq lost'["skipped"]
      /\ \A c \in Causes : lost[c] \subseteq lost'[c]
  BY <1>3, LosesKeeps DEF IInv, TypeOK, Causes, StartMonitor
<1>5. WireOK' /\ GhostOK'
  BY <1>4 DEF IInv, TypeOK, WireOK, GhostOK, StartMonitor, wire
<1>6. HubOK' /\ StoreOK' /\ WorkTidy' /\ NoRunUnreported'
  BY ServerFrame DEF StartMonitor, hub
<1>7. PollsBehind'
  BY Bounds, <1>1, PollsFrame DEF StartMonitor
<1>8. Accounted'
  <2> SUFFICES ASSUME NEW i \in 1 .. Seeded PROVE Here(i)'
    BY <1>1, AccountedHere
  <2>1. CASE i \in 1 .. mark
    <3>1. Here(i)
      BY <2>1, AccountedHere DEF IInv
    <3> QED
      BY <1>4, <3>1 DEF Here, StartMonitor, wire, store
  <2>2. CASE i \in mark + 1 .. Seeded
    BY <1>4, <2>2 DEF Here, Causes
  <2> QED
    BY Bounds, <1>1, <2>1, <2>2
<1> QED
  BY <1>2, <1>5, <1>6, <1>7, <1>8, InvFrom

LEMMA StartPollingStep ==
    ASSUME IInv, StartPolling
    PROVE  IInv'
<1>1. WorkerOK' /\ OutboxOK'
  BY DEF IInv, TypeOK, WorkerOK, OutboxOK, StartPolling, wire
<1>2. WireOK' /\ GhostOK'
  BY DEF IInv, TypeOK, WireOK, GhostOK, StartPolling, wire, ghosts
<1>3. HubOK' /\ StoreOK' /\ WorkTidy' /\ NoRunUnreported'
  BY ServerFrame DEF StartPolling, hub, ghosts
<1>4. PollsBehind'
  BY DEF IInv, PollsBehind, StartPolling
<1>5. Accounted'
  BY HereFrame DEF Here, StartPolling, wire, store, ghosts
<1> QED
  BY <1>1, <1>2, <1>3, <1>4, <1>5, InvFrom

LEMMA ConnectStep ==
    ASSUME IInv, NEW s \in Sessions, Connect(s)
    PROVE  IInv'
<1>1. out \in Seq(Message) /\ stream[s] \in Seq(Message) /\ depth = Len(out)
  BY DEF IInv, TypeOK, WorkerOK, WireOK, OutboxOK
<1>2. /\ stream[s] \o out \in Seq(Message)
      /\ Carried(stream[s] \o out) = Carried(stream[s]) \cup Carried(out)
  BY <1>1, ConcatCarries
<1>3. stream' = [stream EXCEPT ![s] = stream[s] \o out] /\ out' = <<>> /\ depth' = depth - Len(out)
  BY DEF Connect, DrainOutbox
<1>4. /\ stream' \in [Sessions -> Seq(Message)]
      /\ stream'[s] = stream[s] \o out
      /\ \A r \in Sessions \ {s} : stream'[r] = stream[r]
  BY <1>2, <1>3 DEF IInv, TypeOK, WireOK
<1>5. WireOK' /\ GhostOK'
  BY <1>4 DEF IInv, TypeOK, WireOK, GhostOK, Connect, ghosts
<1>6. WorkerOK'
  BY <1>3, EmptySeq DEF IInv, TypeOK, WorkerOK, Connect
<1>7. OutboxOK'
  BY Bounds, <1>1, <1>3, EmptySeq, LenProperties DEF OutboxOK
<1>8. StoreOK' /\ WorkTidy' /\ NoRunUnreported'
  BY ServerFrame DEF Connect, ghosts
<1>9. HubOK'
  BY DEF IInv, TypeOK, HubOK, Connect
<1>10. PollsBehind'
  BY DEF IInv, PollsBehind, Connect
<1>11. ASSUME NEW i, Here(i) PROVE Here(i)'
  <2>1. \A r \in Sessions : Carried(stream[r]) \subseteq Carried(stream'[r])
    BY <1>2, <1>4
  <2>2. Carried(out) \subseteq Carried(stream'[s])
    BY <1>2, <1>4
  <2> QED
    BY <1>11, <2>1, <2>2 DEF Here, Connect, store, ghosts
<1>12. Accounted'
  BY <1>11, HereFrame DEF Connect
<1> QED
  BY <1>5, <1>6, <1>7, <1>8, <1>9, <1>10, <1>12, InvFrom

LEMMA BeatStep ==
    ASSUME IInv, Beat
    PROVE  IInv'
<1>1. link \in Sessions /\ stream[link] \in Seq(Message)
  BY DEF IInv, TypeOK, WireOK, Beat
<1>2. Heartbeat \in Message
  BY DEF Heartbeat, Message
<1>3. /\ Append(stream[link], Heartbeat) \in Seq(Message)
      /\ Carried(stream[link]) \subseteq Carried(Append(stream[link], Heartbeat))
  BY <1>1, <1>2, AppendCarries
<1>4. /\ stream' \in [Sessions -> Seq(Message)]
      /\ stream'[link] = Append(stream[link], Heartbeat)
      /\ \A r \in Sessions \ {link} : stream'[r] = stream[r]
  BY <1>1, <1>3 DEF IInv, TypeOK, WireOK, Beat
<1>5. WorkerOK' /\ OutboxOK' /\ PollsBehind'
  BY WorkerFrame DEF Beat
<1>6. WireOK' /\ GhostOK'
  BY <1>4 DEF IInv, TypeOK, WireOK, GhostOK, Beat, ghosts
<1>7. HubOK' /\ StoreOK' /\ WorkTidy' /\ NoRunUnreported'
  BY ServerFrame DEF Beat, hub, ghosts
<1>8. ASSUME NEW i, Here(i) PROVE Here(i)'
  <2>1. \A r \in Sessions : Carried(stream[r]) \subseteq Carried(stream'[r])
    BY <1>3, <1>4
  <2> QED
    BY <1>8, <2>1 DEF Here, Beat, worker, store, ghosts
<1>9. Accounted'
  BY <1>8, HereFrame DEF Beat, worker
<1> QED
  BY <1>5, <1>6, <1>7, <1>9, InvFrom

LEMMA DisconnectStep ==
    ASSUME IInv, Disconnect
    PROVE  IInv'
<1>1. PICK kept \in 0 .. Len(stream[link]) : Break(kept, stream[link])
  BY DEF Disconnect
<1>2. link \in Sessions /\ stream[link] \in Seq(Message)
  BY DEF IInv, TypeOK, WireOK, Disconnect
<1>3. /\ link' = None
      /\ stream' \in [Sessions -> Seq(Message)]
      /\ lost' \in [Causes -> SUBSET Ids]
      /\ \A s \in Sessions \ {link} : stream'[s] = stream[s]
      /\ Carried(stream[link]) \subseteq Carried(stream'[link]) \cup lost'["transit"]
      /\ \A c \in Causes : lost[c] \subseteq lost'[c]
  BY <1>1, <1>2, BreakKeeps DEF IInv, TypeOK, Disconnect
<1>4. WorkerOK' /\ OutboxOK'
  BY <1>3 DEF IInv, TypeOK, WorkerOK, OutboxOK, Disconnect, worker
<1>5. WireOK' /\ GhostOK'
  BY <1>3 DEF IInv, TypeOK, WireOK, GhostOK, Disconnect
<1>6. HubOK' /\ StoreOK' /\ WorkTidy' /\ NoRunUnreported'
  BY ServerFrame DEF Disconnect, hub
<1>7. PollsBehind'
  BY DEF IInv, PollsBehind, Disconnect, worker
<1>8. ASSUME NEW i, Here(i) PROVE Here(i)'
  BY <1>2, <1>3, <1>8 DEF Here, Causes, Disconnect, worker, store
<1>9. Accounted'
  BY <1>8, HereFrame DEF Disconnect, worker
<1> QED
  BY <1>4, <1>5, <1>6, <1>7, <1>9, InvFrom

(* A step of a poll that sends nothing.                                     *)
LEMMA QuietPoll ==
    ASSUME IInv, NEW p \in Pollers, NEW next, poll' = [poll EXCEPT ![p] = next],
           next \in [pc : {"idle", "asked", "read"}, base : 0 .. MaxId, top : 0 .. MaxId],
           next.pc # "idle" => next.base <= mark /\ next.base < hist,
           next.pc = "read" => next.base < next.top /\ next.top <= hist,
           UNCHANGED <<hist, mark, out, depth, mon, ready, wire, hub, store, ghosts>>
    PROVE  IInv'
<1>1. WorkerOK' /\ OutboxOK'
  BY DEF IInv, TypeOK, WorkerOK, OutboxOK, wire
<1>2. WireOK' /\ GhostOK'
  BY DEF IInv, TypeOK, WireOK, GhostOK, wire, ghosts
<1>3. HubOK' /\ StoreOK' /\ WorkTidy' /\ NoRunUnreported'
  BY ServerFrame DEF hub, ghosts
<1>4. PollsBehind'
  BY DEF IInv, TypeOK, WorkerOK, PollsBehind
<1>5. Accounted'
  BY HereFrame DEF Here, wire, store, ghosts
<1> QED
  BY <1>1, <1>2, <1>3, <1>4, <1>5, InvFrom

LEMMA PollStartStep ==
    ASSUME IInv, NEW p \in Pollers, PollStart(p)
    PROVE  IInv'
<1> DEFINE next == [pc |-> "asked", base |-> mark, top |-> mark]
<1>1. /\ next \in [pc : {"idle", "asked", "read"}, base : 0 .. MaxId, top : 0 .. MaxId]
      /\ next.pc = "asked" /\ next.base = mark /\ mark < hist /\ mark <= mark
  BY Bounds DEF IInv, TypeOK, WorkerOK, PollStart
<1>2. /\ poll' = [poll EXCEPT ![p] = next]
      /\ UNCHANGED <<hist, mark, out, depth, mon, ready, wire, hub, store, ghosts>>
  BY DEF PollStart
<1> HIDE DEF next
<1> QED
  BY <1>1, <1>2, QuietPoll

LEMMA PollReadStep ==
    ASSUME IInv, NEW p \in Pollers, PollRead(p)
    PROVE  IInv'
<1> DEFINE next == [poll[p] EXCEPT !.pc = "read", !.top = Smaller(hist, poll[p].base + Batch)]
<1>1. /\ poll[p] \in [pc : {"idle", "asked", "read"}, base : 0 .. MaxId, top : 0 .. MaxId]
      /\ poll[p].base \in 0 .. MaxId /\ hist \in 0 .. MaxId
      /\ poll[p].base <= mark /\ poll[p].base < hist
  BY Bounds DEF IInv, TypeOK, WorkerOK, PollsBehind, PollRead
<1>2. /\ Smaller(hist, poll[p].base + Batch) \in 0 .. MaxId
      /\ poll[p].base < Smaller(hist, poll[p].base + Batch)
      /\ Smaller(hist, poll[p].base + Batch) <= hist
  BY Bounds, <1>1 DEF Smaller
<1>3. /\ next \in [pc : {"idle", "asked", "read"}, base : 0 .. MaxId, top : 0 .. MaxId]
      /\ next.pc = "read" /\ next.base = poll[p].base /\ next.top = Smaller(hist, poll[p].base + Batch)
  BY <1>1, <1>2
<1>4. /\ poll' = [poll EXCEPT ![p] = next]
      /\ UNCHANGED <<hist, mark, out, depth, mon, ready, wire, hub, store, ghosts>>
  BY DEF PollRead
<1> HIDE DEF next
<1> QED
  BY <1>1, <1>2, <1>3, <1>4, QuietPoll

LEMMA PollFailStep ==
    ASSUME IInv, NEW p \in Pollers, PollFail(p)
    PROVE  IInv'
<1>1. /\ Idle \in [pc : {"idle", "asked", "read"}, base : 0 .. MaxId, top : 0 .. MaxId]
      /\ Idle.pc = "idle"
  BY Bounds DEF Idle
<1>2. /\ poll' = [poll EXCEPT ![p] = Idle]
      /\ UNCHANGED <<hist, mark, out, depth, mon, ready, wire, hub, store, ghosts>>
  BY DEF PollFail
<1> QED
  BY <1>1, <1>2, QuietPoll

(* The rows a poll has read make a batch, and lie beyond its bookmark.      *)
LEMMA BatchIsMessage ==
    ASSUME IInv, NEW p \in Pollers, poll[p].pc = "read"
    PROVE  /\ History(Rows(p)) \in Message
           /\ History(Rows(p)).rows = poll[p].base + 1 .. poll[p].top
           /\ poll[p].base \in 0 .. MaxId /\ poll[p].top \in 0 .. MaxId
           /\ poll[p].base <= mark /\ poll[p].top <= hist
           /\ mark \in 0 .. MaxId /\ hist \in 0 .. MaxId /\ mark <= hist
<1>1. /\ poll[p].base \in 0 .. MaxId /\ poll[p].top \in 0 .. MaxId
      /\ poll[p].base <= mark /\ poll[p].base < poll[p].top /\ poll[p].top <= hist
      /\ mark \in 0 .. MaxId /\ hist \in 0 .. MaxId /\ mark <= hist
  BY Bounds DEF IInv, TypeOK, WorkerOK, PollsBehind
<1>2. Rows(p) \in SUBSET Ids
  BY Bounds, <1>1 DEF Rows, Ids
<1>3. poll[p].top \in Rows(p)
  BY Bounds, <1>1 DEF Rows
<1>4. History(Rows(p)) \in Message
  BY <1>2, <1>3 DEF History, Message
<1>5. History(Rows(p)).rows = poll[p].base + 1 .. poll[p].top
  BY DEF History, Rows
<1> QED
  BY <1>1, <1>4, <1>5

LEMMA PollShipStep ==
    ASSUME IInv, NEW p \in Pollers, PollShip(p)
    PROVE  IInv'
<1> DEFINE m == History(Rows(p))
<1>1. /\ m \in Message /\ m.rows = poll[p].base + 1 .. poll[p].top
      /\ poll[p].base \in 0 .. MaxId /\ poll[p].top \in 0 .. MaxId
      /\ poll[p].base <= mark /\ poll[p].top <= hist
      /\ mark \in 0 .. MaxId /\ hist \in 0 .. MaxId /\ mark <= hist
  BY BatchIsMessage DEF PollShip
<1>2. Emit(m) /\ link' = link /\ stored' = stored
  BY DEF PollShip, store
<1> HIDE DEF m
<1>3. /\ out' \in Seq(Message)
      /\ stream' \in [Sessions -> Seq(Message)]
      /\ lost' \in [Causes -> SUBSET Ids]
      /\ OutboxOK'
      /\ \A i : Here(i) => Here(i)'
      /\ \A i \in m.rows : Here(i)'
  BY <1>1, <1>2, EmitKeeps DEF IInv, TypeOK
<1>4. /\ mark' \in 0 .. MaxId /\ mark <= mark' /\ mark' <= hist /\ hist' = hist
      /\ mark' = mark \/ mark' = poll[p].top
  BY Bounds, <1>1 DEF PollShip, Larger
<1>5. poll' = [poll EXCEPT ![p] = Idle]
  BY DEF PollShip
<1>6. /\ Idle \in [pc : {"idle", "asked", "read"}, base : 0 .. MaxId, top : 0 .. MaxId]
      /\ Idle.pc = "idle"
  BY Bounds DEF Idle
<1>7. WorkerOK'
  BY <1>3, <1>4, <1>5, <1>6 DEF IInv, TypeOK, WorkerOK, PollShip
<1>8. WireOK' /\ GhostOK'
  BY <1>2, <1>3 DEF IInv, TypeOK, WireOK, GhostOK, PollShip
<1>9. HubOK' /\ StoreOK' /\ WorkTidy' /\ NoRunUnreported'
  BY ServerFrame DEF PollShip, hub
<1>10. PollsBehind'
  BY Bounds, <1>1, <1>4, <1>5, <1>6 DEF IInv, TypeOK, WorkerOK, PollsBehind
<1>11. Accounted'
  <2> SUFFICES ASSUME NEW i \in 1 .. mark' PROVE Here(i)'
    BY AccountedHere
  <2>1. CASE i \in 1 .. mark
    <3>1. Here(i)
      BY <2>1, AccountedHere DEF IInv
    <3> QED
      BY <1>3, <3>1
  <2>2. CASE i > mark
    <3>1. i \in m.rows
      BY <1>1, <1>4, <2>2
    <3> QED
      BY <1>3, <3>1
  <2> QED
    BY <1>1, <1>4, <2>1, <2>2
<1> QED
  BY <1>3, <1>7, <1>8, <1>9, <1>10, <1>11, InvFrom

(* A restart keeps what was durable and forgets the polls.                  *)
LEMMA RestartedKeeps ==
    ASSUME IInv, NEW q \in Seq(Message), Len(q) <= MaxRows, Restarted(q),
           mark' = mark, link' = None
    PROVE  /\ WorkerOK' /\ OutboxOK' /\ PollsBehind'
           /\ HubOK' /\ StoreOK' /\ WorkTidy' /\ NoRunUnreported'
           /\ crashes' \in 0 .. Crashes /\ silent' = silent /\ stored' = stored /\ out' = q
<1>1. Idle \in [pc : {"idle", "asked", "read"}, base : 0 .. MaxId, top : 0 .. MaxId]
  BY Bounds DEF Idle
<1>2. poll' = [x \in Pollers |-> Idle] /\ hist' = hist /\ out' = q /\ mon' = "none" /\ ready' = FALSE
  BY DEF Restarted
<1>3. WorkerOK'
  BY <1>1, <1>2 DEF IInv, TypeOK, WorkerOK
<1>4. OutboxOK'
  BY <1>2 DEF OutboxOK, Restarted, DepthOnStart
<1>5. PollsBehind'
  BY <1>2 DEF PollsBehind, Idle
<1>6. HubOK' /\ StoreOK' /\ WorkTidy' /\ NoRunUnreported'
  BY ServerFrame DEF Restarted, hub
<1>7. crashes' \in 0 .. Crashes
  BY Bounds DEF IInv, TypeOK, GhostOK, Restarted
<1> QED
  BY <1>2, <1>3, <1>4, <1>5, <1>6, <1>7 DEF Restarted, store

(* The stream breaks with the process: whatever it held is accounted for.   *)
LEMMA CrashOnline ==
    ASSUME IInv, link # None, NEW q \in Seq(Message), NEW kept \in 0 .. Len(q), Break(kept, q),
           Carried(stream[link]) \subseteq Carried(q), Restarted(out), mark' = mark
    PROVE  IInv'
<1>1. /\ link' = None
      /\ stream' \in [Sessions -> Seq(Message)]
      /\ lost' \in [Causes -> SUBSET Ids]
      /\ \A s \in Sessions \ {link} : stream'[s] = stream[s]
      /\ Carried(q) \subseteq Carried(stream'[link]) \cup lost'["transit"]
      /\ \A c \in Causes : lost[c] \subseteq lost'[c]
  BY BreakKeeps DEF IInv, TypeOK
<1>2. out \in Seq(Message) /\ Len(out) <= MaxRows /\ link \in Sessions
  BY DEF IInv, TypeOK, WorkerOK, OutboxOK, WireOK
<1>3. /\ WorkerOK' /\ OutboxOK' /\ PollsBehind'
      /\ HubOK' /\ StoreOK' /\ WorkTidy' /\ NoRunUnreported'
      /\ crashes' \in 0 .. Crashes /\ silent' = silent /\ stored' = stored /\ out' = out
  BY <1>1, <1>2, RestartedKeeps
<1>4. WireOK' /\ GhostOK'
  BY <1>1, <1>3 DEF IInv, TypeOK, WireOK, GhostOK, Restarted
<1>5. ASSUME NEW i, Here(i) PROVE Here(i)'
  BY <1>1, <1>2, <1>3, <1>5 DEF Here, Causes
<1>6. Accounted'
  BY <1>5, HereFrame
<1> QED
  BY <1>3, <1>4, <1>6, InvFrom

LEMMA CrashStep ==
    ASSUME IInv, Crash
    PROVE  IInv'
<1>1. CASE link = None /\ UNCHANGED <<link, stream, lost>>
  <2>1. out \in Seq(Message) /\ Len(out) <= MaxRows
    BY DEF IInv, TypeOK, WorkerOK, OutboxOK
  <2>2. /\ WorkerOK' /\ OutboxOK' /\ PollsBehind'
        /\ HubOK' /\ StoreOK' /\ WorkTidy' /\ NoRunUnreported'
        /\ crashes' \in 0 .. Crashes /\ silent' = silent /\ stored' = stored /\ out' = out
    BY <1>1, <2>1, RestartedKeeps DEF Crash
  <2>3. WireOK' /\ GhostOK'
    BY <1>1, <2>2 DEF IInv, TypeOK, WireOK, GhostOK, Crash, Restarted
  <2>4. Accounted'
    BY <1>1, <2>2, HereFrame DEF Here, Crash
  <2> QED
    BY <2>2, <2>3, <2>4, InvFrom
<1>2. CASE link # None
  <2>1. PICK kept \in 0 .. Len(stream[link]) : Break(kept, stream[link])
    BY <1>2 DEF Crash
  <2>2. stream[link] \in Seq(Message)
    BY <1>2 DEF IInv, TypeOK, WireOK
  <2> QED
    BY <1>2, <2>1, <2>2, CrashOnline DEF Crash
<1> QED
  BY <1>1, <1>2 DEF Crash

LEMMA CrashInShipStep ==
    ASSUME IInv, NEW p \in Pollers, CrashInShip(p)
    PROVE  IInv'
<1> DEFINE m == History(Rows(p))
           q == Append(out, m)
           a == SubSeq(q, 1, Excess)
           b == SubSeq(q, Excess + 1, Len(q))
<1>1. m \in Message
  BY BatchIsMessage DEF CrashInShip
<1>2. CASE /\ link = None
           /\ Restarted(b)
           /\ Loses("evicted", Carried(a))
           /\ UNCHANGED <<link, stream>>
  <2>1. /\ b \in Seq(Message) /\ Len(b) = Len(out) + 1 - Excess
        /\ Carried(a) \in SUBSET Ids
        /\ Carried(out) \cup m.rows = Carried(a) \cup Carried(b)
    BY <1>1, EvictKeeps DEF IInv, TypeOK
  <2> HIDE DEF a, b, m
  <2>2. Len(b) <= MaxRows
    BY <2>1, ExcessBounds DEF IInv, TypeOK
  <2>3. mark' = mark
    BY DEF CrashInShip
  <2>4. /\ WorkerOK' /\ OutboxOK' /\ PollsBehind'
        /\ HubOK' /\ StoreOK' /\ WorkTidy' /\ NoRunUnreported'
        /\ crashes' \in 0 .. Crashes /\ silent' = silent /\ stored' = stored /\ out' = b
    BY <1>2, <2>1, <2>2, <2>3, RestartedKeeps
  <2>5. /\ lost' \in [Causes -> SUBSET Ids]
        /\ Carried(a) \subseteq lost'["evicted"]
        /\ \A c \in Causes : lost[c] \subseteq lost'[c]
    BY <1>2, <2>1, LosesKeeps DEF IInv, TypeOK, Causes
  <2>6. WireOK' /\ GhostOK'
    BY <1>2, <2>4, <2>5 DEF IInv, TypeOK, WireOK, GhostOK, Restarted
  <2>7. ASSUME NEW i, Here(i) PROVE Here(i)'
    BY <1>2, <2>1, <2>4, <2>5, <2>7 DEF Here, Causes
  <2>8. Accounted'
    BY <2>3, <2>7, HereFrame
  <2> QED
    BY <2>4, <2>6, <2>8, InvFrom
<1>3. CASE /\ link # None
           /\ Restarted(out)
           /\ \E kept \in 0 .. Len(stream[link]) + 1 : Break(kept, Append(stream[link], m))
  <2>1. stream[link] \in Seq(Message)
    BY <1>3 DEF IInv, TypeOK, WireOK
  <2>2. /\ Append(stream[link], m) \in Seq(Message)
        /\ Len(Append(stream[link], m)) = Len(stream[link]) + 1
        /\ Carried(stream[link]) \subseteq Carried(Append(stream[link], m))
    BY <1>1, <2>1, AppendCarries
  <2> HIDE DEF m
  <2>3. PICK kept \in 0 .. Len(stream[link]) + 1 : Break(kept, Append(stream[link], m))
    BY <1>3
  <2>4. mark' = mark
    BY DEF CrashInShip
  <2> QED
    BY <1>3, <2>2, <2>3, <2>4, CrashOnline
<1> QED
  BY <1>2, <1>3 DEF CrashInShip

-----------------------------------------------------------------------------
(* The hub takes a message off a stream: only its rows leave the queues.    *)
LEMMA ConsumeKeeps ==
    ASSUME WireOK, NEW s \in Sessions, stream[s] # <<>>, Consume(s)
    PROVE  /\ stream' \in [Sessions -> Seq(Message)]
           /\ Head(stream[s]) \in Message /\ Head(stream[s]).rows \subseteq Ids
           /\ \A r \in Sessions : Carried(stream[r]) \subseteq Carried(stream'[r]) \cup Head(stream[s]).rows
<1>1. stream[s] \in Seq(Message)
  BY DEF WireOK
<1>2. /\ Head(stream[s]) \in Message /\ Head(stream[s]).rows \subseteq Ids
      /\ Tail(stream[s]) \in Seq(Message)
      /\ Carried(stream[s]) = Head(stream[s]).rows \cup Carried(Tail(stream[s]))
  BY <1>1, TailCarries
<1>3. /\ stream' \in [Sessions -> Seq(Message)]
      /\ stream'[s] = Tail(stream[s])
      /\ \A r \in Sessions \ {s} : stream'[r] = stream[r]
  BY <1>2 DEF WireOK, Consume
<1> QED
  BY <1>2, <1>3

LEMMA HubBeatStep ==
    ASSUME IInv, NEW s \in Sessions, HubBeat(s)
    PROVE  IInv'
<1>1. /\ stream' \in [Sessions -> Seq(Message)]
      /\ Head(stream[s]) \in Message
      /\ \A r \in Sessions : Carried(stream[r]) \subseteq Carried(stream'[r]) \cup Head(stream[s]).rows
  BY ConsumeKeeps DEF IInv, TypeOK, HubBeat, Next1
<1>2. Head(stream[s]).rows = {}
  BY <1>1 DEF HubBeat, Next1, Message
<1>3. WorkerOK' /\ OutboxOK' /\ PollsBehind'
  BY WorkerFrame DEF HubBeat
<1>4. WireOK' /\ GhostOK'
  BY <1>1 DEF IInv, TypeOK, WireOK, GhostOK, HubBeat, ghosts
<1>5. StoreOK' /\ WorkTidy' /\ NoRunUnreported'
  BY ServerFrame DEF HubBeat, ghosts
<1>6. HubOK'
  BY DEF IInv, TypeOK, HubOK, HubBeat
<1>7. ASSUME NEW i, Here(i) PROVE Here(i)'
  <2>1. \A r \in Sessions : Carried(stream[r]) \subseteq Carried(stream'[r])
    BY <1>1, <1>2
  <2> QED
    BY <1>7, <2>1 DEF Here, HubBeat, worker, store, ghosts
<1>8. Accounted'
  BY <1>7, HereFrame DEF HubBeat, worker
<1> QED
  BY <1>3, <1>4, <1>5, <1>6, <1>8, InvFrom

LEMMA HubSkipStep ==
    ASSUME IInv, NEW s \in Sessions, HubSkip(s)
    PROVE  IInv'
<1> DEFINE rows == Head(stream[s]).rows
<1>1. /\ stream' \in [Sessions -> Seq(Message)]
      /\ rows \subseteq Ids
      /\ \A r \in Sessions : Carried(stream[r]) \subseteq Carried(stream'[r]) \cup rows
  BY ConsumeKeeps DEF IInv, TypeOK, HubSkip, Next1
<1>2. PICK cause \in {"unknown", "failed"} : Loses(cause, rows \ stored)
  BY DEF HubSkip
<1> HIDE DEF rows
<1>3. cause \in Causes /\ rows \ stored \in SUBSET Ids
  BY <1>1 DEF Causes
<1>4. /\ lost' \in [Causes -> SUBSET Ids]
      /\ rows \ stored \subseteq lost'[cause]
      /\ \A c \in Causes : lost[c] \subseteq lost'[c]
  BY <1>2, <1>3, LosesKeeps DEF IInv, TypeOK
<1>5. WorkerOK' /\ OutboxOK' /\ PollsBehind'
  BY WorkerFrame DEF HubSkip
<1>6. WireOK' /\ GhostOK'
  BY <1>1, <1>4 DEF IInv, TypeOK, WireOK, GhostOK, HubSkip
<1>7. HubOK' /\ StoreOK' /\ WorkTidy' /\ NoRunUnreported'
  BY ServerFrame DEF HubSkip, hub
<1>8. ASSUME NEW i, i \in rows PROVE Here(i)'
  BY <1>3, <1>4, <1>8 DEF Here, HubSkip, store
<1>9. ASSUME NEW i, Here(i) PROVE Here(i)'
  BY <1>1, <1>4, <1>8, <1>9 DEF Here, HubSkip, worker, store
<1>10. Accounted'
  BY <1>9, HereFrame DEF HubSkip, worker
<1> QED
  BY <1>5, <1>6, <1>7, <1>10, InvFrom

LEMMA HubIngestStep ==
    ASSUME IInv, NEW s \in Sessions, HubIngest(s)
    PROVE  IInv'
<1> DEFINE rows == Head(stream[s]).rows
           jobs == {JobOf[i] : i \in rows}
           next == [busy |-> TRUE, new |-> NewRows(rows), top |-> Highest(rows),
                    todo |-> jobs, job |-> None, row |-> 0]
<1>1. /\ stream' \in [Sessions -> Seq(Message)]
      /\ Head(stream[s]) \in Message /\ rows \subseteq Ids
      /\ \A r \in Sessions : Carried(stream[r]) \subseteq Carried(stream'[r]) \cup rows
  BY ConsumeKeeps DEF IInv, TypeOK, HubIngest, Next1
<1>2. rows # {}
  BY <1>1 DEF HubIngest, Next1, Message
<1>3. /\ stored' = stored \cup rows
      /\ work' = [work EXCEPT ![s] = next]
      /\ ~ work[s].busy
  BY DEF HubIngest, Next1
<1>4. jobs \subseteq Jobs
  BY <1>1, JobsAssumption DEF Ids
<1>5. \A j \in jobs : \E i \in rows : JobOf[i] = j
  OBVIOUS
<1> HIDE DEF rows, jobs
<1>6. Highest(rows) \in 0 .. MaxId
  <2>1. Highest(rows) \in Ids
    BY <1>1, <1>2, HighestExists
  <2> QED
    BY Bounds, <2>1 DEF Ids
<1>7. /\ next \in [busy : BOOLEAN, new : SUBSET Ids, top : 0 .. MaxId, todo : SUBSET Jobs,
                   job : Jobs \cup {None}, row : 0 .. MaxId]
      /\ next.busy /\ next.new = rows \ stored /\ next.todo = jobs
  BY Bounds, <1>1, <1>4, <1>6 DEF NewRows
<1> HIDE DEF next
<1>8. HubOK'
  BY <1>3, <1>7 DEF IInv, TypeOK, HubOK, HubIngest
<1>9. WorkerOK' /\ OutboxOK' /\ PollsBehind'
  BY WorkerFrame DEF HubIngest
<1>10. WireOK' /\ GhostOK'
  BY <1>1 DEF IInv, TypeOK, WireOK, GhostOK, HubIngest, ghosts
<1>11. StoreOK'
  BY <1>1, <1>3 DEF IInv, TypeOK, StoreOK, HubIngest
<1>12. /\ work'[s] = next
       /\ \A r \in Sessions \ {s} : work'[r] = work[r]
  BY <1>3 DEF IInv, TypeOK, HubOK
<1>13. WorkTidy'
  <2> SUFFICES ASSUME NEW r \in Sessions
               PROVE  /\ ~work'[r].busy => work'[r].new = {}
                      /\ \A j \in work'[r].todo : RunsOf(j)' # {}
    BY DEF WorkTidy
  <2>1. CASE r = s
    <3>1. ASSUME NEW j \in jobs PROVE RunsOf(j)' # {}
      BY <1>3, <1>5 DEF RunsOf
    <3> QED
      BY <1>7, <1>12, <2>1, <3>1
  <2>2. CASE r # s
    <3>1. ASSUME NEW j \in work[r].todo PROVE RunsOf(j)' # {}
      BY <1>3 DEF IInv, WorkTidy, RunsOf
    <3>2. ~work[r].busy => work[r].new = {}
      BY DEF IInv, WorkTidy
    <3> QED
      BY <1>12, <2>2, <3>1, <3>2
  <2> QED
    BY <2>1, <2>2
<1>14. NoRunUnreported'
  <2> SUFFICES ASSUME NEW i \in stored', i \notin (alerted \cup silent)'
               PROVE  \E r \in Sessions : i \in work'[r].new
    BY DEF NoRunUnreported
  <2>1. CASE i \in stored
    <3>1. PICK r \in Sessions : i \in work[r].new
      BY <2>1 DEF IInv, NoRunUnreported, HubIngest, ghosts
    <3>2. r # s
      BY <1>3, <3>1 DEF IInv, WorkTidy
    <3> QED
      BY <1>12, <3>1, <3>2
  <2>2. CASE i \notin stored
    BY <1>3, <1>7, <1>12, <2>2
  <2> QED
    BY <2>1, <2>2
<1>15. ASSUME NEW i, Here(i) PROVE Here(i)'
  BY <1>1, <1>3, <1>15 DEF Here, HubIngest, worker, ghosts
<1>16. Accounted'
  BY <1>15, HereFrame DEF HubIngest, worker
<1> QED
  BY <1>8, <1>9, <1>10, <1>11, <1>13, <1>14, <1>16, InvFrom

(* A step of the hub that stores nothing and lets go of no new run.         *)
LEMMA QuietHub ==
    ASSUME IInv, NEW s \in Sessions, NEW next, work' = [work EXCEPT ![s] = next],
           next \in [busy : BOOLEAN, new : SUBSET Ids, top : 0 .. MaxId, todo : SUBSET Jobs,
                     job : Jobs \cup {None}, row : 0 .. MaxId],
           next.busy = work[s].busy, next.new = work[s].new, next.todo \subseteq work[s].todo,
           StoreOK', UNCHANGED <<hist, worker, wire, known, stored, alerted, ghosts>>
    PROVE  IInv'
<1>1. WorkerOK' /\ OutboxOK' /\ PollsBehind'
  BY WorkerFrame DEF wire
<1>2. WireOK' /\ GhostOK'
  BY DEF IInv, TypeOK, WireOK, GhostOK, wire, ghosts
<1>3. HubOK'
  BY DEF IInv, TypeOK, HubOK
<1>4. \A r \in Sessions : /\ work'[r].busy = work[r].busy /\ work'[r].new = work[r].new
                          /\ work'[r].todo \subseteq work[r].todo
  BY DEF IInv, TypeOK, HubOK
<1>5. WorkTidy'
  BY <1>4 DEF IInv, WorkTidy, RunsOf
<1>6. NoRunUnreported'
  BY <1>4 DEF IInv, NoRunUnreported, ghosts
<1>7. Accounted'
  BY HereFrame DEF Here, worker, wire, ghosts
<1> QED
  BY <1>1, <1>2, <1>3, <1>5, <1>6, <1>7, InvFrom

LEMMA HubMarkStep ==
    ASSUME IInv, NEW s \in Sessions, HubMark(s)
    PROVE  IInv'
<1> DEFINE next == [work[s] EXCEPT !.top = 0]
<1>1. work[s] \in [busy : BOOLEAN, new : SUBSET Ids, top : 0 .. MaxId, todo : SUBSET Jobs,
                   job : Jobs \cup {None}, row : 0 .. MaxId]
  BY DEF IInv, TypeOK, HubOK
<1>2. /\ next \in [busy : BOOLEAN, new : SUBSET Ids, top : 0 .. MaxId, todo : SUBSET Jobs,
                   job : Jobs \cup {None}, row : 0 .. MaxId]
      /\ next.busy = work[s].busy /\ next.new = work[s].new /\ next.todo = work[s].todo
  BY Bounds, <1>1
<1>3. StoreOK'
  BY Bounds, <1>1 DEF IInv, TypeOK, StoreOK, HubMark, Larger
<1>4. work' = [work EXCEPT ![s] = next] /\ UNCHANGED <<hist, worker, wire, known, stored, alerted, ghosts>>
  BY DEF HubMark
<1> HIDE DEF next
<1> QED
  BY <1>2, <1>3, <1>4, QuietHub

LEMMA HubLatestStep ==
    ASSUME IInv, NEW s \in Sessions, HubLatest(s)
    PROVE  IInv'
<1>1. PICK j \in work[s].todo :
        work' = [work EXCEPT ![s].todo = @ \ {j}, ![s].job = j, ![s].row = Highest(RunsOf(j))]
  BY DEF HubLatest
<1> DEFINE next == [work[s] EXCEPT !.todo = @ \ {j}, !.job = j, !.row = Highest(RunsOf(j))]
<1>2. work[s] \in [busy : BOOLEAN, new : SUBSET Ids, top : 0 .. MaxId, todo : SUBSET Jobs,
                   job : Jobs \cup {None}, row : 0 .. MaxId]
  BY DEF IInv, TypeOK, HubOK
<1>3. Highest(RunsOf(j)) \in 0 .. MaxId
  <2>1. RunsOf(j) \in SUBSET Ids /\ RunsOf(j) # {}
    BY DEF IInv, TypeOK, StoreOK, WorkTidy, RunsOf
  <2>2. Highest(RunsOf(j)) \in Ids
    BY <2>1, HighestExists
  <2> QED
    BY Bounds, <2>2 DEF Ids
<1>4. /\ next \in [busy : BOOLEAN, new : SUBSET Ids, top : 0 .. MaxId, todo : SUBSET Jobs,
                   job : Jobs \cup {None}, row : 0 .. MaxId]
      /\ next.busy = work[s].busy /\ next.new = work[s].new /\ next.todo \subseteq work[s].todo
  BY <1>2, <1>3
<1>5. StoreOK'
  BY DEF IInv, TypeOK, StoreOK, HubLatest, store
<1>6. work' = [work EXCEPT ![s] = next]
  BY <1>1
<1>7. UNCHANGED <<hist, worker, wire, known, stored, alerted, ghosts>>
  BY DEF HubLatest, store
<1> HIDE DEF next
<1> QED
  BY <1>4, <1>5, <1>6, <1>7, QuietHub

LEMMA HubSummaryStep ==
    ASSUME IInv, NEW s \in Sessions, HubSummary(s)
    PROVE  IInv'
<1> DEFINE next == [work[s] EXCEPT !.job = None, !.row = 0]
<1>1. work[s] \in [busy : BOOLEAN, new : SUBSET Ids, top : 0 .. MaxId, todo : SUBSET Jobs,
                   job : Jobs \cup {None}, row : 0 .. MaxId]
  BY DEF IInv, TypeOK, HubOK
<1>2. /\ next \in [busy : BOOLEAN, new : SUBSET Ids, top : 0 .. MaxId, todo : SUBSET Jobs,
                   job : Jobs \cup {None}, row : 0 .. MaxId]
      /\ next.busy = work[s].busy /\ next.new = work[s].new /\ next.todo = work[s].todo
  <2>1. None \in Jobs \cup {None} /\ 0 \in 0 .. MaxId
    BY Bounds
  <2>2. DOMAIN work[s] = {"busy", "new", "top", "todo", "job", "row"}
    BY <1>1
  <2> QED
    BY <1>1, <2>1, <2>2
<1>3. StoreOK'
  BY <1>1 DEF IInv, TypeOK, StoreOK, HubSummary
<1>4. work' = [work EXCEPT ![s] = next] /\ UNCHANGED <<hist, worker, wire, known, stored, alerted, ghosts>>
  BY DEF HubSummary
<1> HIDE DEF next
<1> QED
  BY <1>2, <1>3, <1>4, QuietHub

(* The end of a batch: each new run is reported, or noted as not.           *)
LEMMA ToldStep ==
    ASSUME IInv, NEW s \in Sessions, NEW runs \in SUBSET Tellable(s), Told(s, runs)
    PROVE  IInv'
<1>1. Nothing \in [busy : BOOLEAN, new : SUBSET Ids, top : 0 .. MaxId, todo : SUBSET Jobs,
                   job : Jobs \cup {None}, row : 0 .. MaxId]
      /\ Nothing.new = {} /\ Nothing.todo = {}
  BY Bounds DEF Nothing
<1>2. work[s].new \subseteq Ids /\ runs \subseteq work[s].new
  BY DEF IInv, TypeOK, HubOK, Tellable
<1>3. /\ alerted' = alerted \cup runs
      /\ silent' = silent \cup (work[s].new \ runs)
      /\ work' = [work EXCEPT ![s] = Nothing]
      /\ UNCHANGED <<hist, worker, wire, known, stored, hubMark, jobRow, lastRun, crashes, lost>>
  BY DEF Told
<1>4. WorkerOK' /\ OutboxOK' /\ PollsBehind'
  BY <1>3, WorkerFrame DEF wire
<1>5. WireOK' /\ GhostOK' /\ StoreOK'
  BY <1>2, <1>3 DEF IInv, TypeOK, WireOK, GhostOK, StoreOK, wire
<1>6. HubOK'
  BY <1>1, <1>3 DEF IInv, TypeOK, HubOK
<1>7. /\ work'[s] = Nothing
      /\ \A r \in Sessions \ {s} : work'[r] = work[r]
  BY <1>3 DEF IInv, TypeOK, HubOK
<1>8. WorkTidy'
  BY <1>1, <1>3, <1>7 DEF IInv, WorkTidy, RunsOf
<1>9. NoRunUnreported'
  BY <1>2, <1>3, <1>7 DEF IInv, NoRunUnreported
<1>10. Accounted'
  BY <1>3, HereFrame DEF Here, worker, wire
<1> QED
  BY <1>4, <1>5, <1>6, <1>8, <1>9, <1>10, InvFrom

LEMMA JobAppearsStep ==
    ASSUME IInv, NEW j \in Jobs, JobAppears(j)
    PROVE  IInv'
<1>1. WorkerOK' /\ OutboxOK' /\ PollsBehind'
  BY WorkerFrame DEF JobAppears, wire
<1>2. WireOK' /\ GhostOK' /\ StoreOK' /\ HubOK'
  BY DEF IInv, TypeOK, WireOK, GhostOK, StoreOK, HubOK, JobAppears, wire, hub, ghosts
<1>3. WorkTidy'
  BY DEF IInv, WorkTidy, RunsOf, JobAppears, hub
<1>4. NoRunUnreported'
  BY DEF IInv, NoRunUnreported, JobAppears, hub, ghosts
<1>5. Accounted'
  BY HereFrame DEF Here, JobAppears, worker, wire, ghosts
<1> QED
  BY <1>1, <1>2, <1>3, <1>4, <1>5, InvFrom

-----------------------------------------------------------------------------
LEMMA StepOK == IInv /\ [Next]_vars => IInv'
<1> SUFFICES ASSUME IInv, [Next]_vars PROVE IInv'
  OBVIOUS
<1>1. CASE UNCHANGED vars
  <2>1. UNCHANGED <<hist, worker, wire, hub, store, ghosts>>
    BY <1>1 DEF vars
  <2>2. WorkerOK' /\ OutboxOK' /\ PollsBehind'
    BY <2>1, WorkerFrame DEF wire
  <2>3. WireOK' /\ GhostOK'
    BY <2>1 DEF IInv, TypeOK, WireOK, GhostOK, wire, ghosts
  <2>4. HubOK' /\ StoreOK' /\ WorkTidy' /\ NoRunUnreported'
    BY <2>1, ServerFrame DEF hub, ghosts
  <2>5. Accounted'
    BY <2>1, HereFrame DEF Here, worker, wire, store, ghosts
  <2> QED
    BY <2>2, <2>3, <2>4, <2>5, InvFrom
<1>2. CASE Run \/ StartMonitor \/ StartPolling \/ Beat \/ Disconnect \/ Crash
  BY <1>2, RunStep, StartMonitorStep, StartPollingStep, BeatStep, DisconnectStep, CrashStep
<1>3. ASSUME NEW s \in Sessions, Connect(s) PROVE IInv'
  BY <1>3, ConnectStep
<1>4. ASSUME NEW p \in Pollers, PollStep(p) \/ PollFail(p) \/ CrashInShip(p) PROVE IInv'
  BY <1>4, PollStartStep, PollReadStep, PollShipStep, PollFailStep, CrashInShipStep DEF PollStep
<1>5. ASSUME NEW s \in Sessions, HubStep(s) \/ HubSkip(s) \/ HubFail(s) PROVE IInv'
  <2>1. CASE HubNotify(s)
    BY <2>1, ToldStep DEF HubNotify
  <2>2. CASE HubFail(s)
    BY <2>2, ToldStep DEF HubFail
  <2> QED
    BY <1>5, <2>1, <2>2, HubBeatStep, HubSkipStep, HubIngestStep, HubMarkStep, HubLatestStep,
       HubSummaryStep DEF HubStep
<1>6. ASSUME NEW j \in Jobs, JobAppears(j) PROVE IInv'
  BY <1>6, JobAppearsStep
<1> QED
  BY <1>1, <1>2, <1>3, <1>4, <1>5, <1>6 DEF Next

(* The invariant holds in every behaviour of the worker and the hub.        *)
THEOREM TelemetryInductive == Spec => []IInv
BY InitOK, StepOK, PTL DEF Spec

(* Every variable keeps its shape: the outbox stays within maxRows by the   *)
(* cached depth alone, and no empty history batch is ever sent.             *)
THEOREM TelemetryTypeCorrect == Spec => []TypeOK
<1>1. IInv => TypeOK
  BY DEF IInv
<1> QED
  BY <1>1, TelemetryInductive, PTL

(* The bookmark never passes a row that is nowhere, for any overlap of      *)
(* polls and any crash.                                                     *)
THEOREM EveryRowAccounted == Spec => []Accounted
<1>1. IInv => Accounted
  BY DEF IInv
<1> QED
  BY <1>1, TelemetryInductive, PTL

(* Replays and late batches hide no run from the alerts.                    *)
THEOREM EveryRunReported == Spec => []NoRunUnreported
<1>1. IInv => NoRunUnreported
  BY DEF IInv
<1> QED
  BY <1>1, TelemetryInductive, PTL
=============================================================================
