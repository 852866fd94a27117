------------------------ MODULE DefinitionSyncProofs ------------------------
(***************************************************************************)
(* Proofs about DefinitionSync, for any number of jobs, definitions,       *)
(* commands and sessions, and any edits of a DBA.                          *)
(***************************************************************************)
EXTENDS DefinitionSync, SequenceTheorems, FiniteSetTheorems, WellFoundedInduction, TLAPS

-----------------------------------------------------------------------------
(* What the worker reads from msdb.                                         *)

LEMMA BlobType == ASSUME HostOK, NEW j \in Live PROVE Blob(j) \in Blobs /\ Blob(j).job = j
<1>1. msdb[j] \in HostRow
  BY DEF HostOK, Live
<1> QED
  BY <1>1 DEF Blob, Blobs, HostRow, Live

LEMMA ReadJobsType ==
    ASSUME HostOK
    PROVE  ReadJobs \in SUBSET Blobs /\ IsFiniteSet(ReadJobs) /\ IsFiniteSet(Live)
<1>1. IsFiniteSet(Live)
  BY SetsAssumption, FS_Subset DEF Live
<1>2. [j \in Live |-> Blob(j)] \in Surjection(Live, ReadJobs)
  BY DEF Surjection, ReadJobs
<1>3. IsFiniteSet(ReadJobs)
  BY <1>1, <1>2, FS_Surjection
<1>4. ReadJobs \in SUBSET Blobs
  BY BlobType DEF ReadJobs
<1> QED
  BY <1>1, <1>3, <1>4

LEMMA FingerprintType == ASSUME HostOK PROVE Fingerprint \in Fps
<1>1. Cardinality(Live) \in Nat
  BY ReadJobsType, FS_CardinalityType
<1>2. Newest \subseteq Nat
  <2>1. \A j \in Live : msdb[j].mod \in Nat
    BY DEF HostOK, Live, HostRow
  <2> QED
    BY <2>1 DEF Newest
<1> QED
  BY <1>1, <1>2 DEF Fingerprint, Fps

LEMMA HashesType == ASSUME HostOK PROVE Hashes \in [Jobs -> Defs \cup {None}]
<1> SUFFICES ASSUME NEW j \in Jobs PROVE Hashes[j] \in Defs \cup {None}
  BY DEF Hashes
<1>1. msdb[j] \in HostRow \cup {None}
  BY DEF HostOK
<1> QED
  BY <1>1 DEF Hashes, HostRow

-----------------------------------------------------------------------------
(* What it sends.                                                           *)

LEMMA OrdersAreSequences ==
    ASSUME NEW S, IsFiniteSet(S), NEW q \in Orders(S)
    PROVE  /\ q \in Seq(S) /\ DOMAIN q = 1..Len(q) /\ Len(q) \in Nat
           /\ \A x \in S : \E i \in 1..Len(q) : q[i] = x
<1> DEFINE n == Cardinality(S)
<1>1. n \in Nat
  BY FS_CardinalityType
<1>2. q \in [1..n -> S] /\ \A x \in S : \E i \in DOMAIN q : q[i] = x
  BY DEF Orders
<1> HIDE DEF n
<1>3. q \in Seq(S)
  BY <1>1, <1>2, SeqDef
<1>4. DOMAIN q = 1..Len(q) /\ Len(q) \in Nat
  BY <1>3, LenProperties
<1> QED
  BY <1>2, <1>3, <1>4

LEMMA ChunksAreMessages ==
    ASSUME NEW q \in Seq(Blobs)
    PROVE  /\ Chunks(q) \in Seq(Message) /\ Len(Chunks(q)) > 0
           /\ \A i \in 1..Len(Chunks(q)) :
                /\ Chunks(q)[i].kind = "chunk"
                /\ i < Len(Chunks(q)) => Chunks(q)[i].more = TRUE
                /\ i = Len(Chunks(q)) => Chunks(q)[i].more = FALSE
           /\ \A k \in 1..Len(q) : k \in 1..Len(Chunks(q)) /\ Chunks(q)[k].blobs = {q[k]}
<1>1. CASE q = <<>>
  <2>1. Chunks(q) = <<Chunk({}, FALSE)>> /\ Chunk({}, FALSE) \in Message
    BY <1>1 DEF Chunks, Chunk, Message
  <2>2. Len(q) = 0
    BY <1>1
  <2> QED
    BY <2>1, <2>2 DEF Chunk
<1>2. CASE q # <<>>
  <2>1. Len(q) \in Nat \ {0} /\ DOMAIN q = 1..Len(q)
    BY <1>2, EmptySeq, LenProperties
  <2>2. Chunks(q) = [i \in 1..Len(q) |-> Chunk({q[i]}, i < Len(q))]
    BY <1>2, <2>1 DEF Chunks
  <2>3. \A i \in 1..Len(q) : Chunk({q[i]}, i < Len(q)) \in Message
    <3> TAKE i \in 1..Len(q)
    <3>1. q[i] \in Blobs
      BY ElementOfSeq
    <3> QED
      BY <3>1 DEF Chunk, Message
  <2>4. Chunks(q) \in [1..Len(q) -> Message]
    BY <2>2, <2>3
  <2>5. Chunks(q) \in Seq(Message)
    BY <2>1, <2>4, SeqDef
  <2>6. Len(Chunks(q)) = Len(q)
    BY <2>1, <2>4, <2>5, LenProperties
  <2>7. \A i \in 1..Len(q) : Chunks(q)[i] = Chunk({q[i]}, i < Len(q))
    BY <2>2
  <2>8. \A i \in 1..Len(q) :
          /\ Chunks(q)[i].kind = "chunk" /\ Chunks(q)[i].blobs = {q[i]}
          /\ i < Len(q) => Chunks(q)[i].more = TRUE
          /\ i >= Len(q) => Chunks(q)[i].more = FALSE
    <3> TAKE i \in 1..Len(q)
    <3>1. CASE i < Len(q)
      <4>1. (i < Len(q)) = TRUE
        BY <3>1
      <4>2. Chunks(q)[i] = Chunk({q[i]}, TRUE)
        BY <2>7, <4>1, Zenon
      <4> QED
        BY <2>1, <3>1, <4>2 DEF Chunk
    <3>2. CASE i >= Len(q)
      <4>1. (i < Len(q)) = FALSE
        BY <2>1, <3>2
      <4>2. Chunks(q)[i] = Chunk({q[i]}, FALSE)
        BY <2>7, <4>1, Zenon
      <4> QED
        BY <2>1, <3>2, <4>2 DEF Chunk
    <3>3. i < Len(q) \/ i >= Len(q)
      BY <2>1
    <3> QED
      BY <3>1, <3>2, <3>3, Zenon
  <2>9. Len(Chunks(q)) > 0
    BY <2>1, <2>6
  <2>10. \A i \in 1..Len(Chunks(q)) :
           /\ Chunks(q)[i].kind = "chunk"
           /\ i < Len(Chunks(q)) => Chunks(q)[i].more = TRUE
           /\ i = Len(Chunks(q)) => Chunks(q)[i].more = FALSE
    <3> TAKE i \in 1..Len(Chunks(q))
    <3>1. i \in 1..Len(q) /\ (i = Len(Chunks(q)) => i = Len(q)) /\ (i < Len(Chunks(q)) => i < Len(q))
      BY <2>6, Zenon
    <3>2. i = Len(q) => i >= Len(q)
      BY <2>1
    <3> QED
      BY <2>8, <3>1, <3>2, Zenon
  <2>11. \A k \in 1..Len(q) : k \in 1..Len(Chunks(q)) /\ Chunks(q)[k].blobs = {q[k]}
    BY <2>6, <2>8
  <2> QED
    BY <2>5, <2>9, <2>10, <2>11, Zenon
<1> QED
  BY <1>1, <1>2

LEMMA SentMessages ==
    ASSUME NEW M, stream \in [Sessions -> Seq(M)], link \in Sessions \cup {None},
           NEW ms \in Seq(M), Emit(ms)
    PROVE  stream' \in [Sessions -> Seq(M)]
<1>1. CASE link = None
  BY <1>1 DEF Emit
<1>2. CASE link # None
  <2>1. stream[link] \o ms \in Seq(M)
    BY <1>2, ConcatProperties
  <2> QED
    BY <1>2, <2>1 DEF Emit
<1> QED
  BY <1>1, <1>2

LEMMA DeltaType ==
    ASSUME HostOK, pending \in [Jobs -> Commands \cup {None}], NEW q \in Orders(Changed)
    PROVE  [i \in DOMAIN q |-> Delta(q[i])] \in Seq(Message)
<1>1. IsFiniteSet(Changed) /\ Changed \in SUBSET Blobs
  BY ReadJobsType, FS_Subset DEF Changed
<1>2. q \in Seq(Changed) /\ DOMAIN q = 1..Len(q) /\ Len(q) \in Nat
  BY <1>1, OrdersAreSequences
<1>3. \A i \in 1..Len(q) : Delta(q[i]) \in Message
  <2> TAKE i \in 1..Len(q)
  <2>1. q[i] \in Blobs
    BY <1>1, <1>2, ElementOfSeq
  <2>2. q[i].job \in Jobs
    BY <2>1 DEF Blobs
  <2> QED
    BY <2>1, <2>2 DEF Delta, Message
<1>4. [i \in DOMAIN q |-> Delta(q[i])] \in [1..Len(q) -> Message]
  BY <1>2, <1>3
<1> QED
  BY <1>2, <1>4, SeqDef

-----------------------------------------------------------------------------
(* Type correctness.  What a snapshot has read is finite, so it has chunks. *)

Finite == \A p \in Snaps : IsFiniteSet(snap[p].jobs)
TInv == TypeOK /\ Finite

LEMMA TypeInit == Init => TInv
<1> SUFFICES ASSUME Init PROVE TInv
  OBVIOUS
<1> USE SetsAssumption, NamesAssumption DEF Init
<1>1. HostOK
  BY DEF HostOK, HostRow
<1>2. AgentOK
  BY DEF AgentOK, NoCommand
<1>3. WireOK
  BY EmptySeq DEF WireOK
<1>4. StoreOK
  BY EmptySeq DEF StoreOK, Nothing
<1>5. LockOK /\ Finite
  BY FS_EmptySet DEF LockOK, Finite, NoCommand, Snaps
<1> QED
  BY <1>1, <1>2, <1>3, <1>4, <1>5 DEF TInv, TypeOK

LEMMA Written ==
    ASSUME HostOK, NEW j \in Jobs, NEW d \in Defs, NEW who \in Commands \cup {"dba"},
           Write(j, d, who)
    PROVE  /\ msdb' \in [Jobs -> HostRow \cup {None}] /\ edits' \in Nat
           /\ blind' \subseteq {"moved", "refused"} /\ gone' \subseteq Jobs
<1>1. [def |-> d, by |-> who, mod |-> edits + 1] \in HostRow
  BY DEF HostOK, HostRow
<1> QED
  BY <1>1 DEF HostOK, Write, Moved

LEMMA Dropped ==
    ASSUME HostOK, NEW j \in Jobs, Drop(j)
    PROVE  /\ msdb' \in [Jobs -> HostRow \cup {None}] /\ edits' \in Nat
           /\ blind' \subseteq {"moved", "refused"} /\ gone' \subseteq Jobs
BY DEF HostOK, Drop, Moved

(* Steps that leave a part alone leave its shape alone.                     *)
LEMMA HostKept == HostOK /\ UNCHANGED <<sql, cmd, ghosts>> => HostOK'
BY DEF HostOK, sql, ghosts

LEMMA AgentKept == AgentOK /\ UNCHANGED <<cmd, memory, process, exec>> => AgentOK'
BY DEF AgentOK, memory, process

LEMMA LockKept == LockOK /\ Finite /\ UNCHANGED <<process, exec>> => LockOK' /\ Finite'
BY DEF LockOK, Finite, process

LEMMA WireKept == WireOK /\ UNCHANGED wire => WireOK'
BY DEF WireOK, wire

LEMMA StoreKept == StoreOK /\ UNCHANGED <<hub, store>> => StoreOK'
BY DEF StoreOK, hub, store

LEMMA TypeSql == TInv /\ SqlHost => TInv'
<1> SUFFICES ASSUME TInv, SqlHost PROVE TInv'
  OBVIOUS
<1> USE DEF TInv, TypeOK
<1>1. /\ HostOK'
      /\ UNCHANGED <<cmd, memory, process, exec, wire, hub, store, applied>>
  <2>1. ASSUME NEW j \in Jobs, DbaDrop(j) PROVE <1>1!1 /\ <1>1!2
    BY <2>1, Dropped DEF DbaDrop, HostOK
  <2>2. ASSUME NEW j \in Jobs, NEW d \in Defs, DbaWrite(j, d) PROVE <1>1!1 /\ <1>1!2
    BY <2>2, Written DEF DbaWrite, HostOK
  <2> QED
    BY <2>1, <2>2 DEF SqlHost
<1> QED
  BY <1>1, AgentKept, LockKept, WireKept, StoreKept

LEMMA TypeLink == TInv /\ (Disconnect \/ \E s \in Sessions : Connect(s)) => TInv'
<1> SUFFICES ASSUME TInv, Disconnect \/ \E s \in Sessions : Connect(s) PROVE TInv'
  OBVIOUS
<1> USE DEF TInv, TypeOK
<1>1. CASE Disconnect
  <2>1. link \in Sessions /\ stream[link] \in Seq(Message)
    BY <1>1 DEF Disconnect, WireOK
  <2>2. \A kept \in 0..Len(stream[link]) : SubSeq(stream[link], 1, kept) \in Seq(Message)
    <3> TAKE kept \in 0..Len(stream[link])
    <3>1. Len(stream[link]) \in Nat /\ \A i \in 1..kept : stream[link][i] \in Message
      BY <2>1, LenProperties, ElementOfSeq
    <3> QED
      BY <3>1, SubSeqProperties
  <2>3. WireOK'
    BY <1>1, <2>1, <2>2 DEF Disconnect, WireOK
  <2> QED
    BY <1>1, <2>3, HostKept, AgentKept, LockKept, StoreKept DEF Disconnect
<1>2. ASSUME NEW s \in Sessions, Connect(s) PROVE TInv'
  <2>1. /\ snap' \in [Snaps -> [pc : {"idle", "start", "read"}, jobs : SUBSET Blobs]]
        /\ snap'["poll"] = snap["poll"] /\ \A p \in Snaps : snap'[p].jobs = snap[p].jobs
    BY <1>2, NamesAssumption DEF Connect, AgentOK, Snaps
  <2>2. HostOK' /\ StoreOK'
    BY <1>2, HostKept, StoreKept DEF Connect
  <2>3. WireOK'
    BY <1>2 DEF Connect, WireOK
  <2>4. AgentOK'
    BY <1>2, <2>1 DEF Connect, AgentOK, memory
  <2>5. LockOK' /\ Finite'
    BY <1>2, <2>1 DEF Connect, LockOK, Finite
  <2> QED
    BY <2>2, <2>3, <2>4, <2>5
<1> QED
  BY <1>1, <1>2

LEMMA TypeSnapRead == ASSUME TInv, NEW p \in Snaps, SnapRead(p) PROVE TInv'
<1> USE DEF TInv, TypeOK
<1>1. HostOK' /\ StoreOK' /\ WireOK'
  BY StoreKept, WireKept DEF SnapRead, HostOK, sql
<1>2. /\ snap' \in [Snaps -> [pc : {"idle", "start", "read"}, jobs : SUBSET Blobs]]
      /\ \A r \in Snaps : snap'[r].jobs = IF r = p THEN ReadJobs ELSE snap[r].jobs
      /\ snap'["poll"].pc # "idle" => snap["poll"].pc # "idle"
  BY ReadJobsType DEF SnapRead, AgentOK, Snaps
<1>3. AgentOK'
  BY <1>2, HashesType DEF SnapRead, AgentOK
<1>4. LockOK' /\ Finite'
  BY <1>2, ReadJobsType DEF SnapRead, LockOK, Finite
<1> QED
  BY <1>1, <1>3, <1>4

LEMMA SnapshotMessages ==
    ASSUME TInv, NEW p \in Snaps, NEW q \in Orders(snap[p].jobs)
    PROVE  q \in Seq(Blobs) /\ Chunks(q) \in Seq(Message)
<1>1. IsFiniteSet(snap[p].jobs) /\ snap[p].jobs \in SUBSET Blobs
  BY DEF TInv, TypeOK, AgentOK, Finite
<1>2. q \in Seq(snap[p].jobs)
  BY <1>1, OrdersAreSequences
<1>3. q \in Seq(Blobs)
  BY <1>1, <1>2, SeqMonotonic
<1> QED
  BY <1>3, ChunksAreMessages

LEMMA SnapEnds ==
    ASSUME TInv, NEW p \in Snaps, snap[p].pc # "idle", SnapDone(p), UNCHANGED exec
    PROVE  /\ LockOK' /\ Finite'
           /\ snap' \in [Snaps -> [pc : {"idle", "start", "read"}, jobs : SUBSET Blobs]]
           /\ polling' \in BOOLEAN /\ lock' \in {"free", "poll", "command"}
           /\ pollFp' \in Fps \cup {None}
<1> USE DEF TInv, TypeOK
<1>1. /\ snap' \in [Snaps -> [pc : {"idle", "start", "read"}, jobs : SUBSET Blobs]]
      /\ \A r \in Snaps : snap'[r] = IF r = p THEN [pc |-> "idle", jobs |-> {}] ELSE snap[r]
  BY DEF SnapDone, AgentOK
<1>2. Finite'
  BY <1>1, FS_EmptySet DEF Finite
<1>3. /\ polling' \in BOOLEAN /\ lock' \in {"free", "poll", "command"}
      /\ pollFp' \in Fps \cup {None}
  BY DEF SnapDone, AgentOK
<1>4. LockOK'
  <2>1. CASE p = "poll"
    BY <1>1, <2>1 DEF SnapDone, LockOK
  <2>2. CASE p # "poll"
    BY <1>1, <2>2 DEF SnapDone, LockOK, Snaps
  <2> QED
    BY <2>1, <2>2
<1> QED
  BY <1>1, <1>2, <1>3, <1>4

LEMMA TypeSnapSend == ASSUME TInv, NEW p \in Snaps, SnapSend(p) PROVE TInv'
<1>1. LockOK' /\ Finite' /\ snap' \in [Snaps -> [pc : {"idle", "start", "read"}, jobs : SUBSET Blobs]]
      /\ polling' \in BOOLEAN /\ lock' \in {"free", "poll", "command"} /\ pollFp' \in Fps \cup {None}
  BY SnapEnds DEF SnapSend
<1> USE DEF TInv, TypeOK
<1>2. HostOK' /\ StoreOK'
  BY HostKept, StoreKept DEF SnapSend
<1>3. WireOK'
  <2>1. PICK q \in Orders(snap[p].jobs) : Emit(Chunks(q))
    BY DEF SnapSend
  <2> HIDE DEF TInv, TypeOK
  <2>2. Chunks(q) \in Seq(Message)
    BY SnapshotMessages
  <2>3. stream' \in [Sessions -> Seq(Message)]
    BY <2>1, <2>2, SentMessages DEF TInv, TypeOK, WireOK
  <2> QED
    BY <2>3 DEF SnapSend, WireOK, TInv, TypeOK
<1>4. AgentOK'
  BY <1>1, FingerprintType DEF SnapSend, AgentOK
<1> QED
  BY <1>1, <1>2, <1>3, <1>4

LEMMA TypeSnapFail == ASSUME TInv, NEW p \in Snaps, SnapFail(p) PROVE TInv'
<1>1. LockOK' /\ Finite' /\ snap' \in [Snaps -> [pc : {"idle", "start", "read"}, jobs : SUBSET Blobs]]
      /\ polling' \in BOOLEAN /\ lock' \in {"free", "poll", "command"} /\ pollFp' \in Fps \cup {None}
  BY SnapEnds DEF SnapFail
<1> USE DEF TInv, TypeOK
<1>2. HostOK' /\ StoreOK' /\ WireOK'
  BY HostKept, StoreKept, WireKept DEF SnapFail
<1>3. AgentOK'
  BY <1>1 DEF SnapFail, AgentOK, memory
<1> QED
  BY <1>1, <1>2, <1>3

LEMMA TypePoll == TInv /\ (PollSkip \/ PollStart \/ PollFail) => TInv'
<1> SUFFICES ASSUME TInv, PollSkip \/ PollStart \/ PollFail PROVE TInv'
  OBVIOUS
<1> USE DEF TInv, TypeOK
<1>1. HostOK' /\ StoreOK' /\ WireOK'
  BY HostKept, StoreKept, WireKept DEF PollSkip, PollStart, PollFail
<1>2. CASE PollSkip
  <2>1. AgentOK'
    BY <1>2 DEF PollSkip, Polled, NoCommand, AgentOK, memory, process
  <2>2. LockOK' /\ Finite'
    BY <1>2 DEF PollSkip, Polled, NoCommand, MayPoll, LockOK, Finite, process
  <2> QED
    BY <1>1, <2>1, <2>2
<1>3. CASE PollStart
  <2>1. AgentOK'
    BY <1>3, FingerprintType DEF PollStart, Polled, NoCommand, AgentOK, memory
  <2>2. LockOK' /\ Finite'
    BY <1>3, FingerprintType, NamesAssumption
    DEF PollStart, Polled, NoCommand, MayPoll, LockOK, Finite
  <2> QED
    BY <1>1, <2>1, <2>2
<1>4. CASE PollFail
  <2>1. AgentOK'
    BY <1>4 DEF PollFail, AgentOK, memory
  <2>2. LockOK' /\ Finite'
    BY <1>4 DEF PollFail, LockOK, Finite
  <2> QED
    BY <1>1, <2>1, <2>2
<1> QED
  BY <1>2, <1>3, <1>4

LEMMA TypePollRead == ASSUME TInv, PollRead PROVE TInv'
<1> USE DEF TInv, TypeOK
<1>1. HostOK' /\ StoreOK'
  BY StoreKept DEF PollRead, HostOK, sql
<1>2. WireOK'
  <2>1. PICK q \in Orders(Changed) : Emit([i \in DOMAIN q |-> Delta(q[i])])
    BY DEF PollRead
  <2>2. [i \in DOMAIN q |-> Delta(q[i])] \in Seq(Message)
    BY DeltaType DEF AgentOK
  <2>3. stream' \in [Sessions -> Seq(Message)]
    BY <2>1, <2>2, SentMessages DEF WireOK
  <2> QED
    BY <2>3 DEF PollRead, WireOK
<1>3. /\ cache' \in [Jobs -> Defs \cup {None}] /\ pending' \in [Jobs -> Commands \cup {None}]
  <2> DEFINE sent == IF link = None THEN {} ELSE {b.job : b \in Changed}
  <2>1. /\ cache' = [j \in Jobs |-> IF j \in sent THEN msdb[j].def ELSE cache[j]]
        /\ pending' = [j \in Jobs |-> IF j \in sent THEN None ELSE pending[j]]
    BY DEF PollRead
  <2>2. \A j \in Jobs : j \in sent => msdb[j].def \in Defs
    <3>1. \A b \in Changed : b.job \in Live
      BY DEF Changed, ReadJobs, Blob
    <3> QED
      BY <3>1 DEF HostOK, Live, HostRow
  <2> QED
    BY <2>1, <2>2 DEF AgentOK
<1>4. /\ lastFp' \in Fps \cup {None} /\ pollFp' \in Fps \cup {None}
      /\ lock' \in {"free", "poll", "command"}
      /\ snap' \in [Snaps -> [pc : {"idle", "start", "read"}, jobs : SUBSET Blobs]]
      /\ \A p \in Snaps : snap'[p].jobs = snap[p].jobs
      /\ LockOK'
  BY DEF PollRead, AgentOK, LockOK, Snaps
<1>5. AgentOK' /\ Finite'
  BY <1>3, <1>4 DEF PollRead, AgentOK, Finite
<1> QED
  BY <1>1, <1>2, <1>4, <1>5

LEMMA TypeOperator == TInv /\ Operator => TInv'
<1> SUFFICES ASSUME TInv, Operator PROVE TInv'
  OBVIOUS
<1> USE DEF TInv, TypeOK
<1>1. ASSUME NEW j \in Jobs, AcknowledgeDrift(j) PROVE TInv'
  <2>1. jobs' \in [Jobs -> JobRow \cup {None}]
    BY <1>1 DEF AcknowledgeDrift, StoreOK, JobRow
  <2>2. StoreOK'
    BY <1>1, <2>1 DEF AcknowledgeDrift, StoreOK, hub
  <2> QED
    BY <1>1, <2>2, HostKept, AgentKept, LockKept, WireKept DEF AcknowledgeDrift
<1>2. ASSUME NEW c \in Commands, NEW row \in CmdRow, cmd' = [cmd EXCEPT ![c] = row],
             UNCHANGED <<sql, memory, process, exec, wire, hub, store, ghosts>>
      PROVE  TInv'
  <2>1. HostOK'
    BY <1>2 DEF HostOK, sql, ghosts
  <2>2. AgentOK'
    BY <1>2, NamesAssumption DEF AgentOK, HostOK, memory, process
  <2> QED
    BY <1>2, <2>1, <2>2, LockKept, WireKept, StoreKept
<1>3. ASSUME NEW c \in Commands, NEW d \in Defs, IssueNew(c, d) PROVE TInv'
  BY <1>2, <1>3 DEF IssueNew, CmdRow
<1>4. ASSUME NEW c \in Commands, NEW d \in Defs, NEW j \in Jobs, NEW kind \in Kinds,
             NEW allow \in BOOLEAN, Issue(c, j, kind, d, allow)
      PROVE  TInv'
  <2>1. PICK base \in BaseHash(j, allow) :
          cmd' = [cmd EXCEPT ![c] = [job |-> j, kind |-> kind, def |-> d, base |-> base,
                                     force |-> allow /\ kind = "upsert", todo |-> TRUE]]
    BY <1>4 DEF Issue
  <2>2. base \in Defs \cup {None}
    <3>1. jobs[j] \in JobRow
      BY <1>4 DEF Issue, StoreOK
    <3> QED
      BY <3>1 DEF BaseHash, JobRow
  <2>3. [job |-> j, kind |-> kind, def |-> d, base |-> base,
         force |-> allow /\ kind = "upsert", todo |-> TRUE] \in CmdRow
    BY <2>2, SetsAssumption DEF CmdRow
  <2> QED
    BY <1>2, <1>4, <2>1, <2>3 DEF Issue
<1> QED
  BY <1>1, <1>3, <1>4 DEF Operator

LEMMA ResultType ==
    ASSUME TInv, exec.pc # "idle", NEW ok \in BOOLEAN, NEW blobs \in SUBSET Blobs
    PROVE  <<Result(ok, blobs)>> \in Seq(Message)
<1>1. exec.cmd \in Commands
  BY DEF TInv, TypeOK, AgentOK
<1> QED
  BY <1>1 DEF Result, Message

LEMMA ReadBlobJob == \A b \in ReadJobBlob : b.job = exec.job
BY DEF ReadJobBlob, Blob

LEMMA ReadBlobType == ASSUME TInv PROVE ReadJobBlob \in SUBSET Blobs
<1> USE DEF TInv, TypeOK
<1>1. CASE Exists
  <2>1. exec.job \in Live
    BY <1>1 DEF Exists, Live, AgentOK
  <2> QED
    BY <1>1, <2>1, BlobType DEF ReadJobBlob
<1>2. CASE ~Exists
  BY <1>2 DEF ReadJobBlob
<1> QED
  BY <1>1, <1>2

LEMMA TypeFinish ==
    ASSUME TInv, exec.pc \in {"check", "write", "read"}, NEW ok \in BOOLEAN,
           NEW blobs \in SUBSET Blobs, ok /\ blobs # {} => exec.job \in Jobs, Finish(ok, blobs)
    PROVE  TInv'
<1> USE DEF TInv, TypeOK
<1>1. HostOK' /\ StoreOK'
  BY HostKept, StoreKept DEF Finish
<1>2. WireOK'
  <2>1. stream' \in [Sessions -> Seq(Message)]
    BY ResultType, SentMessages DEF Finish, WireOK
  <2> QED
    BY <2>1 DEF Finish, WireOK
<1>3. pending' \in [Jobs -> Commands \cup {None}]
  BY DEF Finish, NoteApplied, Noted, AgentOK
<1>4. AgentOK'
  BY <1>3 DEF Finish, AgentOK
<1>5. LockOK' /\ Finite'
  BY DEF Finish, LockOK, Finite, AgentOK
<1> QED
  BY <1>1, <1>2, <1>4, <1>5

LEMMA TypeExec ==
    ASSUME TInv, NEW pc \in {"write", "read"}, NEW j \in Jobs \cup {None},
           exec.pc \in {"check", "write", "read"}, exec' = [exec EXCEPT !.pc = pc, !.job = j],
           HostOK', UNCHANGED <<cmd, memory, process, wire, hub, store>>
    PROVE  TInv'
<1> USE DEF TInv, TypeOK
<1>1. AgentOK'
  BY DEF AgentOK, memory, process
<1>2. LockOK' /\ Finite'
  BY DEF AgentOK, LockOK, Finite, process
<1> QED
  BY <1>1, <1>2, WireKept, StoreKept

LEMMA TypeCommand == TInv /\ Command => TInv'
<1> SUFFICES ASSUME TInv, Command PROVE TInv'
  OBVIOUS
<1> DEFINE Shape == exec \in [pc : {"idle", "check", "write", "read", "repoll"},
                              cmd : Commands \cup {None}, job : Jobs \cup {None}]
<1>s. Shape
  BY DEF TInv, TypeOK, AgentOK
<1>1. ASSUME NEW c \in Commands, CmdStart(c) PROVE TInv'
  <2> USE DEF TInv, TypeOK
  <2>1. cmd[c] \in CmdRow
    BY <1>1 DEF CmdStart, HostOK
  <2>2. [cmd[c] EXCEPT !.todo = FALSE] \in CmdRow /\ cmd[c].job \in Jobs \cup {None}
    BY <2>1 DEF CmdRow
  <2>3. HostOK'
    BY <1>1, <2>2 DEF CmdStart, HostOK, sql, ghosts
  <2>4. AgentOK'
    BY <1>1, <2>2, NamesAssumption DEF CmdStart, AgentOK, HostOK, memory
  <2>5. LockOK' /\ Finite'
    BY <1>1 DEF CmdStart, LockOK, Finite
  <2> QED
    BY <1>1, <2>3, <2>4, <2>5, WireKept, StoreKept DEF CmdStart
<1>2. CASE CheckPassed
  <2>1. exec' = [exec EXCEPT !.pc = "write", !.job = exec.job]
    BY <1>2, <1>s DEF CheckPassed
  <2>2. HostOK'
    BY <1>2, HostKept DEF CheckPassed, TInv, TypeOK
  <2> QED
    BY <1>2, <1>s, <2>1, <2>2, TypeExec DEF CheckPassed
<1>3. CASE CheckRefused
  BY <1>3, ReadBlobType, TypeFinish DEF CheckRefused
<1>4. ASSUME NEW j \in Jobs, CmdDone(j), exec.pc = "write",
             \/ \E k \in Jobs : Drop(k)
             \/ \E k \in Jobs, d \in Defs : Write(k, d, exec.cmd)
      PROVE  TInv'
  <2>1. exec.cmd \in Commands
    BY <1>4 DEF TInv, TypeOK, AgentOK
  <2>2. /\ msdb' \in [Jobs -> HostRow \cup {None}] /\ edits' \in Nat
        /\ blind' \subseteq {"moved", "refused"} /\ gone' \subseteq Jobs
    BY <1>4, <2>1, Written, Dropped DEF TInv, TypeOK
  <2>3. HostOK'
    BY <1>4, <2>1, <2>2 DEF CmdDone, HostOK, TInv, TypeOK
  <2> QED
    BY <1>4, <2>3, TypeExec DEF CmdDone
<1>5. CASE CmdUpdate
  <2>1. exec.job \in Jobs
    BY <1>5, <1>s DEF CmdUpdate, Exists
  <2> QED
    BY <1>4, <1>5, <2>1 DEF CmdUpdate
<1>6. CASE CmdAdd
  <2>1. Order.def \in Defs
    BY <1>6 DEF CmdAdd, Order, TInv, TypeOK, HostOK, AgentOK, CmdRow
  <2> QED
    BY <1>4, <1>6, <2>1 DEF CmdAdd
<1>7. CASE CmdDelete
  <2>1. exec.job \in Jobs
    BY <1>7, <1>s DEF CmdDelete, Exists
  <2> QED
    BY <1>4, <1>7, <2>1 DEF CmdDelete
<1>8. CASE CmdRefused
  BY <1>8, TypeFinish DEF CmdRefused
<1>9. CASE CmdRead
  <2>1. ReadJobBlob # {} => exec.job \in Jobs
    BY <1>s DEF ReadJobBlob, Exists
  <2> QED
    BY <1>9, <2>1, ReadBlobType, TypeFinish DEF CmdRead
<1>10. CASE CmdThrows
  <2> USE DEF TInv, TypeOK
  <2>1. AgentOK'
    BY <1>10 DEF CmdThrows, NoCommand, AgentOK, memory
  <2>2. LockOK' /\ Finite'
    BY <1>10 DEF CmdThrows, NoCommand, LockOK, Finite
  <2> QED
    BY <1>10, <2>1, <2>2, HostKept, WireKept, StoreKept DEF CmdThrows
<1> QED
  BY <1>1, <1>2, <1>3, <1>5, <1>6, <1>7, <1>8, <1>9, <1>10 DEF Command

(* What a session's queue starts with, and what is left without it.         *)
LEMMA Received ==
    ASSUME TInv, NEW s \in Sessions, stream[s] # <<>>
    PROVE  Head(stream[s]) \in Message /\ Tail(stream[s]) \in Seq(Message)
BY HeadTailProperties DEF TInv, TypeOK, WireOK

LEMMA TypeReceive == ASSUME TInv, NEW s \in Sessions, HubReceive(s) PROVE TInv'
<1> USE DEF TInv, TypeOK
<1>1. stream[s] # <<>>
  BY DEF HubReceive, HubChunk, HubDelta, HubResult
<1>2. WireOK'
  BY <1>1, Received DEF HubReceive, WireOK
<1> DEFINE m == Head(stream[s])
<1>3. m \in Message
  BY <1>1, Received
<1>4. acc' \in [Sessions -> SUBSET Blobs] /\ stalled' \in Nat
      /\ work' \in [Sessions -> [recs : SUBSET Item, seen : (SUBSET Jobs) \cup {None},
                                  new : Item \cup {None}]]
  <2>1. CASE HubChunk(s)
    <3>1. m.blobs \in SUBSET Blobs
      BY <1>3, <2>1 DEF HubChunk, Message
    <3>2. PICK swept \in BOOLEAN :
            LET all == (IF swept THEN {} ELSE acc[s]) \cup m.blobs
            IN  /\ stalled' = IF swept THEN stalled + 1 ELSE stalled
                /\ IF Complete(m)
                   THEN /\ acc' = [acc EXCEPT ![s] = {}]
                        /\ work' = [work EXCEPT ![s] = [recs |-> {Record(b, "local", None) : b \in all},
                                                        seen |-> {b.job : b \in all}, new |-> None]]
                   ELSE acc' = [acc EXCEPT ![s] = all] /\ work' = work
      BY <2>1 DEF HubChunk
    <3> DEFINE all == (IF swept THEN {} ELSE acc[s]) \cup m.blobs
    <3>3. all \in SUBSET Blobs
      BY <3>1 DEF StoreOK
    <3>4. {Record(b, "local", None) : b \in all} \in SUBSET Item /\ {b.job : b \in all} \in SUBSET Jobs
      <4>1. \A b \in all : Record(b, "local", None) \in Item /\ b.job \in Jobs
        BY <3>3 DEF Record, Item, Blobs
      <4> QED
        BY <4>1
    <3> DEFINE item == [recs |-> {Record(b, "local", None) : b \in all},
                        seen |-> {b.job : b \in all}, new |-> None]
    <3>5. item \in [recs : SUBSET Item, seen : (SUBSET Jobs) \cup {None}, new : Item \cup {None}]
      BY <3>4
    <3>6. /\ stalled' = IF swept THEN stalled + 1 ELSE stalled
          /\ \/ acc' = [acc EXCEPT ![s] = {}] /\ work' = [work EXCEPT ![s] = item]
             \/ acc' = [acc EXCEPT ![s] = all] /\ work' = work
      BY <3>2
    <3> HIDE DEF m, all, item
    <3>7. stalled' \in Nat
      BY <3>6 DEF StoreOK
    <3>8. acc' \in [Sessions -> SUBSET Blobs]
      BY <3>3, <3>6 DEF StoreOK
    <3>9. work' \in [Sessions -> [recs : SUBSET Item, seen : (SUBSET Jobs) \cup {None},
                                 new : Item \cup {None}]]
      BY <3>5, <3>6 DEF StoreOK
    <3> QED
      BY <3>7, <3>8, <3>9
  <2>2. CASE HubDelta(s)
    <3>1. Record(m.blob, IF m.cmd = None THEN "local" ELSE "remote", m.cmd) \in Item
      BY <1>3, <2>2 DEF HubDelta, Message, Record, Item
    <3>2. /\ UNCHANGED <<acc, stalled>>
          /\ work' = [work EXCEPT ![s].recs =
                        {Record(m.blob, IF m.cmd = None THEN "local" ELSE "remote", m.cmd)}]
      BY <2>2 DEF HubDelta
    <3> HIDE DEF m
    <3> QED
      BY <3>1, <3>2 DEF StoreOK
  <2>3. CASE HubResult(s)
    <3> DEFINE recs == {Record(b, IF m.ok THEN "remote" ELSE "local",
                               IF m.ok THEN m.cmd ELSE None) : b \in m.blobs}
    <3>1. recs \in SUBSET Item
      BY <1>3, <2>3 DEF HubResult, Message, Record, Item
    <3>2. UNCHANGED <<acc, stalled>> /\ work' = [work EXCEPT ![s].recs = recs]
      BY <2>3 DEF HubResult
    <3> HIDE DEF recs
    <3> QED
      BY <3>1, <3>2 DEF StoreOK
  <2> QED
    BY <2>1, <2>2, <2>3 DEF HubReceive
<1>5. StoreOK'
  BY <1>4 DEF HubReceive, StoreOK, store
<1> QED
  BY <1>2, <1>5, HostKept, AgentKept, LockKept DEF HubReceive

(* The version transaction writes one row and perhaps one version.          *)
LEMMA Stored ==
    ASSUME TInv, NEW r \in Item, Store(r)
    PROVE  jobs' \in [Jobs -> JobRow \cup {None}] /\ versions' \in [Jobs -> Seq(Version)]
<1> DEFINE j == r.blob.job
<1>1. /\ j \in Jobs /\ r.blob.def \in Defs /\ r.blob.by \in Commands \cup {"dba"}
      /\ r.origin \in {"local", "remote"} /\ r.cmd \in Commands \cup {None}
  BY DEF Item, Blobs
<1>2. versions[j] \in Seq(Version) /\ Len(versions[j]) \in Nat
  BY <1>1, LenProperties DEF TInv, TypeOK, StoreOK
<1>3. CASE Unchanged(j, r.blob)
  <2>1. [jobs[j] EXCEPT !.deleted = FALSE] \in JobRow
    BY <1>1, <1>3 DEF Unchanged, TInv, TypeOK, StoreOK, JobRow
  <2>2. jobs' = [jobs EXCEPT ![j] = [jobs[j] EXCEPT !.deleted = FALSE]] /\ versions' = versions
    BY <1>3 DEF Store
  <2> QED
    BY <2>1, <2>2 DEF TInv, TypeOK, StoreOK
<1>4. CASE ~Unchanged(j, r.blob)
  <2> DEFINE v == [def |-> r.blob.def, by |-> r.blob.by, origin |-> Origin(j, r), cmd |-> r.cmd]
             row == [def |-> r.blob.def, no |-> Len(versions[j]) + 1,
                     drift |-> Origin(j, r) = "local", deleted |-> FALSE]
  <2>1. jobs' = [jobs EXCEPT ![j] = row] /\ versions' = [versions EXCEPT ![j] = Append(@, v)]
    BY <1>4 DEF Store
  <2>2. v \in Version /\ row \in JobRow
    BY <1>1, <1>2 DEF Origin, Version, JobRow
  <2>3. Append(versions[j], v) \in Seq(Version)
    BY <1>2, <2>2, AppendProperties
  <2> HIDE DEF v, row
  <2> QED
    BY <2>1, <2>2, <2>3 DEF TInv, TypeOK, StoreOK
<1> QED
  BY <1>3, <1>4

LEMMA TypeHub == ASSUME TInv, NEW s \in Sessions, HubStep(s) PROVE TInv'
<1>w. /\ work[s].recs \in SUBSET Item /\ work[s].new \in Item \cup {None}
      /\ work \in [Sessions -> [recs : SUBSET Item, seen : (SUBSET Jobs) \cup {None},
                                 new : Item \cup {None}]]
  BY DEF TInv, TypeOK, StoreOK
<1>1. ASSUME UNCHANGED <<sql, cmd, memory, process, exec, wire, acc, stalled, ghosts>>,
             jobs' \in [Jobs -> JobRow \cup {None}], versions' \in [Jobs -> Seq(Version)],
             work' \in [Sessions -> [recs : SUBSET Item, seen : (SUBSET Jobs) \cup {None},
                                     new : Item \cup {None}]]
      PROVE  TInv'
  BY <1>1, HostKept, AgentKept, LockKept, WireKept DEF TInv, TypeOK, StoreOK
<1>2. CASE HubReceive(s)
  BY <1>2, TypeReceive
<1>3. CASE HubRecord(s)
  <2>1. PICK r \in work[s].recs : Store(r) /\ work' = [work EXCEPT ![s].recs = @ \ {r}]
    BY <1>3 DEF HubRecord
  <2>2. jobs' \in [Jobs -> JobRow \cup {None}] /\ versions' \in [Jobs -> Seq(Version)]
    BY <1>w, <2>1, Stored
  <2>3. work' \in [Sessions -> [recs : SUBSET Item, seen : (SUBSET Jobs) \cup {None},
                               new : Item \cup {None}]]
    <3>1. work[s].recs \ {r} \in SUBSET Item
      BY <1>w
    <3> QED
      BY <1>w, <2>1, <3>1
  <2> QED
    BY <1>1, <1>3, <2>2, <2>3 DEF HubRecord
<1>4. CASE HubSelectNone(s)
  <2>1. PICK r \in work[s].recs : work' = [work EXCEPT ![s].new = r, ![s].recs = @ \ {r}]
    BY <1>4 DEF HubSelectNone
  <2>2. work' \in [Sessions -> [recs : SUBSET Item, seen : (SUBSET Jobs) \cup {None},
                               new : Item \cup {None}]]
    <3>1. work[s].recs \ {r} \in SUBSET Item /\ r \in Item
      BY <1>w, <2>1
    <3> QED
      BY <1>w, <2>1, <3>1
  <2>3. jobs' \in [Jobs -> JobRow \cup {None}] /\ versions' \in [Jobs -> Seq(Version)]
    BY <1>4 DEF HubSelectNone, store, TInv, TypeOK, StoreOK
  <2> QED
    BY <1>1, <1>4, <2>2, <2>3 DEF HubSelectNone
<1>5. CASE HubInsert(s)
  <2>1. work[s].new \in Item
    BY <1>5, <1>w DEF HubInsert
  <2>2. jobs' \in [Jobs -> JobRow \cup {None}] /\ versions' \in [Jobs -> Seq(Version)]
    BY <1>5, <2>1, Stored DEF HubInsert, store, TInv, TypeOK, StoreOK
  <2>3. work' \in [Sessions -> [recs : SUBSET Item, seen : (SUBSET Jobs) \cup {None},
                               new : Item \cup {None}]]
    BY <1>5, <1>w DEF HubInsert, Nothing
  <2> QED
    BY <1>1, <1>5, <2>2, <2>3 DEF HubInsert
<1>6. CASE HubReconcile(s)
  <2>1. jobs' \in [Jobs -> JobRow \cup {None}]
    BY <1>6 DEF HubReconcile, TInv, TypeOK, StoreOK, JobRow
  <2> QED
    BY <1>1, <1>6, <1>w, <2>1 DEF HubReconcile, Nothing, TInv, TypeOK, StoreOK
<1> QED
  BY <1>2, <1>3, <1>4, <1>5, <1>6 DEF HubStep

LEMMA TypeStep == TInv /\ [Next]_vars => TInv'
<1> SUFFICES ASSUME TInv, [Next]_vars PROVE TInv'
  OBVIOUS
<1>1. CASE UNCHANGED vars
  <2>1. UNCHANGED <<sql, cmd, memory, process, exec, wire, hub, store, ghosts>>
    BY <1>1 DEF vars
  <2> QED
    BY <2>1, HostKept, AgentKept, LockKept, WireKept, StoreKept DEF TInv, TypeOK
<1>2. CASE Next
  BY <1>2, TypeSql, TypeLink, TypeSnapRead, TypeSnapSend, TypeSnapFail, TypePoll, TypePollRead,
     TypeCommand, TypeOperator, TypeHub
  DEF Next, Snapshot
<1> QED
  BY <1>1, <1>2

(* The worker's memory, both ends of every stream and the tables keep their *)
(* shape, and #exclusive admits one process at a time.                      *)
THEOREM SyncTypeCorrect == Spec => []TypeOK
<1>1. Spec => []TInv
  BY TypeInit, TypeStep, PTL DEF Spec
<1> QED
  BY <1>1, PTL DEF TInv

-----------------------------------------------------------------------------
(* The timeline.                                                            *)

(* The timeline of one job.                                                 *)
Line(row, q) ==
    /\ row = None <=> q = <<>>
    /\ row # None => row.no = Len(q) /\ row.def = q[Len(q)].def
    /\ \A i \in 1..Len(q) - 1 : q[i].def # q[i + 1].def

LEMMA Lines == Timeline <=> \A j \in Jobs : Line(jobs[j], versions[j])
BY DEF Timeline, Line

LEMMA TimelineStored == ASSUME TInv, Timeline, NEW r \in Item, Store(r) PROVE Timeline'
<1> DEFINE j == r.blob.job
<1>1. j \in Jobs /\ r.blob.def \in Defs /\ r.blob.by \in Commands \cup {"dba"}
      /\ r.origin \in {"local", "remote"} /\ r.cmd \in Commands \cup {None}
  BY DEF Item, Blobs
<1>2. /\ jobs \in [Jobs -> JobRow \cup {None}] /\ versions \in [Jobs -> Seq(Version)]
      /\ Len(versions[j]) \in Nat
  BY <1>1, LenProperties DEF TInv, TypeOK, StoreOK
<1>3. CASE Unchanged(j, r.blob)
  <2>1. jobs' = [jobs EXCEPT ![j] = [jobs[j] EXCEPT !.deleted = FALSE]] /\ versions' = versions
    BY <1>3 DEF Store
  <2>2. /\ [jobs[j] EXCEPT !.deleted = FALSE] \in JobRow /\ jobs[j] # None
        /\ [jobs[j] EXCEPT !.deleted = FALSE].no = jobs[j].no
        /\ [jobs[j] EXCEPT !.deleted = FALSE].def = jobs[j].def
    BY <1>1, <1>2, <1>3 DEF Unchanged, JobRow
  <2>3. /\ jobs'[j] # None /\ jobs'[j].no = jobs[j].no /\ jobs'[j].def = jobs[j].def
        /\ \A k \in Jobs \ {j} : jobs'[k] = jobs[k]
    BY <1>1, <1>2, <2>1, <2>2, NamesAssumption
  <2> HIDE DEF j
  <2> QED
    BY <2>1, <2>2, <2>3 DEF Timeline
<1>4. CASE ~Unchanged(j, r.blob)
  <2> DEFINE v == [def |-> r.blob.def, by |-> r.blob.by, origin |-> Origin(j, r), cmd |-> r.cmd]
             row == [def |-> r.blob.def, no |-> Len(versions[j]) + 1,
                     drift |-> Origin(j, r) = "local", deleted |-> FALSE]
             q == versions[j]
  <2>1. jobs' = [jobs EXCEPT ![j] = row] /\ versions' = [versions EXCEPT ![j] = Append(@, v)]
    BY <1>4 DEF Store
  <2>2. v \in Version /\ row \in JobRow /\ row.def = v.def /\ row.no = Len(q) + 1 /\ v.def = r.blob.def
    BY <1>1, <1>2 DEF Origin, Version, JobRow
  <2>3. q \in Seq(Version) /\ Len(q) \in Nat
    BY <1>1, <1>2
  <2>4. /\ Append(q, v) # <<>> /\ Len(Append(q, v)) = Len(q) + 1
        /\ \A i \in 1..Len(q) : Append(q, v)[i] = q[i]
        /\ Append(q, v)[Len(q) + 1] = v
    BY <2>2, <2>3, AppendProperties
  <2>5. Len(q) > 0 => q[Len(q)].def # v.def
    <3> SUFFICES ASSUME Len(q) > 0 PROVE q[Len(q)].def # v.def
      OBVIOUS
    <3>1. q # <<>>
      BY EmptySeq
    <3>2. jobs[j] # None /\ jobs[j].def = q[Len(q)].def
      BY <1>1, <3>1 DEF Timeline
    <3> QED
      BY <1>4, <2>2, <3>2 DEF Unchanged
  <2>6. \A i \in 1..Len(q) - 1 : q[i].def # q[i + 1].def
    BY <1>1 DEF Timeline
  <2>7. jobs'[j] = row /\ versions'[j] = Append(q, v) /\ row # None
        /\ \A k \in Jobs \ {j} : jobs'[k] = jobs[k] /\ versions'[k] = versions[k]
    BY <1>1, <1>2, <2>1, <2>2, NamesAssumption
  <2>8. \A i \in 1..Len(Append(q, v)) - 1 : Append(q, v)[i].def # Append(q, v)[i + 1].def
    <3> TAKE i \in 1..Len(Append(q, v)) - 1
    <3>1. CASE i < Len(q)
      <4>1. i \in 1..Len(q) - 1 /\ i \in 1..Len(q) /\ i + 1 \in 1..Len(q)
        BY <2>3, <2>4, <3>1
      <4> HIDE DEF q, v
      <4> QED
        BY <2>4, <2>6, <4>1
    <3>2. CASE i = Len(q)
      <4>1. Len(q) > 0 /\ i \in 1..Len(q)
        BY <2>3, <3>2
      <4> HIDE DEF q, v
      <4> QED
        BY <2>4, <2>5, <3>2, <4>1
    <3> HIDE DEF q, v
    <3> QED
      BY <2>3, <2>4, <3>1, <3>2
  <2>9. row.no = Len(Append(q, v)) /\ row.def = Append(q, v)[Len(Append(q, v))].def
    BY <2>2, <2>4
  <2> HIDE DEF j, q, v, row
  <2>10. Line(row, Append(q, v))
    BY <2>4, <2>7, <2>8, <2>9 DEF Line
  <2>11. \A k \in Jobs : Line(jobs'[k], versions'[k])
    BY <2>7, <2>10, Lines
  <2> QED
    BY <2>11 DEF Timeline, Line
<1> QED
  BY <1>3, <1>4

LEMMA TimelineStep == TInv /\ Timeline /\ [Next]_vars => Timeline'
<1> SUFFICES ASSUME TInv, Timeline, [Next]_vars PROVE Timeline'
  OBVIOUS
<1>1. ASSUME UNCHANGED store PROVE Timeline'
  BY <1>1 DEF Timeline, store
<1>2. ASSUME UNCHANGED versions, jobs' \in [Jobs -> JobRow \cup {None}],
             \A j \in Jobs :
               /\ jobs'[j] = None <=> jobs[j] = None
               /\ jobs[j] # None => jobs'[j].def = jobs[j].def /\ jobs'[j].no = jobs[j].no
      PROVE  Timeline'
  <2>1. ASSUME NEW j \in Jobs PROVE Line(jobs'[j], versions'[j])
    <3>1. Line(jobs[j], versions[j])
      BY Lines
    <3>2. versions'[j] = versions[j]
      BY <1>2
    <3> QED
      BY <1>2, <3>1, <3>2 DEF Line
  <2> QED
    BY <2>1 DEF Timeline, Line
<1>3. ASSUME NEW s \in Sessions, HubStep(s) PROVE Timeline'
  <2>w. work[s].recs \in SUBSET Item /\ work[s].new \in Item \cup {None}
    BY DEF TInv, TypeOK, StoreOK
  <2>1. CASE HubReceive(s) \/ HubSelectNone(s)
    BY <1>1, <2>1 DEF HubReceive, HubSelectNone
  <2>2. CASE HubRecord(s)
    BY <2>2, <2>w, TimelineStored DEF HubRecord
  <2>3. CASE HubInsert(s)
    BY <1>1, <2>3, <2>w, TimelineStored DEF HubInsert
  <2>4. CASE HubReconcile(s)
    <3> DEFINE Marked(j) == [jobs[j] EXCEPT !.deleted = TRUE]
    <3>1. \A j \in Jobs : jobs[j] # None =>
            /\ Marked(j) \in JobRow /\ Marked(j).def = jobs[j].def /\ Marked(j).no = jobs[j].no
      BY DEF TInv, TypeOK, StoreOK, JobRow
    <3>2. jobs' = [j \in Jobs |-> IF jobs[j] # None /\ j \notin work[s].seen THEN Marked(j) ELSE jobs[j]]
      BY <2>4 DEF HubReconcile
    <3> HIDE DEF Marked
    <3>3. jobs' \in [Jobs -> JobRow \cup {None}]
      BY <3>1, <3>2 DEF TInv, TypeOK, StoreOK
    <3>4. \A j \in Jobs :
            /\ jobs'[j] = None <=> jobs[j] = None
            /\ jobs[j] # None => jobs'[j].def = jobs[j].def /\ jobs'[j].no = jobs[j].no
      BY <3>1, <3>2, NamesAssumption
    <3> QED
      BY <1>2, <2>4, <3>3, <3>4 DEF HubReconcile
  <2> QED
    BY <1>3, <2>1, <2>2, <2>3, <2>4 DEF HubStep
<1>4. ASSUME NEW k \in Jobs, AcknowledgeDrift(k) PROVE Timeline'
  <2> DEFINE row == [jobs[k] EXCEPT !.drift = FALSE]
  <2>1. row \in JobRow /\ row.def = jobs[k].def /\ row.no = jobs[k].no /\ jobs[k] # None
    BY <1>4 DEF AcknowledgeDrift, TInv, TypeOK, StoreOK, JobRow
  <2>2. jobs' = [jobs EXCEPT ![k] = row] /\ UNCHANGED versions
    BY <1>4 DEF AcknowledgeDrift
  <2> HIDE DEF row
  <2> QED
    BY <1>2, <2>1, <2>2, NamesAssumption DEF TInv, TypeOK, StoreOK
<1>5. CASE UNCHANGED vars
  BY <1>1, <1>5 DEF vars
<1>6. CASE SqlHost \/ Disconnect \/ (\E s \in Sessions : Connect(s)) \/ Snapshot
  BY <1>1, <1>6 DEF SqlHost, DbaDrop, DbaWrite, Disconnect, Connect, Snapshot, SnapRead, SnapSend, SnapFail
<1>7. CASE PollSkip \/ PollStart \/ PollRead \/ PollFail
  BY <1>1, <1>7 DEF PollSkip, PollStart, PollRead, PollFail
<1>8. CASE Command
  BY <1>1, <1>8
  DEF Command, CmdStart, CheckPassed, CheckRefused, CmdUpdate, CmdAdd, CmdDelete, CmdRefused, CmdRead,
      CmdThrows, CmdDone, Finish
<1>9. CASE Operator
  BY <1>1, <1>4, <1>9 DEF Operator, IssueNew, Issue
<1> QED
  BY <1>3, <1>5, <1>6, <1>7, <1>8, <1>9 DEF Next

(* Two sessions that record a job at the same time leave no gap, no double  *)
(* number and no repetition in its timeline, although a job the hub meets   *)
(* for the first time has no row to lock.                                   *)
THEOREM TimelineHolds == Spec => []Timeline
<1>1. Init => Timeline
  BY DEF Init, Timeline
<1> QED
  BY <1>1, TypeInit, TypeStep, TimelineStep, PTL DEF Spec

-----------------------------------------------------------------------------
(* Attribution.  A command's name travels from its write on msdb through    *)
(* the pending attribution, a delta or a result, and the hub's transaction; *)
(* everywhere on that road it stands by a job that command has changed.     *)

BackedMessages ==
    {m \in Message : /\ m.kind = "delta" /\ m.cmd # None => <<m.cmd, m.blob.job>> \in applied
                     /\ m.kind = "result" /\ m.ok => \A b \in m.blobs : <<m.cmd, b.job>> \in applied}
BackedItems == {r \in Item : r.origin = "remote" => <<r.cmd, r.blob.job>> \in applied}
PendingBacked == \A j \in Jobs : pending[j] # None => <<pending[j], j>> \in applied

Backed ==
    /\ exec.pc = "read" => <<exec.cmd, exec.job>> \in applied
    /\ PendingBacked
    /\ stream \in [Sessions -> Seq(BackedMessages)]
    /\ \A s \in Sessions :
          /\ work[s].recs \subseteq BackedItems
          /\ work[s].new # None => work[s].new \in BackedItems
    /\ RemoteIsBacked

(* What msdb accepts it accepted for good.                                  *)
LEMMA BackedKept ==
    ASSUME Backed, applied \subseteq applied', exec'.pc = "read" => <<exec'.cmd, exec'.job>> \in applied',
           UNCHANGED <<pending, stream, work, versions>>
    PROVE  Backed'
<1>1. BackedMessages \subseteq BackedMessages' /\ BackedItems \subseteq BackedItems'
  BY DEF BackedMessages, BackedItems
<1>2. stream' \in [Sessions -> Seq(BackedMessages')]
  <2>1. \A s \in Sessions : stream[s] \in Seq(BackedMessages')
    BY <1>1, SeqMonotonic DEF Backed
  <2> QED
    BY <2>1 DEF Backed
<1>3. RemoteIsBacked'
  BY DEF Backed, RemoteIsBacked
<1>4. PendingBacked'
  BY DEF Backed, PendingBacked
<1> QED
  BY <1>1, <1>2, <1>3, <1>4 DEF Backed

(* A step that leaves msdb alone, for whichever part it changes.            *)
LEMMA BackedParts ==
    ASSUME Backed, UNCHANGED applied, exec'.pc = "read" => <<exec'.cmd, exec'.job>> \in applied,
           UNCHANGED pending \/ PendingBacked',
           UNCHANGED stream \/ stream' \in [Sessions -> Seq(BackedMessages)],
           \/ UNCHANGED work
           \/ \A s \in Sessions :
                /\ work'[s].recs \subseteq BackedItems
                /\ work'[s].new # None => work'[s].new \in BackedItems,
           UNCHANGED versions \/ RemoteIsBacked'
    PROVE  Backed'
<1>1. BackedMessages' = BackedMessages /\ BackedItems' = BackedItems
  BY DEF BackedMessages, BackedItems
<1>2. RemoteIsBacked'
  BY DEF Backed, RemoteIsBacked
<1>3. PendingBacked'
  BY DEF Backed, PendingBacked
<1> QED
  BY <1>1, <1>2, <1>3 DEF Backed

LEMMA BackedStored ==
    ASSUME TInv, Backed, UNCHANGED applied, NEW r \in BackedItems, Store(r)
    PROVE  RemoteIsBacked'
<1> DEFINE j == r.blob.job
           v == [def |-> r.blob.def, by |-> r.blob.by, origin |-> Origin(j, r), cmd |-> r.cmd]
<1>1. /\ r \in Item /\ j \in Jobs /\ r.blob.def \in Defs /\ r.blob.by \in Commands \cup {"dba"}
      /\ r.origin \in {"local", "remote"} /\ r.cmd \in Commands \cup {None}
      /\ r.origin = "remote" => <<r.cmd, j>> \in applied
  BY DEF BackedItems, Item, Blobs
<1>2. versions \in [Jobs -> Seq(Version)] /\ v \in Version /\ (v.origin = "remote" => <<v.cmd, j>> \in applied)
  BY <1>1 DEF TInv, TypeOK, StoreOK, Origin, Version
<1>3. versions' = versions \/ versions' = [versions EXCEPT ![j] = Append(@, v)]
  BY DEF Store
<1>4. CASE versions' = versions
  BY <1>4 DEF Backed, RemoteIsBacked
<1>5. CASE versions' = [versions EXCEPT ![j] = Append(@, v)]
  <2> DEFINE q == versions[j]
  <2>1. q \in Seq(Version) /\ Len(q) \in Nat
    BY <1>1, <1>2, LenProperties
  <2>2. /\ Len(Append(q, v)) = Len(q) + 1
        /\ \A i \in 1..Len(q) : Append(q, v)[i] = q[i]
        /\ Append(q, v)[Len(q) + 1] = v
    BY <1>2, <2>1, AppendProperties
  <2>3. versions'[j] = Append(q, v) /\ \A k \in Jobs \ {j} : versions'[k] = versions[k]
    BY <1>1, <1>2, <1>5
  <2>4. \A i \in 1..Len(q) : q[i].origin = "remote" => <<q[i].cmd, j>> \in applied
    BY <1>1 DEF Backed, RemoteIsBacked
  <2> HIDE DEF j, q, v
  <2>5. \A i \in 1..Len(Append(q, v)) :
          Append(q, v)[i].origin = "remote" => <<Append(q, v)[i].cmd, j>> \in applied
    <3> TAKE i \in 1..Len(Append(q, v))
    <3>1. i \in 1..Len(q) \/ i = Len(q) + 1
      BY <2>1, <2>2
    <3> QED
      BY <1>2, <2>2, <2>4, <3>1
  <2> QED
    BY <2>3, <2>5 DEF Backed, RemoteIsBacked
<1> QED
  BY <1>3, <1>4, <1>5

LEMMA BackedPollRead == ASSUME TInv, Backed, PollRead PROVE Backed'
<1>1. PICK q \in Orders(Changed) : Emit([i \in DOMAIN q |-> Delta(q[i])])
  BY DEF PollRead
<1> DEFINE ms == [i \in DOMAIN q |-> Delta(q[i])]
<1>2. q \in Seq(Changed) /\ DOMAIN q = 1..Len(q) /\ Len(q) \in Nat /\ Changed \in SUBSET Blobs
  <2>1. IsFiniteSet(Changed) /\ Changed \in SUBSET Blobs
    BY ReadJobsType, FS_Subset DEF Changed, TInv, TypeOK
  <2> QED
    BY <2>1, OrdersAreSequences
<1>3. \A i \in 1..Len(q) : Delta(q[i]) \in BackedMessages
  <2> TAKE i \in 1..Len(q)
  <2>1. q[i] \in Blobs /\ q[i].job \in Jobs
    BY <1>2, ElementOfSeq DEF Blobs
  <2>2. Delta(q[i]) \in Message
    BY <2>1 DEF Delta, Message, TInv, TypeOK, AgentOK
  <2> QED
    BY <2>1, <2>2 DEF Delta, BackedMessages, Backed, PendingBacked
<1>4. ms \in Seq(BackedMessages)
  <2>1. ms \in [1..Len(q) -> BackedMessages]
    BY <1>2, <1>3
  <2> QED
    BY <1>2, <2>1, SeqDef
<1>5. stream' \in [Sessions -> Seq(BackedMessages)]
  BY <1>1, <1>4, SentMessages DEF Backed, TInv, TypeOK, WireOK
<1>6. PendingBacked'
  BY DEF PollRead, Backed, PendingBacked
<1> QED
  BY <1>5, <1>6, BackedParts DEF PollRead, Backed, hub, store

LEMMA BackedFinish ==
    ASSUME TInv, Backed, exec.pc \in {"check", "write", "read"}, NEW ok \in BOOLEAN,
           NEW blobs \in SUBSET Blobs, ok => exec.pc = "read",
           \A b \in blobs : b.job = exec.job, Finish(ok, blobs)
    PROVE  Backed'
<1>1. ok => <<exec.cmd, exec.job>> \in applied
  BY DEF Backed
<1>2. PendingBacked'
  BY <1>1 DEF Finish, NoteApplied, Noted, Backed, PendingBacked, ghosts
<1>3. <<Result(ok, blobs)>> \in Seq(BackedMessages)
  <2>1. exec.cmd \in Commands
    BY DEF TInv, TypeOK, AgentOK
  <2>2. Result(ok, blobs) \in BackedMessages
    BY <1>1, <2>1 DEF Result, Message, BackedMessages
  <2> QED
    BY <2>2
<1>4. stream' \in [Sessions -> Seq(BackedMessages)]
  BY <1>3, SentMessages DEF Finish, Backed, TInv, TypeOK, WireOK
<1>5. exec'.pc # "read"
  BY DEF Finish, TInv, TypeOK, AgentOK
<1> QED
  BY <1>2, <1>4, <1>5, BackedParts DEF Finish, hub, store, ghosts

LEMMA BackedCommand == TInv /\ Backed /\ Command => Backed'
<1> SUFFICES ASSUME TInv, Backed, Command PROVE Backed'
  OBVIOUS
<1>s. exec \in [pc : {"idle", "check", "write", "read", "repoll"},
                cmd : Commands \cup {None}, job : Jobs \cup {None}]
  BY DEF TInv, TypeOK, AgentOK
<1>1. CASE \E c \in Commands : CmdStart(c)
  BY <1>1, BackedKept DEF CmdStart, memory, wire, hub, store, ghosts
<1>2. CASE CheckPassed
  BY <1>2, <1>s, BackedKept DEF CheckPassed, memory, wire, hub, store, ghosts
<1>3. CASE CheckRefused
  BY <1>3, ReadBlobType, ReadBlobJob, BackedFinish DEF CheckRefused
<1>4. ASSUME NEW j, CmdDone(j) PROVE Backed'
  BY <1>4, <1>s, BackedKept DEF CmdDone, memory, wire, hub, store
<1>5. CASE CmdUpdate \/ CmdAdd \/ CmdDelete
  BY <1>4, <1>5 DEF CmdUpdate, CmdAdd, CmdDelete
<1>6. CASE CmdRefused
  BY <1>6, BackedFinish DEF CmdRefused
<1>7. CASE CmdRead
  BY <1>7, ReadBlobType, ReadBlobJob, BackedFinish DEF CmdRead
<1>8. CASE CmdThrows
  BY <1>8, BackedKept DEF CmdThrows, NoCommand, memory, wire, hub, store, ghosts
<1> QED
  BY <1>1, <1>2, <1>3, <1>5, <1>6, <1>7, <1>8 DEF Command

LEMMA BackedSnapSend == ASSUME TInv, Backed, NEW p \in Snaps, SnapSend(p) PROVE Backed'
<1>1. PICK q \in Orders(snap[p].jobs) : Emit(Chunks(q))
  BY DEF SnapSend
<1>2. q \in Seq(Blobs) /\ Chunks(q) \in Seq(Message)
  BY SnapshotMessages
<1>3. \A i \in 1..Len(Chunks(q)) : Chunks(q)[i] \in BackedMessages
  BY <1>2, ChunksAreMessages, ElementOfSeq DEF BackedMessages
<1>4. Chunks(q) \in Seq(BackedMessages)
  <2>1. Len(Chunks(q)) \in Nat /\ DOMAIN Chunks(q) = 1..Len(Chunks(q))
        /\ Chunks(q) \in [1..Len(Chunks(q)) -> Message]
    BY <1>2, LenProperties
  <2>2. Chunks(q) \in [1..Len(Chunks(q)) -> BackedMessages]
    BY <1>3, <2>1
  <2> QED
    BY <2>1, <2>2, SeqDef
<1>5. stream' \in [Sessions -> Seq(BackedMessages)]
  BY <1>1, <1>4, SentMessages DEF Backed, TInv, TypeOK, WireOK
<1> QED
  BY <1>5, BackedParts DEF SnapSend, Backed, hub, store, ghosts

LEMMA BackedDisconnect == ASSUME TInv, Backed, Disconnect PROVE Backed'
<1>1. link \in Sessions /\ stream[link] \in Seq(BackedMessages)
  BY DEF Disconnect, Backed, TInv, TypeOK, WireOK
<1>2. PICK kept \in 0..Len(stream[link]) :
        stream' = [stream EXCEPT ![link] = SubSeq(@, 1, kept)]
  BY DEF Disconnect
<1>3. SubSeq(stream[link], 1, kept) \in Seq(BackedMessages)
  <2>1. Len(stream[link]) \in Nat /\ \A i \in 1..kept : stream[link][i] \in BackedMessages
    BY <1>1, LenProperties, ElementOfSeq
  <2> QED
    BY <2>1, SubSeqProperties
<1>4. stream' \in [Sessions -> Seq(BackedMessages)]
  BY <1>1, <1>2, <1>3 DEF Backed
<1> QED
  BY <1>4, BackedParts DEF Disconnect, Backed, memory, hub, store, ghosts

LEMMA BackedReceive == ASSUME TInv, Backed, NEW s \in Sessions, HubReceive(s) PROVE Backed'
<1> DEFINE m == Head(stream[s])
<1>1. stream[s] # <<>> /\ stream[s] \in Seq(BackedMessages)
  BY DEF HubReceive, HubChunk, HubDelta, HubResult, Backed
<1>2. m \in BackedMessages /\ Tail(stream[s]) \in Seq(BackedMessages)
  BY <1>1, HeadTailProperties
<1>3. stream' \in [Sessions -> Seq(BackedMessages)]
  BY <1>2 DEF HubReceive, Backed
<1>4. work \in [Sessions -> [recs : SUBSET Item, seen : (SUBSET Jobs) \cup {None},
                            new : Item \cup {None}]]
      /\ work[s].new = None
  BY DEF TInv, TypeOK, StoreOK, HubReceive, Nothing
<1>5. /\ work'[s].recs \subseteq BackedItems /\ work'[s].new = None
      /\ \A t \in Sessions \ {s} : work'[t] = work[t]
  <2>t. TInv'
    BY TypeReceive
  <2>i. work'[s].recs \subseteq Item
    BY <2>t DEF TInv, TypeOK, StoreOK
  <2>1. CASE HubChunk(s)
    <3>1. PICK all : \/ work' = work
                     \/ work' = [work EXCEPT ![s] = [recs |-> {Record(b, "local", None) : b \in all},
                                                     seen |-> {b.job : b \in all}, new |-> None]]
      BY <2>1, Zenon DEF HubChunk
    <3>2. CASE work' = work
      BY <1>4, <3>2 DEF Backed
    <3>3. CASE work' = [work EXCEPT ![s] = [recs |-> {Record(b, "local", None) : b \in all},
                                           seen |-> {b.job : b \in all}, new |-> None]]
      <4>1. /\ work'[s].recs = {Record(b, "local", None) : b \in all} /\ work'[s].new = None
            /\ \A t \in Sessions \ {s} : work'[t] = work[t]
        BY <1>4, <3>3
      <4>2. \A r \in work'[s].recs : r.origin = "local"
        BY <4>1 DEF Record
      <4> QED
        BY <2>i, <4>1, <4>2 DEF BackedItems
    <3> QED
      BY <3>1, <3>2, <3>3
  <2>2. CASE HubDelta(s)
    <3> DEFINE r == Record(m.blob, IF m.cmd = None THEN "local" ELSE "remote", m.cmd)
    <3>1. work' = [work EXCEPT ![s].recs = {r}]
      BY <2>2 DEF HubDelta
    <3>2. r.origin = "remote" => <<r.cmd, r.blob.job>> \in applied
      BY <1>2, <2>2 DEF HubDelta, Record, BackedMessages
    <3> HIDE DEF r
    <3>3. /\ work'[s].recs = {r} /\ work'[s].new = None
          /\ \A t \in Sessions \ {s} : work'[t] = work[t]
      BY <1>4, <3>1
    <3> QED
      BY <2>i, <3>2, <3>3 DEF BackedItems
  <2>3. CASE HubResult(s)
    <3> DEFINE recs == {Record(b, IF m.ok THEN "remote" ELSE "local",
                               IF m.ok THEN m.cmd ELSE None) : b \in m.blobs}
    <3>1. work' = [work EXCEPT ![s].recs = recs]
      BY <2>3 DEF HubResult
    <3>2. \A r \in recs : r.origin = "remote" => <<r.cmd, r.blob.job>> \in applied
      BY <1>2, <2>3 DEF HubResult, Record, BackedMessages
    <3> HIDE DEF recs
    <3>3. /\ work'[s].recs = recs /\ work'[s].new = None
          /\ \A t \in Sessions \ {s} : work'[t] = work[t]
      BY <1>4, <3>1
    <3> QED
      BY <2>i, <3>2, <3>3 DEF BackedItems
  <2> QED
    BY <2>1, <2>2, <2>3 DEF HubReceive
<1>6. \A t \in Sessions :
        /\ work'[t].recs \subseteq BackedItems
        /\ work'[t].new # None => work'[t].new \in BackedItems
  BY <1>5 DEF Backed
<1> QED
  BY <1>3, <1>6, BackedParts DEF HubReceive, Backed, memory, store, ghosts

LEMMA BackedHub == ASSUME TInv, Backed, NEW s \in Sessions, HubStep(s) PROVE Backed'
<1>w. /\ work \in [Sessions -> [recs : SUBSET Item, seen : (SUBSET Jobs) \cup {None},
                                 new : Item \cup {None}]]
      /\ work[s].recs \subseteq BackedItems /\ (work[s].new # None => work[s].new \in BackedItems)
  BY DEF TInv, TypeOK, StoreOK, Backed
<1>1. ASSUME UNCHANGED <<sql, cmd, memory, process, exec, wire, acc, stalled, ghosts>>,
             UNCHANGED versions \/ RemoteIsBacked',
             work'[s].recs \subseteq BackedItems,
             work'[s].new # None => work'[s].new \in BackedItems,
             \A t \in Sessions \ {s} : work'[t] = work[t]
      PROVE  Backed'
  <2>1. \A t \in Sessions :
          /\ work'[t].recs \subseteq BackedItems
          /\ work'[t].new # None => work'[t].new \in BackedItems
    BY <1>1 DEF Backed
  <2> QED
    BY <1>1, <2>1, BackedParts DEF memory, wire, ghosts, Backed
<1>2. CASE HubReceive(s)
  BY <1>2, BackedReceive
<1>3. CASE HubRecord(s)
  <2>1. PICK r \in work[s].recs : Store(r) /\ work' = [work EXCEPT ![s].recs = @ \ {r}]
    BY <1>3 DEF HubRecord
  <2>2. RemoteIsBacked'
    BY <1>3, <1>w, <2>1, BackedStored DEF HubRecord, ghosts
  <2>3. /\ work'[s].recs \subseteq work[s].recs /\ work'[s].new = work[s].new
        /\ \A t \in Sessions \ {s} : work'[t] = work[t]
    BY <1>w, <2>1
  <2> QED
    BY <1>1, <1>3, <1>w, <2>2, <2>3 DEF HubRecord
<1>4. CASE HubSelectNone(s)
  <2>1. PICK r \in work[s].recs : work' = [work EXCEPT ![s].new = r, ![s].recs = @ \ {r}]
    BY <1>4 DEF HubSelectNone
  <2>2. /\ work'[s].recs \subseteq work[s].recs /\ work'[s].new = r
        /\ \A t \in Sessions \ {s} : work'[t] = work[t]
    BY <1>w, <2>1
  <2> QED
    BY <1>1, <1>4, <1>w, <2>2 DEF HubSelectNone, store
<1>5. CASE HubInsert(s)
  <2>1. /\ work'[s].recs \subseteq work[s].recs /\ work'[s].new = None
        /\ \A t \in Sessions \ {s} : work'[t] = work[t]
    BY <1>5, <1>w DEF HubInsert, Nothing
  <2>2. UNCHANGED versions \/ RemoteIsBacked'
    BY <1>5, <1>w, BackedStored DEF HubInsert, store, ghosts
  <2> QED
    BY <1>1, <1>5, <1>w, <2>1, <2>2 DEF HubInsert
<1>6. CASE HubReconcile(s)
  <2>1. /\ work'[s].recs = {} /\ work'[s].new = None
        /\ \A t \in Sessions \ {s} : work'[t] = work[t]
    BY <1>6, <1>w DEF HubReconcile, Nothing
  <2> QED
    BY <1>1, <1>6, <2>1 DEF HubReconcile
<1> QED
  BY <1>2, <1>3, <1>4, <1>5, <1>6 DEF HubStep

LEMMA BackedStep == TInv /\ Backed /\ [Next]_vars => Backed'
<1> SUFFICES ASSUME TInv, Backed, [Next]_vars PROVE Backed'
  OBVIOUS
<1> USE DEF memory, wire, hub, store, ghosts
<1>e. exec.pc = "read" => <<exec.cmd, exec.job>> \in applied
  BY DEF Backed
<1>1. CASE UNCHANGED vars
  BY <1>1, <1>e, BackedKept DEF vars
<1>2. CASE SqlHost \/ \E s \in Sessions : Connect(s)
  BY <1>2, <1>e, BackedKept DEF SqlHost, DbaDrop, DbaWrite, Connect
<1>3. CASE PollSkip \/ PollStart \/ PollFail
  BY <1>3, <1>e, BackedKept DEF PollSkip, PollStart, PollFail, Polled, NoCommand
<1>4. ASSUME NEW p \in Snaps, SnapRead(p) \/ SnapFail(p) PROVE Backed'
  BY <1>4, <1>e, BackedKept DEF SnapRead, SnapFail
<1>5. CASE Operator
  BY <1>5, <1>e, BackedKept DEF Operator, AcknowledgeDrift, IssueNew, Issue
<1> QED
  BY <1>1, <1>2, <1>3, <1>4, <1>5, BackedSnapSend, BackedDisconnect, BackedPollRead, BackedCommand,
     BackedHub
  DEF Next, Snapshot

LEMMA BackedInit == Init => Backed
<1> SUFFICES ASSUME Init PROVE Backed
  OBVIOUS
<1>1. \A s \in Sessions : stream[s] = <<>> /\ work[s] = Nothing
  BY DEF Init
<1>2. stream \in [Sessions -> Seq(BackedMessages)]
  BY <1>1, EmptySeq DEF Init
<1> QED
  BY <1>1, <1>2 DEF Init, Backed, PendingBacked, Nothing, NoCommand, RemoteIsBacked

(* However deltas, results, retries and lost sessions interleave, and       *)
(* however long an attribution waits, a version put down to a command is of *)
(* a job that very command changed: not one of another job, and never one   *)
(* that msdb refused or that failed.                                        *)
THEOREM AttributionIsBacked == Spec => []RemoteIsBacked
<1>1. Spec => []Backed
  BY BackedInit, TypeInit, TypeStep, BackedStep, PTL DEF Spec
<1> QED
  BY <1>1, PTL DEF Backed

-----------------------------------------------------------------------------
(* Reconciliation.  A job that was in msdb all the time is in every         *)
(* snapshot, in the chunks of it that are still to come or that the hub has *)
(* put aside, and so in what a reconciliation compares with.                *)

Old == Jobs \ gone
Named(blobs) == {b.job : b \in blobs}
Ends(m) == m.kind = "chunk" /\ Complete(m)

(* The snapshot that ends at place i of a queue, behind the chunks already  *)
(* put aside, has job j.                                                    *)
Brings(q, k, i, j) == q[k].kind = "chunk" /\ j \in Named(q[k].blobs) /\ \A l \in k..(i - 1) : ~Ends(q[l])
PutAside(q, aside, i, j) == j \in Named(aside) /\ \A l \in 1..(i - 1) : ~Ends(q[l])
InSnapshot(q, aside, i, j) == PutAside(q, aside, i, j) \/ \E k \in 1..i : Brings(q, k, i, j)
HasAll(olds, q, aside) ==
    \A i \in 1..Len(q) : Ends(q[i]) => \A j \in olds : InSnapshot(q, aside, i, j)

Covered ==
    /\ Old \subseteq Live
    /\ \A p \in Snaps : snap[p].pc = "read" => Old \subseteq Named(snap[p].jobs)
    /\ \A s \in Sessions : HasAll(Old, stream[s], acc[s])
    /\ \A s \in Sessions : work[s].seen # None => Old \subseteq work[s].seen
    /\ NoPhantomDelete

LEMMA PrefixHasAll ==
    ASSUME NEW olds, NEW q \in Seq(Message), NEW aside, HasAll(olds, q, aside), NEW n \in 0..Len(q)
    PROVE  HasAll(olds, SubSeq(q, 1, n), aside)
<1> DEFINE r == SubSeq(q, 1, n)
<1>1. Len(q) \in Nat /\ \A i \in 1..n : q[i] \in Message
  BY LenProperties, ElementOfSeq
<1>2. Len(r) = n /\ \A i \in 1..n : r[i] = q[i]
  BY <1>1, SubSeqProperties
<1> HIDE DEF r
<1> SUFFICES ASSUME NEW i \in 1..Len(r), Ends(r[i]), NEW j \in olds
             PROVE  InSnapshot(r, aside, i, j)
  BY DEF HasAll, r
<1>3. i \in 1..Len(q) /\ i \in 1..n /\ i \in Nat
  BY <1>1, <1>2
<1>4. InSnapshot(q, aside, i, j)
  BY <1>2, <1>3 DEF HasAll
<1>5. \A l \in 1..i : r[l] = q[l]
  BY <1>1, <1>2, <1>3
<1>6. CASE PutAside(q, aside, i, j)
  BY <1>3, <1>5, <1>6 DEF InSnapshot, PutAside
<1>7. CASE \E k \in 1..i : Brings(q, k, i, j)
  <2>1. PICK k \in 1..i : Brings(q, k, i, j)
    BY <1>7
  <2>2. \A l \in k..(i - 1) : l \in 1..i
    BY <1>3
  <2>3. Brings(r, k, i, j)
    BY <1>5, <2>1, <2>2 DEF Brings
  <2> QED
    BY <2>3 DEF InSnapshot
<1> QED
  BY <1>4, <1>6, <1>7 DEF InSnapshot

(* What is behind place i does not matter to the snapshot that ends there.  *)
LEMMA BeginningKept ==
    ASSUME NEW olds, NEW q \in Seq(Message), NEW ms \in Seq(Message), NEW aside,
           HasAll(olds, q, aside), NEW i \in 1..Len(q), Ends((q \o ms)[i]), NEW j \in olds
    PROVE  InSnapshot(q \o ms, aside, i, j)
<1> DEFINE r == q \o ms
<1>1. Len(q) \in Nat /\ Len(ms) \in Nat
  BY LenProperties
<1>2. Len(r) = Len(q) + Len(ms) /\ \A l \in 1..Len(q) : r[l] = q[l]
  BY <1>1, ConcatProperties
<1> HIDE DEF r
<1>3. InSnapshot(q, aside, i, j)
  BY <1>2 DEF HasAll, r
<1>4. \A l \in 1..i : r[l] = q[l]
  BY <1>1, <1>2
<1>5. CASE PutAside(q, aside, i, j)
  <2>1. PutAside(r, aside, i, j)
    BY <1>1, <1>4, <1>5 DEF PutAside
  <2> QED
    BY <2>1 DEF InSnapshot, r
<1>6. CASE \E k \in 1..i : Brings(q, k, i, j)
  <2>1. PICK k \in 1..i : Brings(q, k, i, j)
    BY <1>6
  <2>2. \A l \in k..(i - 1) : l \in 1..i
    BY <1>1
  <2>3. Brings(r, k, i, j)
    BY <1>4, <2>1, <2>2 DEF Brings
  <2> QED
    BY <2>3 DEF InSnapshot, r
<1> QED
  BY <1>3, <1>5, <1>6 DEF InSnapshot

LEMMA QuietHasAll ==
    ASSUME NEW olds, NEW q \in Seq(Message), NEW ms \in Seq(Message), NEW aside,
           HasAll(olds, q, aside), \A i \in 1..Len(ms) : ~Ends(ms[i])
    PROVE  HasAll(olds, q \o ms, aside)
<1>1. Len(q) \in Nat /\ Len(ms) \in Nat
  BY LenProperties
<1>2. Len(q \o ms) = Len(q) + Len(ms)
      /\ \A i \in 1..Len(q) + Len(ms) : (q \o ms)[i] = IF i <= Len(q) THEN q[i] ELSE ms[i - Len(q)]
  BY ConcatProperties
<1> SUFFICES ASSUME NEW i \in 1..Len(q \o ms), Ends((q \o ms)[i]), NEW j \in olds
             PROVE  InSnapshot(q \o ms, aside, i, j)
  BY DEF HasAll
<1>3. i \in 1..Len(q)
  <2> SUFFICES ASSUME i > Len(q) PROVE FALSE
    BY <1>1, <1>2
  <2>1. i - Len(q) \in 1..Len(ms) /\ (q \o ms)[i] = ms[i - Len(q)]
    BY <1>1, <1>2
  <2> QED
    BY <2>1
<1> QED
  BY <1>3, BeginningKept

LEMMA SnapshotHasAll ==
    ASSUME NEW olds, NEW q \in Seq(Message), NEW b \in Seq(Blobs), NEW aside,
           HasAll(olds, q, aside), \A j \in olds : \E k \in 1..Len(b) : b[k].job = j
    PROVE  HasAll(olds, q \o Chunks(b), aside)
<1> DEFINE ms == Chunks(b)  n == Len(q)
<1>1. /\ ms \in Seq(Message)
      /\ \A i \in 1..Len(ms) : /\ ms[i].kind = "chunk"
                               /\ i < Len(ms) => ms[i].more = TRUE
      /\ \A k \in 1..Len(b) : k \in 1..Len(ms) /\ ms[k].blobs = {b[k]}
  BY ChunksAreMessages
<1> HIDE DEF ms
<1>2. n \in Nat /\ Len(ms) \in Nat
  BY <1>1, LenProperties
<1>3. Len(q \o ms) = n + Len(ms)
      /\ \A i \in 1..n + Len(ms) : (q \o ms)[i] = IF i <= n THEN q[i] ELSE ms[i - n]
  BY <1>1, ConcatProperties
<1> SUFFICES ASSUME NEW i \in 1..Len(q \o ms), Ends((q \o ms)[i]), NEW j \in olds
             PROVE  InSnapshot(q \o ms, aside, i, j)
  BY DEF HasAll, ms
<1>4. CASE i <= n
  <2>1. i \in 1..Len(q)
    BY <1>2, <1>3, <1>4
  <2> QED
    BY <1>1, <2>1, BeginningKept
<1>5. CASE i > n
  <2>1. i \in Nat /\ i - n \in 1..Len(ms) /\ (q \o ms)[i] = ms[i - n]
    BY <1>2, <1>3, <1>5
  <2>2. i - n = Len(ms)
    <3>1. ~(i - n < Len(ms))
      BY <1>1, <2>1 DEF Ends, Complete
    <3> QED
      BY <1>2, <2>1, <3>1
  <2>3. PICK k \in 1..Len(b) : b[k].job = j
    OBVIOUS
  <2>4. k \in 1..Len(ms) /\ ms[k].kind = "chunk" /\ j \in Named(ms[k].blobs)
    BY <1>1, <2>3 DEF Named
  <2>5. n + k \in 1..i /\ (q \o ms)[n + k] = ms[k]
    BY <1>2, <1>3, <2>1, <2>2, <2>4
  <2>6. \A l \in (n + k)..(i - 1) : ~Ends((q \o ms)[l])
    <3> TAKE l \in (n + k)..(i - 1)
    <3>1. l - n \in 1..Len(ms) /\ l - n < Len(ms) /\ (q \o ms)[l] = ms[l - n]
      BY <1>2, <1>3, <2>1, <2>2, <2>4
    <3> QED
      BY <1>1, <3>1 DEF Ends, Complete
  <2>7. Brings(q \o ms, n + k, i, j)
    BY <2>4, <2>5, <2>6 DEF Brings
  <2> QED
    BY <2>5, <2>7 DEF InSnapshot
<1> QED
  BY <1>2, <1>3, <1>4, <1>5

(* The first message leaves the queue: a chunk that does not end its        *)
(* snapshot is put aside.                                                   *)
LEMMA TailHasAll ==
    ASSUME NEW olds, NEW q \in Seq(Message), q # <<>>, NEW aside, NEW aside2,
           HasAll(olds, q, aside),
           \/ Ends(Head(q))
           \/ Head(q).kind # "chunk" /\ aside2 = aside
           \/ /\ Head(q).kind = "chunk" /\ Named(Head(q).blobs) \subseteq Named(aside2)
              /\ Named(aside) \subseteq Named(aside2)
    PROVE  HasAll(olds, Tail(q), aside2)
<1> DEFINE r == Tail(q)
<1>1. Len(r) = Len(q) - 1 /\ Len(q) \in Nat \ {0} /\ (\A i \in 1..Len(r) : r[i] = q[i + 1]) /\ Head(q) = q[1]
  BY HeadTailProperties, EmptySeq
<1> HIDE DEF r
<1> SUFFICES ASSUME NEW i \in 1..Len(r), Ends(r[i]), NEW j \in olds
             PROVE  InSnapshot(r, aside2, i, j)
  BY DEF HasAll, r
<1>2. i + 1 \in 1..Len(q) /\ r[i] = q[i + 1] /\ i \in Nat \ {0}
  BY <1>1
<1>3. InSnapshot(q, aside, i + 1, j)
  BY <1>2 DEF HasAll
<1>4. CASE \E k \in 2..(i + 1) : Brings(q, k, i + 1, j)
  <2>1. PICK k \in 2..(i + 1) : Brings(q, k, i + 1, j)
    BY <1>4
  <2>2. k - 1 \in 1..i /\ k - 1 \in 1..Len(r) /\ r[k - 1] = q[k]
    BY <1>1, <1>2
  <2>3. \A l \in (k - 1)..(i - 1) : l + 1 \in k..((i + 1) - 1) /\ r[l] = q[l + 1]
    BY <1>1, <1>2
  <2>4. Brings(r, k - 1, i, j)
    BY <2>1, <2>2, <2>3 DEF Brings
  <2> QED
    BY <2>2, <2>4 DEF InSnapshot
<1>5. CASE /\ \A l \in 1..i : ~Ends(q[l])
           /\ \/ q[1].kind = "chunk" /\ j \in Named(q[1].blobs)
              \/ j \in Named(aside)
  <2>1. ~Ends(q[1])
    BY <1>2, <1>5
  <2>2. \A l \in 1..(i - 1) : l + 1 \in 1..i /\ r[l] = q[l + 1]
    BY <1>1, <1>2
  <2>3. \A l \in 1..(i - 1) : ~Ends(r[l])
    BY <1>5, <2>2
  <2>4. j \in Named(aside2)
    BY <1>1, <1>5, <2>1
  <2> QED
    BY <2>3, <2>4 DEF InSnapshot, PutAside
<1>6. CASE Brings(q, 1, i + 1, j)
  BY <1>2, <1>5, <1>6 DEF Brings
<1>7. CASE PutAside(q, aside, i + 1, j)
  BY <1>2, <1>5, <1>7 DEF PutAside
<1>8. \A k \in 1..(i + 1) : k = 1 \/ k \in 2..(i + 1)
  BY <1>2
<1> QED
  BY <1>3, <1>4, <1>6, <1>7, <1>8 DEF InSnapshot

LEMMA FewerHasAll ==
    ASSUME NEW olds, NEW olds2, olds2 \subseteq olds, NEW q, NEW aside, HasAll(olds, q, aside)
    PROVE  HasAll(olds2, q, aside)
BY DEF HasAll

(* msdb may grow, and a job that is dropped counts as gone.                 *)
LEMMA CoveredKept ==
    ASSUME Covered, gone \subseteq gone', Old' \subseteq Live',
           \A p \in Snaps : snap'[p].pc = "read" => snap'[p] = snap[p],
           UNCHANGED <<stream, acc, work, jobs>>
    PROVE  Covered'
<1>1. Old' \subseteq Old
  BY DEF Old
<1>2. \A p \in Snaps : snap'[p].pc = "read" => Old' \subseteq Named(snap'[p].jobs)
  BY <1>1 DEF Covered
<1>3. \A s \in Sessions : HasAll(Old', stream'[s], acc'[s])
  BY <1>1, FewerHasAll DEF Covered
<1>4. \A s \in Sessions : work'[s].seen # None => Old' \subseteq work'[s].seen
  BY <1>1 DEF Covered
<1>5. NoPhantomDelete'
  BY DEF Covered, NoPhantomDelete
<1> QED
  BY <1>2, <1>3, <1>4, <1>5 DEF Covered

LEMMA OldLive == ASSUME Covered, UNCHANGED <<msdb, gone>> PROVE Old' \subseteq Live' /\ Old' = Old
BY DEF Covered, Old, Live

(* A step that leaves msdb alone, for whichever part it changes.            *)
LEMMA CoveredParts ==
    ASSUME Covered, UNCHANGED <<msdb, gone>>,
           \A p \in Snaps : snap'[p].pc = "read" => snap'[p] = snap[p] \/ Old \subseteq Named(snap'[p].jobs),
           UNCHANGED <<stream, acc>> \/ \A s \in Sessions : HasAll(Old, stream'[s], acc'[s]),
           UNCHANGED work \/ \A s \in Sessions : work'[s].seen # None => Old \subseteq work'[s].seen,
           UNCHANGED jobs \/ NoPhantomDelete'
    PROVE  Covered'
<1>1. Old' = Old /\ Old' \subseteq Live'
  BY OldLive
<1>2. \A p \in Snaps : snap'[p].pc = "read" => Old' \subseteq Named(snap'[p].jobs)
  BY <1>1 DEF Covered
<1>3. \A s \in Sessions : HasAll(Old', stream'[s], acc'[s])
  BY <1>1 DEF Covered
<1>4. NoPhantomDelete'
  BY DEF Covered, NoPhantomDelete
<1> QED
  BY <1>1, <1>2, <1>3, <1>4 DEF Covered

LEMMA CoveredWrite ==
    ASSUME TInv, Covered, UNCHANGED <<snap, stream, acc, work, jobs>>,
           \/ \E j \in Jobs : Drop(j)
           \/ \E j \in Jobs, d \in Defs, who \in Commands \cup {"dba"} : Write(j, d, who)
    PROVE  Covered'
<1>1. ASSUME NEW j \in Jobs, Drop(j) PROVE Covered'
  <2>1. Old' \subseteq Live' /\ gone \subseteq gone'
    BY <1>1 DEF Drop, Covered, Old, Live, TInv, TypeOK, HostOK
  <2> QED
    BY <2>1, CoveredKept
<1>2. ASSUME NEW j \in Jobs, NEW d \in Defs, NEW who \in Commands \cup {"dba"}, Write(j, d, who)
      PROVE  Covered'
  <2>1. [def |-> d, by |-> who, mod |-> edits + 1] # None
    BY NamesAssumption DEF HostRow, TInv, TypeOK, HostOK
  <2>2. Old' \subseteq Live' /\ gone \subseteq gone'
    BY <1>2, <2>1 DEF Write, Covered, Old, Live, TInv, TypeOK, HostOK
  <2> QED
    BY <2>2, CoveredKept
<1> QED
  BY <1>1, <1>2

(* Messages that end no snapshot.                                           *)
LEMMA CoveredEmit ==
    ASSUME TInv, Covered, NEW ms \in Seq(Message), \A i \in 1..Len(ms) : ~Ends(ms[i]), Emit(ms)
    PROVE  \A s \in Sessions : HasAll(Old, stream'[s], acc[s])
<1>1. stream \in [Sessions -> Seq(Message)]
  BY DEF TInv, TypeOK, WireOK
<1> SUFFICES ASSUME NEW s \in Sessions PROVE HasAll(Old, stream'[s], acc[s])
  OBVIOUS
<1>2. HasAll(Old, stream[s], acc[s]) /\ stream[s] \in Seq(Message)
  BY <1>1 DEF Covered
<1>3. CASE s = link /\ link # None
  <2>1. stream'[s] = stream[s] \o ms
    BY <1>1, <1>3 DEF Emit
  <2> QED
    BY <1>2, <2>1, QuietHasAll
<1>4. CASE s # link \/ link = None
  <2>1. stream'[s] = stream[s]
    BY <1>1, <1>4 DEF Emit
  <2> QED
    BY <1>2, <2>1
<1> QED
  BY <1>3, <1>4

LEMMA CoveredPollRead == ASSUME TInv, Covered, PollRead PROVE Covered'
<1>1. PICK q \in Orders(Changed) : Emit([i \in DOMAIN q |-> Delta(q[i])])
  BY DEF PollRead
<1> DEFINE ms == [i \in DOMAIN q |-> Delta(q[i])]
<1>2. ms \in Seq(Message)
  BY DeltaType DEF TInv, TypeOK, AgentOK
<1>3. \A i \in 1..Len(ms) : ~Ends(ms[i])
  <2> TAKE i \in 1..Len(ms)
  <2>1. ms[i] = Delta(q[i])
    BY <1>2, LenProperties
  <2> QED
    BY <2>1 DEF Delta, Ends
<1> HIDE DEF ms
<1>4. \A s \in Sessions : HasAll(Old, stream'[s], acc[s])
  BY <1>1, <1>2, <1>3, CoveredEmit DEF ms
<1>5. \A p \in Snaps : snap'[p].pc = "read" => snap'[p] = snap[p]
  BY DEF PollRead, TInv, TypeOK, AgentOK, Snaps
<1> QED
  BY <1>4, <1>5, CoveredParts DEF PollRead, sql, hub, store

LEMMA CoveredFinish ==
    ASSUME TInv, Covered, exec.pc \in {"check", "write", "read"}, NEW ok \in BOOLEAN,
           NEW blobs \in SUBSET Blobs, Finish(ok, blobs)
    PROVE  Covered'
<1>1. <<Result(ok, blobs)>> \in Seq(Message)
  BY ResultType
<1>2. \A i \in 1..Len(<<Result(ok, blobs)>>) : ~Ends(<<Result(ok, blobs)>>[i])
  BY DEF Result, Ends
<1>3. \A s \in Sessions : HasAll(Old, stream'[s], acc[s])
  BY <1>1, <1>2, CoveredEmit DEF Finish
<1> QED
  BY <1>3, CoveredParts DEF Finish, sql, hub, store, ghosts

LEMMA CoveredCommand == TInv /\ Covered /\ Command => Covered'
<1> SUFFICES ASSUME TInv, Covered, Command PROVE Covered'
  OBVIOUS
<1> USE DEF sql, process, wire, hub, store, ghosts
<1>1. CASE (\E c \in Commands : CmdStart(c)) \/ CheckPassed \/ CmdThrows
  BY <1>1, CoveredParts DEF CmdStart, CheckPassed, CmdThrows
<1>2. CASE CheckRefused
  BY <1>2, ReadBlobType, CoveredFinish DEF CheckRefused
<1>3. CASE CmdRefused
  BY <1>3, CoveredFinish DEF CmdRefused
<1>4. CASE CmdRead
  BY <1>4, ReadBlobType, CoveredFinish DEF CmdRead
<1>5. CASE CmdUpdate \/ CmdAdd \/ CmdDelete
  <2>1. /\ exec.cmd \in Commands \/ exec.pc = "idle"
        /\ Exists => exec.job \in Jobs
        /\ exec.pc # "idle" => Order.def \in Defs
    BY DEF TInv, TypeOK, AgentOK, HostOK, Exists, Order, CmdRow
  <2>2. UNCHANGED <<snap, stream, acc, work, jobs>>
    BY <1>5 DEF CmdUpdate, CmdAdd, CmdDelete, CmdDone
  <2>3. \/ \E j \in Jobs : Drop(j)
        \/ \E j \in Jobs, d \in Defs, who \in Commands \cup {"dba"} : Write(j, d, who)
    BY <1>5, <2>1 DEF CmdUpdate, CmdAdd, CmdDelete
  <2> QED
    BY <2>2, <2>3, CoveredWrite
<1> QED
  BY <1>1, <1>2, <1>3, <1>4, <1>5 DEF Command

LEMMA CoveredSnapRead == ASSUME TInv, Covered, NEW p \in Snaps, SnapRead(p) PROVE Covered'
<1>1. \A r \in Snaps : snap'[r] = IF r = p THEN [pc |-> "read", jobs |-> ReadJobs] ELSE snap[r]
  BY DEF SnapRead, TInv, TypeOK, AgentOK
<1>2. Old \subseteq Named(ReadJobs)
  <2>1. \A j \in Live : j \in Named(ReadJobs)
    <3> TAKE j \in Live
    <3>1. Blob(j) \in ReadJobs /\ Blob(j).job = j
      BY BlobType DEF ReadJobs, TInv, TypeOK
    <3> QED
      BY <3>1 DEF Named
  <2> QED
    BY <2>1 DEF Covered
<1>3. \A r \in Snaps : snap'[r].pc = "read" => snap'[r] = snap[r] \/ Old \subseteq Named(snap'[r].jobs)
  BY <1>1, <1>2
<1> QED
  BY <1>3, CoveredParts DEF SnapRead, sql, wire, hub, store

LEMMA CoveredSnapSend == ASSUME TInv, Covered, NEW p \in Snaps, SnapSend(p) PROVE Covered'
<1>1. PICK q \in Orders(snap[p].jobs) : Emit(Chunks(q))
  BY DEF SnapSend
<1>2. q \in Seq(Blobs) /\ stream \in [Sessions -> Seq(Message)]
  BY SnapshotMessages DEF TInv, TypeOK, WireOK
<1>3. \A j \in Old : \E k \in 1..Len(q) : q[k].job = j
  <2> SUFFICES ASSUME NEW j \in Old PROVE \E k \in 1..Len(q) : q[k].job = j
    OBVIOUS
  <2>1. PICK b \in snap[p].jobs : b.job = j
    BY DEF SnapSend, Covered, Named
  <2>2. IsFiniteSet(snap[p].jobs)
    BY DEF TInv, Finite
  <2>3. PICK k \in 1..Len(q) : q[k] = b
    BY <2>2, OrdersAreSequences
  <2> QED
    BY <2>1, <2>3
<1>4. \A s \in Sessions : HasAll(Old, stream'[s], acc[s])
  <2> SUFFICES ASSUME NEW s \in Sessions PROVE HasAll(Old, stream'[s], acc[s])
    OBVIOUS
  <2>1. HasAll(Old, stream[s], acc[s]) /\ stream[s] \in Seq(Message)
    BY <1>2 DEF Covered
  <2>2. stream'[s] = stream[s] \/ stream'[s] = stream[s] \o Chunks(q)
    BY <1>1, <1>2 DEF Emit
  <2> QED
    BY <1>2, <1>3, <2>1, <2>2, SnapshotHasAll
<1>5. \A r \in Snaps : snap'[r].pc = "read" => snap'[r] = snap[r]
  BY DEF SnapSend, SnapDone, TInv, TypeOK, AgentOK
<1> QED
  BY <1>4, <1>5, CoveredParts DEF SnapSend, sql, hub, store, ghosts

LEMMA CoveredDisconnect == ASSUME TInv, Covered, Disconnect PROVE Covered'
<1>1. stream \in [Sessions -> Seq(Message)] /\ link \in Sessions
  BY DEF Disconnect, TInv, TypeOK, WireOK
<1>2. PICK kept \in 0..Len(stream[link]) : stream' = [stream EXCEPT ![link] = SubSeq(@, 1, kept)]
  BY DEF Disconnect
<1>3. \A s \in Sessions : HasAll(Old, stream'[s], acc[s])
  <2> SUFFICES ASSUME NEW s \in Sessions PROVE HasAll(Old, stream'[s], acc[s])
    OBVIOUS
  <2>1. HasAll(Old, stream[s], acc[s])
    BY DEF Covered
  <2>2. stream[s] \in Seq(Message)
    BY <1>1
  <2>3. CASE s = link
    <3>1. stream'[s] = SubSeq(stream[s], 1, kept) /\ kept \in 0..Len(stream[s])
      BY <1>1, <1>2, <2>3
    <3> QED
      BY <2>1, <2>2, <3>1, PrefixHasAll
  <2>4. CASE s # link
    <3>1. stream'[s] = stream[s]
      BY <1>1, <1>2, <2>4
    <3> QED
      BY <2>1, <3>1
  <2> QED
    BY <2>3, <2>4
<1> QED
  BY <1>3, CoveredParts DEF Disconnect, sql, process, hub, store, ghosts

(* Chunks go aside, the last of them starts the transactions of the message.*)
LEMMA CoveredReceive ==
    ASSUME Stalls = 0, TInv, Covered, NEW s \in Sessions, HubReceive(s) PROVE Covered'
<1> DEFINE q == stream[s]  m == Head(stream[s])
<1>1. q \in Seq(Message) /\ q # <<>> /\ m \in Message
  BY Received DEF HubReceive, HubChunk, HubDelta, HubResult, TInv, TypeOK, WireOK
<1>2. HasAll(Old, q, acc[s]) /\ work[s].seen = None
  BY DEF Covered, HubReceive, Nothing
<1>3. /\ stream \in [Sessions -> Seq(Message)] /\ stream' = [stream EXCEPT ![s] = Tail(q)]
      /\ acc \in [Sessions -> SUBSET Blobs]
      /\ work \in [Sessions -> [recs : SUBSET Item, seen : (SUBSET Jobs) \cup {None},
                                new : Item \cup {None}]]
  BY DEF HubReceive, TInv, TypeOK, WireOK, StoreOK
<1>4. /\ HasAll(Old, Tail(q), acc'[s])
      /\ work'[s].seen # None => Old \subseteq work'[s].seen
      /\ \A t \in Sessions \ {s} : acc'[t] = acc[t] /\ work'[t] = work[t]
  <2>1. CASE HubChunk(s)
    <3> DEFINE all == acc[s] \cup m.blobs
    <3>1. /\ m.kind = "chunk"
          /\ \/ /\ Complete(m) /\ acc' = [acc EXCEPT ![s] = {}]
                /\ work' = [work EXCEPT ![s] = [recs |-> {Record(b, "local", None) : b \in all},
                                                seen |-> {b.job : b \in all}, new |-> None]]
             \/ ~Complete(m) /\ acc' = [acc EXCEPT ![s] = all] /\ work' = work
      <4>1. stalled \in Nat
        BY DEF TInv, TypeOK, StoreOK
      <4> QED
        BY <2>1, <4>1 DEF HubChunk
    <3>2. m.blobs \in SUBSET Blobs
      BY <1>1, <3>1 DEF Message
    <3>3. all \in SUBSET Blobs
      BY <1>3, <3>2
    <3>4. Named(m.blobs) \subseteq Named(all) /\ Named(acc[s]) \subseteq Named(all)
      BY DEF Named
    <3>5. CASE Complete(m)
      <4>1. /\ work'[s].seen = Named(all)
            /\ \A t \in Sessions \ {s} : acc'[t] = acc[t] /\ work'[t] = work[t]
        BY <1>3, <3>1, <3>5 DEF Named
      <4>2. Ends(m)
        BY <3>1, <3>5 DEF Ends
      <4>3. HasAll(Old, Tail(q), acc'[s])
        BY <1>1, <1>2, <4>2, TailHasAll
      <4>4. Old \subseteq Named(all)
        <5> SUFFICES ASSUME NEW j \in Old PROVE j \in Named(all)
          OBVIOUS
        <5>1. 1 \in 1..Len(q) /\ q[1] = m
          BY <1>1, EmptySeq, HeadTailProperties
        <5>2. InSnapshot(q, acc[s], 1, j)
          BY <1>2, <4>2, <5>1 DEF HasAll
        <5>3. (\E k \in 1..1 : Brings(q, k, 1, j)) => j \in Named(m.blobs)
          BY <5>1 DEF Brings
        <5>4. PutAside(q, acc[s], 1, j) => j \in Named(acc[s])
          BY DEF PutAside
        <5> HIDE DEF all, m, q
        <5> QED
          BY <3>4, <5>2, <5>3, <5>4 DEF InSnapshot
      <4> QED
        BY <4>1, <4>3, <4>4
    <3>6. CASE ~Complete(m)
      <4>1. /\ acc'[s] = all /\ work' = work
            /\ \A t \in Sessions \ {s} : acc'[t] = acc[t]
        BY <1>3, <3>1, <3>6
      <4>3. HasAll(Old, Tail(q), acc'[s])
        BY <1>1, <1>2, <3>1, <3>4, <4>1, TailHasAll
      <4> QED
        BY <1>2, <4>1, <4>3
    <3> QED
      BY <3>5, <3>6
  <2>2. CASE HubDelta(s) \/ HubResult(s)
    <3>1. m.kind # "chunk" /\ acc' = acc
      BY <2>2 DEF HubDelta, HubResult
    <3>2. HasAll(Old, Tail(q), acc'[s])
      BY <1>1, <1>2, <3>1, TailHasAll
    <3>3. \E recs : work' = [work EXCEPT ![s].recs = recs]
      BY <2>2 DEF HubDelta, HubResult
    <3>4. work'[s].seen = work[s].seen /\ \A t \in Sessions \ {s} : work'[t] = work[t]
      BY <1>3, <3>3
    <3> QED
      BY <1>2, <3>1, <3>2, <3>4
  <2> QED
    BY <2>1, <2>2 DEF HubReceive
<1>5. \A t \in Sessions : HasAll(Old, stream'[t], acc'[t])
  <2> SUFFICES ASSUME NEW t \in Sessions PROVE HasAll(Old, stream'[t], acc'[t])
    OBVIOUS
  <2>1. CASE t = s
    BY <1>3, <1>4, <2>1
  <2>2. CASE t # s
    BY <1>3, <1>4, <2>2 DEF Covered
  <2> QED
    BY <2>1, <2>2
<1>6. \A t \in Sessions : work'[t].seen # None => Old \subseteq work'[t].seen
  BY <1>4 DEF Covered
<1> QED
  BY <1>5, <1>6, CoveredParts DEF HubReceive, sql, process, store, ghosts

LEMMA CoveredHub == ASSUME Stalls = 0, TInv, Covered, NEW s \in Sessions, HubStep(s) PROVE Covered'
<1>w. /\ work \in [Sessions -> [recs : SUBSET Item, seen : (SUBSET Jobs) \cup {None},
                                 new : Item \cup {None}]]
      /\ jobs \in [Jobs -> JobRow \cup {None}]
  BY DEF TInv, TypeOK, StoreOK
<1>1. ASSUME UNCHANGED <<sql, cmd, memory, process, exec, wire, acc, stalled, ghosts>>,
             UNCHANGED jobs \/ NoPhantomDelete',
             work'[s].seen = work[s].seen \/ work'[s].seen = None,
             \A t \in Sessions \ {s} : work'[t] = work[t]
      PROVE  Covered'
  <2>1. \A t \in Sessions : work'[t].seen # None => Old \subseteq work'[t].seen
    BY <1>1 DEF Covered
  <2> QED
    BY <1>1, <2>1, CoveredParts DEF sql, process, wire, ghosts
<1>2. ASSUME NEW r \in Item, Store(r), UNCHANGED ghosts PROVE NoPhantomDelete'
  <2> DEFINE j == r.blob.job
  <2>1. j \in Jobs
    BY DEF Item, Blobs
  <2>2. /\ jobs'[j] # None => jobs'[j].deleted = FALSE
        /\ \A k \in Jobs \ {j} : jobs'[k] = jobs[k]
    <3>1. CASE Unchanged(j, r.blob)
      <4>1. jobs' = [jobs EXCEPT ![j] = [jobs[j] EXCEPT !.deleted = FALSE]] /\ jobs[j] \in JobRow
        BY <1>2, <1>w, <2>1, <3>1 DEF Store, Unchanged
      <4>2. [jobs[j] EXCEPT !.deleted = FALSE].deleted = FALSE
        BY <4>1 DEF JobRow
      <4> QED
        BY <1>w, <2>1, <4>1, <4>2
    <3>2. CASE ~Unchanged(j, r.blob)
      <4>1. jobs' = [jobs EXCEPT ![j] = [def |-> r.blob.def, no |-> Len(versions[j]) + 1,
                                        drift |-> Origin(j, r) = "local", deleted |-> FALSE]]
        BY <1>2, <3>2 DEF Store
      <4> QED
        BY <1>w, <2>1, <4>1
    <3> QED
      BY <3>1, <3>2
  <2> HIDE DEF j
  <2> QED
    BY <1>2, <2>2 DEF Covered, NoPhantomDelete, ghosts
<1>3. CASE HubReceive(s)
  BY <1>3, CoveredReceive
<1>4. CASE HubRecord(s)
  <2>1. PICK r \in work[s].recs : Store(r) /\ work' = [work EXCEPT ![s].recs = @ \ {r}]
    BY <1>4 DEF HubRecord
  <2>2. r \in Item /\ work'[s].seen = work[s].seen /\ \A t \in Sessions \ {s} : work'[t] = work[t]
    BY <1>w, <2>1
  <2>3. NoPhantomDelete'
    BY <1>2, <1>4, <2>1, <2>2 DEF HubRecord
  <2> QED
    BY <1>1, <1>4, <2>2, <2>3 DEF HubRecord
<1>5. CASE HubSelectNone(s)
  <2>1. PICK r \in work[s].recs : work' = [work EXCEPT ![s].new = r, ![s].recs = @ \ {r}]
    BY <1>5 DEF HubSelectNone
  <2>2. work'[s].seen = work[s].seen /\ \A t \in Sessions \ {s} : work'[t] = work[t]
    BY <1>w, <2>1
  <2> QED
    BY <1>1, <1>5, <2>2 DEF HubSelectNone, store
<1>6. CASE HubInsert(s)
  <2>1. /\ work'[s].seen = work[s].seen \/ work'[s].seen = None
        /\ \A t \in Sessions \ {s} : work'[t] = work[t]
    BY <1>6, <1>w DEF HubInsert, Nothing
  <2>2. work[s].new \in Item
    BY <1>6, <1>w DEF HubInsert
  <2>3. UNCHANGED jobs \/ NoPhantomDelete'
    BY <1>2, <1>6, <2>2 DEF HubInsert, store
  <2> QED
    BY <1>1, <1>6, <2>1, <2>3 DEF HubInsert
<1>7. CASE HubReconcile(s)
  <2>1. work'[s].seen = None /\ \A t \in Sessions \ {s} : work'[t] = work[t]
    BY <1>7, <1>w DEF HubReconcile, Nothing
  <2>2. /\ Old \subseteq work[s].seen /\ gone' = gone
        /\ \A j \in work[s].seen \cap Jobs : jobs'[j] = jobs[j]
    BY <1>7 DEF HubReconcile, Covered, ghosts
  <2>3. NoPhantomDelete'
    <3> SUFFICES ASSUME NEW j \in Jobs, jobs'[j] # None, jobs'[j].deleted, j \notin gone PROVE FALSE
      BY <2>2 DEF NoPhantomDelete
    <3>1. jobs'[j] = jobs[j]
      BY <2>2 DEF Old
    <3> QED
      BY <3>1 DEF Covered, NoPhantomDelete
  <2> QED
    BY <1>1, <1>7, <2>1, <2>3 DEF HubReconcile
<1> QED
  BY <1>3, <1>4, <1>5, <1>6, <1>7 DEF HubStep

LEMMA CoveredStep == ASSUME Stalls = 0, TInv, Covered, [Next]_vars PROVE Covered'
<1> USE DEF sql, process, wire, hub, store, ghosts
<1>1. CASE UNCHANGED vars
  BY <1>1, CoveredParts DEF vars
<1>2. CASE SqlHost
  <2>1. UNCHANGED <<snap, stream, acc, work, jobs>>
    BY <1>2 DEF SqlHost, DbaDrop, DbaWrite
  <2> QED
    BY <1>2, <2>1, CoveredWrite DEF SqlHost, DbaDrop, DbaWrite
<1>3. ASSUME NEW s \in Sessions, Connect(s) PROVE Covered'
  <2>1. \A p \in Snaps : snap'[p].pc = "read" => snap'[p] = snap[p]
    BY <1>3 DEF Connect, TInv, TypeOK, AgentOK, Snaps
  <2> QED
    BY <1>3, <2>1, CoveredParts DEF Connect
<1>4. CASE PollSkip \/ PollStart \/ PollFail
  BY <1>4, CoveredParts DEF PollSkip, PollStart, PollFail
<1>5. ASSUME NEW p \in Snaps, SnapFail(p) PROVE Covered'
  <2>1. \A r \in Snaps : snap'[r].pc = "read" => snap'[r] = snap[r]
    BY <1>5 DEF SnapFail, SnapDone, TInv, TypeOK, AgentOK
  <2> QED
    BY <1>5, <2>1, CoveredParts DEF SnapFail
<1>6. ASSUME NEW j \in Jobs, AcknowledgeDrift(j) PROVE Covered'
  <2>1. NoPhantomDelete'
    <3>1. jobs[j] \in JobRow /\ jobs' = [jobs EXCEPT ![j] = [jobs[j] EXCEPT !.drift = FALSE]]
      BY <1>6 DEF AcknowledgeDrift, TInv, TypeOK, StoreOK
    <3>2. [jobs[j] EXCEPT !.drift = FALSE].deleted = jobs[j].deleted /\ jobs[j] # None
      BY <1>6, <3>1 DEF AcknowledgeDrift, JobRow
    <3>3. /\ jobs'[j].deleted = jobs[j].deleted
          /\ \A k \in Jobs \ {j} : jobs'[k] = jobs[k]
      BY <3>1, <3>2 DEF TInv, TypeOK, StoreOK
    <3> QED
      BY <1>6, <3>2, <3>3 DEF AcknowledgeDrift, Covered, NoPhantomDelete
  <2> QED
    BY <1>6, <2>1, CoveredParts DEF AcknowledgeDrift
<1>7. CASE Operator
  BY <1>6, <1>7, CoveredParts DEF Operator, IssueNew, Issue
<1> QED
  BY <1>1, <1>2, <1>3, <1>4, <1>5, <1>7, CoveredSnapRead, CoveredSnapSend, CoveredDisconnect,
     CoveredPollRead, CoveredCommand, CoveredHub
  DEF Next, Snapshot

(* "A half-received snapshot can never soft-delete jobs it simply hasn't    *)
(* seen yet" (hub.ts), as long as no snapshot outlives SNAPSHOT_ABANDON_MS: *)
(* whatever breaks, overlaps or is lost, for snapshots of any number of     *)
(* chunks, a job that was always on the host is never marked deleted.       *)
THEOREM NothingDeletedUnseen == ASSUME Stalls = 0 PROVE Spec => []NoPhantomDelete
<1>1. Init => Covered
  <2> SUFFICES ASSUME Init PROVE Covered
    OBVIOUS
  <2>1. Old \subseteq Live
    BY NamesAssumption, SetsAssumption DEF Init, Old, Live, HostRow
  <2>2. \A s \in Sessions : HasAll(Old, stream[s], acc[s])
    <3>1. \A s \in Sessions : stream[s] = <<>>
      BY DEF Init
    <3> QED
      BY <3>1 DEF HasAll
  <2> QED
    BY <2>1, <2>2 DEF Init, Covered, Nothing, NoPhantomDelete
<1>2. TInv /\ Covered /\ [Next]_vars => Covered'
  BY CoveredStep
<1>3. Spec => []Covered
  BY <1>1, <1>2, TypeInit, TypeStep, PTL DEF Spec
<1> QED
  BY <1>3, PTL DEF Covered

-----------------------------------------------------------------------------
(* The fingerprint and the hash cache.                                      *)

(* No date_modified is ahead of the writes made so far, none is given twice *)
(* after a fingerprint was taken.                                           *)
NotAhead(fp) == fp # None => \A n \in fp.newest : n <= edits
Dated == /\ \A j \in Live : msdb[j].mod <= edits
         /\ NotAhead(lastFp) /\ NotAhead(pollFp)

(* A job the cache has wrong was written after the fingerprint; while a     *)
(* snapshot has read the jobs and not yet the fingerprint, there is none.   *)
Behind(fp) == \A j \in Live : cache[j] = msdb[j].def \/ \A n \in fp.newest : msdb[j].mod > n
Cached == blind = {} => /\ lastFp # None => Behind(lastFp)
                        /\ (\E p \in Snaps : snap[p].pc = "read") => Agrees
FpInv == Dated /\ Cached

LEMMA Latest ==
    ASSUME HostOK, Dated, NEW j \in Live
    PROVE  \E n \in Newest : msdb[j].mod <= n
<1> DEFINE S == {edits - msdb[i].mod : i \in Live}
           R == OpToRel(<, Nat)
<1>1. edits \in Nat /\ \A i \in Live : i \in Jobs /\ msdb[i].mod \in Nat /\ msdb[i].mod <= edits
  BY DEF Live, HostOK, HostRow, Dated
<1>2. S \subseteq Nat /\ edits - msdb[j].mod \in S
  BY <1>1
<1>3. \A w \in S : \E i \in Live : w = edits - msdb[i].mod
  OBVIOUS
<1>4. \A i \in Live : edits - msdb[i].mod \in S
  OBVIOUS
<1>5. IsWellFoundedOn(R, Nat)
  BY NatLessThanWellFounded
<1>6. \A x, y \in Nat : x < y => <<x, y>> \in R
  BY DEF OpToRel
<1> HIDE DEF S, R
<1>7. PICK w \in S : \A v \in S : ~(<<v, w>> \in R)
  BY <1>2, <1>5, WFMin
<1>8. PICK i \in Live : w = edits - msdb[i].mod
  BY <1>3
<1>9. ASSUME NEW k \in Live PROVE msdb[k].mod <= msdb[i].mod
  <2>1. edits - msdb[k].mod \in Nat /\ w \in Nat /\ ~(edits - msdb[k].mod < w)
    BY <1>2, <1>4, <1>6, <1>7
  <2> QED
    BY <1>1, <1>8, <2>1
<1> QED
  BY <1>9 DEF Newest

LEMMA NewestLive ==
    ASSUME HostOK, Dated, NEW n \in Newest
    PROVE  /\ n <= edits
           /\ \A j \in Live : msdb[j].mod \in Nat /\ msdb[j].mod <= n /\ n \in Nat
<1>1. PICK i \in Live : n = msdb[i].mod /\ \A k \in Live : msdb[k].mod <= msdb[i].mod
  BY DEF Newest
<1> QED
  BY <1>1 DEF Dated, Live, HostOK, HostRow

(* What the fingerprint sees is all there is.                               *)
LEMMA NothingHidden == ASSUME HostOK, Dated, Behind(Fingerprint) PROVE Agrees
<1> SUFFICES ASSUME NEW j \in Live PROVE cache[j] = msdb[j].def
  BY DEF Agrees
<1>1. PICK n \in Newest : msdb[j].mod <= n
  BY Latest
<1>2. msdb[j].mod \in Nat /\ n \in Nat
  BY NewestLive
<1>3. Fingerprint.newest = Newest
  BY DEF Fingerprint
<1> QED
  BY <1>1, <1>2, <1>3 DEF Behind

(* A write is dated after every fingerprint; a job dropped is of no concern. *)
LEMMA FpWrite ==
    ASSUME TInv, FpInv, NEW j \in Jobs, Drop(j) \/ \E d \in Defs, who \in Commands \cup {"dba"} : Write(j, d, who),
           UNCHANGED <<cache, lastFp, pollFp, snap>>
    PROVE  FpInv'
<1>0. HostOK /\ edits \in Nat /\ \A k \in Live : msdb[k].mod \in Nat
  BY DEF TInv, TypeOK, HostOK, Live, HostRow
<1>1. /\ edits' = edits + 1 /\ Moved
      /\ \A k \in Live' : (k \in Live /\ msdb'[k] = msdb[k]) \/ msdb'[k].mod = edits + 1
  <2>1. CASE Drop(j)
    BY <1>0, <2>1 DEF Drop, Live, HostOK
  <2>2. ASSUME NEW d \in Defs, NEW who \in Commands \cup {"dba"}, Write(j, d, who)
        PROVE  <1>1!1 /\ <1>1!2
    <3> DEFINE row == [def |-> d, by |-> who, mod |-> edits + 1]
    <3>1. msdb' = [msdb EXCEPT ![j] = row] /\ row.mod = edits + 1
      BY <2>2 DEF Write
    <3> HIDE DEF row
    <3> QED
      BY <1>0, <2>2, <3>1 DEF Write, Live, HostOK
  <2> QED
    BY <2>1, <2>2
<1>2. ASSUME NEW fp \in Fps \cup {None}, NotAhead(fp)
      PROVE  NotAhead(fp)' /\ (fp # None => \A n \in fp.newest : edits + 1 > n)
  BY <1>0, <1>1, <1>2 DEF NotAhead, Fps
<1>3. lastFp \in Fps \cup {None} /\ pollFp \in Fps \cup {None}
  BY DEF TInv, TypeOK, AgentOK
<1>4. NotAhead(lastFp) /\ NotAhead(pollFp) /\ \A k \in Live : msdb[k].mod <= edits
  BY DEF FpInv, Dated
<1>5. Dated'
  <2>1. \A k \in Live' : msdb'[k].mod <= edits'
    BY <1>0, <1>1, <1>4
  <2>2. NotAhead(lastFp)' /\ NotAhead(pollFp)'
    BY <1>0, <1>1, <1>3, <1>4 DEF NotAhead, Fps
  <2> QED
    BY <2>1, <2>2 DEF Dated
<1>6. Cached'
  <2>1. blind' = {} => blind = {} /\ ~\E p \in Snaps : snap[p].pc = "read"
    BY <1>1 DEF Moved
  <2>2. lastFp # None /\ Behind(lastFp) => Behind(lastFp)'
    BY <1>1, <1>2, <1>3, <1>4 DEF Behind
  <2> QED
    BY <2>1, <2>2 DEF FpInv, Cached
<1> QED
  BY <1>5, <1>6 DEF FpInv

LEMMA TakenNow == ASSUME HostOK, Dated PROVE NotAhead(Fingerprint)
BY NewestLive DEF NotAhead, Fingerprint

(* Steps that leave msdb and the cache alone.                               *)
LEMMA FpRest ==
    ASSUME FpInv, UNCHANGED <<msdb, edits, cache, lastFp, blind>>, NotAhead(pollFp'),
           \A p \in Snaps : snap'[p].pc = "read" => snap[p].pc = "read"
    PROVE  FpInv'
<1>1. Live' = Live
  BY DEF Live
<1>2. Dated'
  BY <1>1 DEF FpInv, Dated, NotAhead
<1>3. Cached'
  BY <1>1 DEF FpInv, Cached, Behind, Agrees
<1> QED
  BY <1>2, <1>3 DEF FpInv

LEMMA FpPollRead == ASSUME TInv, FpInv, PollRead PROVE FpInv'
<1>0. /\ HostOK /\ cache \in [Jobs -> Defs \cup {None}] /\ Live \subseteq Jobs
      /\ \A j \in Live : Blob(j) \in ReadJobs /\ Blob(j).job = j /\ Blob(j).def = msdb[j].def
  BY DEF TInv, TypeOK, AgentOK, Live, ReadJobs, Blob
<1>1. UNCHANGED <<msdb, edits>> /\ Live' = Live
  BY DEF PollRead, sql, Live
<1>2. lastFp' \in {lastFp, pollFp} /\ pollFp' \in {pollFp, None}
  BY DEF PollRead
<1>3. Dated'
  BY <1>1, <1>2 DEF FpInv, Dated, NotAhead
<1>4. \A p \in Snaps : snap'[p].pc = "read" => snap[p].pc = "read"
  BY DEF PollRead, TInv, TypeOK, AgentOK
<1>5. CASE link # None
  <2>1. \A j \in Live : cache'[j] = msdb[j].def
    <3> TAKE j \in Live
    <3>1. CASE cache[j] = msdb[j].def
      BY <1>0, <1>5, <3>1 DEF PollRead
    <3>2. CASE cache[j] # msdb[j].def
      <4>1. Blob(j) \in Changed
        BY <1>0, <3>2 DEF Changed
      <4>2. j \in {b.job : b \in Changed}
        BY <1>0, <4>1
      <4> QED
        BY <1>0, <1>5, <4>2 DEF PollRead
    <3> QED
      BY <3>1, <3>2
  <2>2. Cached'
    BY <1>1, <2>1 DEF Cached, Behind, Agrees
  <2> QED
    BY <1>3, <2>2 DEF FpInv
<1>6. CASE link = None
  <2>1. cache' = cache
    <3>1. cache' = [j \in Jobs |-> cache[j]]
      BY <1>6 DEF PollRead
    <3> QED
      BY <1>0, <3>1
  <2>2. blind' = IF Changed # {} THEN blind \cup {"refused"} ELSE blind
    BY <1>6 DEF PollRead
  <2>3. blind' = {} => blind = {} /\ Agrees
    <3>1. Changed = {} => Agrees
      BY <1>0 DEF Changed, Agrees
    <3> QED
      BY <2>2, <3>1
  <2>4. Cached'
    BY <1>1, <2>1, <2>3 DEF Cached, Behind, Agrees
  <2> QED
    BY <1>3, <2>4 DEF FpInv
<1> QED
  BY <1>5, <1>6

LEMMA FpSnapshot == ASSUME TInv, FpInv, NEW p \in Snaps, SnapRead(p) \/ SnapSend(p) \/ SnapFail(p) PROVE FpInv'
<1>0. HostOK /\ Dated /\ \A j \in Live : j \in Jobs /\ msdb[j] # None
  BY DEF TInv, TypeOK, FpInv, Live
<1>1. UNCHANGED <<msdb, edits>> /\ Live' = Live
  BY DEF SnapRead, SnapSend, SnapFail, sql, Live
<1>2. pollFp' \in {pollFp, None} /\ NotAhead(pollFp')
  BY <1>0 DEF SnapRead, SnapSend, SnapFail, SnapDone, Dated, NotAhead
<1>3. CASE SnapRead(p)
  <2>1. \A j \in Live : cache'[j] = msdb[j].def
    BY <1>0, <1>3 DEF SnapRead, Hashes
  <2>2. Cached'
    BY <1>1, <2>1 DEF Cached, Behind, Agrees
  <2>3. Dated'
    BY <1>0, <1>1, <1>2, <1>3 DEF SnapRead, Dated, NotAhead
  <2> QED
    BY <2>2, <2>3 DEF FpInv
<1>4. CASE SnapSend(p)
  <2>1. UNCHANGED <<cache, blind>> /\ lastFp' = Fingerprint /\ snap[p].pc = "read"
    BY <1>4 DEF SnapSend, ghosts
  <2>2. blind' = {} => \A j \in Live' : cache'[j] = msdb'[j].def
    BY <1>1, <2>1 DEF FpInv, Cached, Agrees
  <2>3. Cached'
    BY <2>2 DEF Cached, Behind, Agrees
  <2>4. Dated'
    <3>1. NotAhead(lastFp')
      BY <1>0, <2>1, TakenNow
    <3> QED
      BY <1>0, <1>1, <1>2, <3>1 DEF Dated, NotAhead
  <2> QED
    BY <2>3, <2>4 DEF FpInv
<1>5. CASE SnapFail(p)
  <2>1. \A r \in Snaps : snap'[r].pc = "read" => snap[r].pc = "read"
    BY <1>5 DEF SnapFail, SnapDone, TInv, TypeOK, AgentOK
  <2> QED
    BY <1>1, <1>2, <1>5, <2>1, FpRest DEF SnapFail, memory, ghosts
<1> QED
  BY <1>3, <1>4, <1>5

LEMMA FpCommand == ASSUME TInv, FpInv, Command PROVE FpInv'
<1>0. exec.pc # "idle" => exec.cmd \in Commands /\ exec.job \in Jobs \cup {None} /\ Order \in CmdRow
  BY DEF TInv, TypeOK, AgentOK, HostOK, Order
<1>1. NotAhead(pollFp)
  BY DEF FpInv, Dated
<1>2. ASSUME NEW ok, NEW blobs, Finish(ok, blobs) PROVE FpInv'
  BY <1>1, <1>2, FpRest DEF Finish, sql, ghosts
<1>3. CASE CmdUpdate
  <2>1. PICK d \in Defs : Write(exec.job, d, exec.cmd)
    BY <1>3 DEF CmdUpdate
  <2>2. exec.job \in Jobs /\ exec.cmd \in Commands
    BY <1>0, <1>3 DEF CmdUpdate, Exists
  <2> QED
    BY <1>3, <2>1, <2>2, FpWrite DEF CmdUpdate, CmdDone, memory, process
<1>4. CASE CmdAdd
  <2>1. PICK k \in Jobs : Write(k, Order.def, exec.cmd) /\ CmdDone(k)
    BY <1>4 DEF CmdAdd
  <2>2. exec.cmd \in Commands /\ Order.def \in Defs
    BY <1>0, <1>4 DEF CmdAdd, CmdRow
  <2> QED
    BY <2>1, <2>2, FpWrite DEF CmdDone, memory, process
<1>5. CASE CmdDelete
  <2>1. exec.job \in Jobs
    BY <1>0, <1>5 DEF CmdDelete, Exists
  <2> QED
    BY <1>5, <2>1, FpWrite DEF CmdDelete, CmdDone, memory, process
<1>6. ASSUME CmdThrows \/ CheckPassed \/ \E c \in Commands : CmdStart(c) PROVE FpInv'
  BY <1>1, <1>6, FpRest DEF CmdThrows, CheckPassed, CmdStart, sql, memory, process, ghosts
<1> QED
  BY <1>2, <1>3, <1>4, <1>5, <1>6 DEF Command, CheckRefused, CmdRefused, CmdRead

LEMMA FpStep == ASSUME TInv, FpInv, [Next]_vars PROVE FpInv'
<1>0. HostOK /\ Dated /\ NotAhead(pollFp)
  BY DEF TInv, TypeOK, FpInv, Dated
<1>1. CASE SqlHost
  <2>1. \E j \in Jobs : Drop(j) \/ \E d \in Defs, who \in Commands \cup {"dba"} : Write(j, d, who)
    BY <1>1 DEF SqlHost, DbaDrop, DbaWrite
  <2>2. UNCHANGED <<cache, lastFp, pollFp, snap>>
    BY <1>1 DEF SqlHost, DbaDrop, DbaWrite, memory, process
  <2> QED
    BY <2>1, <2>2, FpWrite
<1>2. ASSUME NEW s \in Sessions, Connect(s) PROVE FpInv'
  <2>1. \A p \in Snaps : snap'[p].pc = "read" => snap[p].pc = "read"
    BY <1>2 DEF Connect, TInv, TypeOK, AgentOK
  <2> QED
    BY <1>0, <1>2, <2>1, FpRest DEF Connect, sql, memory, ghosts
<1>3. CASE PollStart
  <2>1. NotAhead(pollFp')
    BY <1>0, <1>3, TakenNow DEF PollStart
  <2> QED
    BY <1>3, <2>1, FpRest DEF PollStart, sql, memory, ghosts
<1>4. CASE PollFail
  BY <1>4, FpRest DEF PollFail, sql, memory, ghosts, NotAhead
<1>5. CASE Disconnect \/ PollSkip \/ Operator \/ (\E s \in Sessions : HubStep(s)) \/ UNCHANGED vars
  <2>1. UNCHANGED <<sql, memory, process, ghosts>>
    BY <1>5 DEF Disconnect, PollSkip, Operator, AcknowledgeDrift, IssueNew, Issue, HubStep, HubReceive, HubRecord,
       HubSelectNone, HubInsert, HubReconcile, vars
  <2> QED
    BY <1>0, <2>1, FpRest DEF sql, memory, process, ghosts
<1> QED
  BY <1>1, <1>2, <1>3, <1>4, <1>5, FpSnapshot, FpPollRead, FpCommand DEF Next, Snapshot

(* pollDefinitions: the fingerprint (number of jobs, newest date_modified)  *)
(* never hides an edit or a new job from the hash cache, however polls,     *)
(* snapshots of several sessions, commands and a DBA overlap, but for the   *)
(* two situations in which the cache was left behind.                       *)
THEOREM FingerprintIsTrusted == Spec => []FingerprintIsSound
<1>1. Init => FpInv
  <2> SUFFICES ASSUME Init PROVE FpInv
    OBVIOUS
  <2>1. /\ edits = 0 /\ lastFp = None /\ pollFp = None
        /\ \A j \in Live : msdb[j].mod = 0
        /\ \A p \in Snaps : snap[p].pc = "idle"
    BY DEF Init, Live
  <2> QED
    BY <2>1 DEF FpInv, Dated, NotAhead, Cached
<1>2. TInv /\ FpInv /\ [Next]_vars => FpInv'
  BY FpStep
<1>3. TInv /\ FpInv => FingerprintIsSound
  <2> SUFFICES ASSUME TInv, FpInv, lastFp = Fingerprint, blind = {} PROVE Agrees
    BY DEF FingerprintIsSound
  <2>1. HostOK /\ Dated /\ Fingerprint # None
    BY FingerprintType, NamesAssumption DEF TInv, TypeOK, FpInv
  <2>2. Behind(Fingerprint)
    BY <2>1 DEF FpInv, Cached
  <2> QED
    BY <2>1, <2>2, NothingHidden
<1> QED
  BY <1>1, <1>2, <1>3, TypeInit, TypeStep, PTL DEF Spec

-----------------------------------------------------------------------------
(* The promise of a timeline.                                               *)

(* A command that has changed msdb is not waiting, and the one about to     *)
(* change it has not done so.                                               *)
OnceInv ==
    /\ \A x \in applied : cmd[x[1]] # None /\ ~cmd[x[1]].todo
    /\ exec.pc \in {"check", "write"} =>
         ~cmd[exec.cmd].todo /\ \A x \in applied : x[1] # exec.cmd

LEMMA OnceKept ==
    ASSUME OnceInv, UNCHANGED <<applied, cmd>>,
           exec'.pc \in {"check", "write"} => exec.pc \in {"check", "write"} /\ exec'.cmd = exec.cmd
    PROVE  OnceInv'
BY DEF OnceInv

LEMMA OnceCommand == TInv /\ OnceInv /\ Command => OnceInv'
<1> SUFFICES ASSUME TInv, OnceInv, Command PROVE OnceInv'
  OBVIOUS
<1>s. /\ exec \in [pc : {"idle", "check", "write", "read", "repoll"},
                  cmd : Commands \cup {None}, job : Jobs \cup {None}]
      /\ exec.pc # "idle" => exec.cmd \in Commands /\ cmd[exec.cmd] # None
      /\ cmd \in [Commands -> CmdRow \cup {None}]
      /\ applied \subseteq Commands \X Jobs
  BY DEF TInv, TypeOK, AgentOK, HostOK
<1>1. ASSUME NEW c \in Commands, CmdStart(c) PROVE OnceInv'
  <2>1. /\ cmd[c] \in CmdRow /\ cmd[c].todo
        /\ cmd' = [cmd EXCEPT ![c].todo = FALSE] /\ applied' = applied
        /\ exec' = [pc |-> "check", cmd |-> c, job |-> cmd[c].job]
    BY <1>1, <1>s DEF CmdStart, ghosts
  <2>2. cmd'[c] # None /\ ~cmd'[c].todo /\ \A d \in Commands \ {c} : cmd'[d] = cmd[d]
    <3>1. cmd'[c] = [cmd[c] EXCEPT !.todo = FALSE] /\ \A d \in Commands \ {c} : cmd'[d] = cmd[d]
      BY <1>s, <2>1
    <3>2. [cmd[c] EXCEPT !.todo = FALSE] \in CmdRow /\ ~[cmd[c] EXCEPT !.todo = FALSE].todo
      BY <2>1 DEF CmdRow
    <3> QED
      BY <3>1, <3>2, NamesAssumption
  <2>3. \A x \in applied : x[1] \in Commands /\ x[1] # c
    BY <1>s, <2>1 DEF OnceInv
  <2> QED
    BY <2>1, <2>2, <2>3 DEF OnceInv
<1>2. ASSUME NEW ok, NEW blobs, Finish(ok, blobs) PROVE OnceInv'
  BY <1>2, <1>s, OnceKept DEF Finish, ghosts
<1>3. ASSUME NEW j \in Jobs, exec.pc = "write", CmdDone(j) PROVE OnceInv'
  <2>1. /\ applied' = applied \cup {<<exec.cmd, j>>} /\ cmd' = cmd
        /\ exec'.pc = "read"
    BY <1>3, <1>s DEF CmdDone
  <2> QED
    BY <1>3, <1>s, <2>1 DEF OnceInv
<1>4. CASE CmdUpdate \/ CmdAdd \/ CmdDelete
  <2>1. Exists => exec.job \in Jobs
    BY <1>s DEF Exists
  <2> QED
    BY <1>3, <1>4, <2>1 DEF CmdUpdate, CmdAdd, CmdDelete
<1>5. CASE CheckPassed \/ CmdThrows
  BY <1>5, <1>s, OnceKept DEF CheckPassed, CmdThrows, NoCommand, ghosts
<1> QED
  BY <1>1, <1>2, <1>4, <1>5 DEF Command, CheckRefused, CmdRefused, CmdRead

LEMMA OnceStep == TInv /\ OnceInv /\ [Next]_vars => OnceInv'
<1> SUFFICES ASSUME TInv, OnceInv, [Next]_vars PROVE OnceInv'
  OBVIOUS
<1> USE DEF process, hub, store, ghosts
<1>1. CASE UNCHANGED vars
  BY <1>1, OnceKept DEF vars
<1>2. CASE SqlHost \/ (\E s \in Sessions : Connect(s)) \/ Disconnect
  BY <1>2, OnceKept DEF SqlHost, DbaDrop, DbaWrite, Connect, Disconnect
<1>3. CASE PollSkip \/ PollStart \/ PollFail \/ PollRead
  BY <1>3, OnceKept DEF PollSkip, PollStart, PollFail, PollRead, Polled, NoCommand
<1>4. CASE Snapshot
  BY <1>4, OnceKept DEF Snapshot, SnapRead, SnapSend, SnapFail
<1>5. ASSUME NEW c \in Commands, cmd[c] = None, UNCHANGED <<applied, exec>>, NEW row,
             row # None, cmd' = [cmd EXCEPT ![c] = row]
      PROVE  OnceInv'
  <2>1. cmd \in [Commands -> CmdRow \cup {None}] /\ applied \subseteq Commands \X Jobs
        /\ (exec.pc # "idle" => exec.cmd \in Commands /\ cmd[exec.cmd] # None)
    BY DEF TInv, TypeOK, AgentOK, HostOK
  <2>2. \A d \in Commands \ {c} : cmd'[d] = cmd[d]
    BY <1>5, <2>1
  <2> QED
    BY <1>5, <2>1, <2>2 DEF OnceInv
<1>6. CASE Operator
  <2>1. ASSUME NEW j \in Jobs, AcknowledgeDrift(j) PROVE OnceInv'
    BY <2>1, OnceKept DEF AcknowledgeDrift
  <2>2. ASSUME NEW c \in Commands, NEW d \in Defs, IssueNew(c, d) PROVE OnceInv'
    <3>1. [job |-> None, kind |-> "upsert", def |-> d, base |-> None,
           force |-> FALSE, todo |-> TRUE] \in CmdRow
      BY DEF CmdRow
    <3> QED
      BY <1>5, <2>2, <3>1, NamesAssumption DEF IssueNew
  <2>3. ASSUME NEW c \in Commands, NEW d \in Defs, NEW j \in Jobs, NEW kind \in Kinds,
               NEW allow \in BOOLEAN, Issue(c, j, kind, d, allow)
        PROVE  OnceInv'
    <3>1. jobs[j] \in JobRow
      BY <2>3 DEF Issue, TInv, TypeOK, StoreOK
    <3>2. PICK base \in BaseHash(j, allow) :
            cmd' = [cmd EXCEPT ![c] = [job |-> j, kind |-> kind, def |-> d, base |-> base,
                                       force |-> allow /\ kind = "upsert", todo |-> TRUE]]
      BY <2>3 DEF Issue
    <3>3. [job |-> j, kind |-> kind, def |-> d, base |-> base,
           force |-> allow /\ kind = "upsert", todo |-> TRUE] \in CmdRow
      BY <3>1, <3>2, SetsAssumption DEF CmdRow, BaseHash, JobRow
    <3> QED
      BY <1>5, <2>3, <3>2, <3>3, NamesAssumption DEF Issue
  <2> QED
    BY <1>6, <2>1, <2>2, <2>3 DEF Operator
<1>7. ASSUME NEW s \in Sessions, HubStep(s) PROVE OnceInv'
  BY <1>7, OnceKept DEF HubStep, HubReceive, HubRecord, HubSelectNone, HubInsert, HubReconcile
<1> QED
  BY <1>1, <1>2, <1>3, <1>4, <1>6, <1>7, OnceCommand DEF Next

(* The flags of the dashboard.                                              *)
Drifted == [j \in Jobs |-> jobs[j] # None /\ jobs[j].drift]
Deleted == [j \in Jobs |-> jobs[j] # None /\ jobs[j].deleted]

(* Most steps tell the reader of a timeline nothing.                        *)
LEMMA NothingToTell == UNCHANGED <<applied, gone, store>> => UNCHANGED Promise!vars
<1> SUFFICES ASSUME UNCHANGED <<applied, gone, store>> PROVE UNCHANGED Promise!vars
  OBVIOUS
<1>1. Drifted' = Drifted /\ Deleted' = Deleted
  BY DEF store, Drifted, Deleted
<1> QED
  BY <1>1 DEF Promise!vars, Promise!host, store, Drifted, Deleted

(* A step that writes the row of one job changes the flags of that job.     *)
LEMMA FlagsOfRow ==
    ASSUME TInv, NEW j \in Jobs, NEW row \in JobRow, jobs' = [jobs EXCEPT ![j] = row]
    PROVE  /\ Drifted' = [Drifted EXCEPT ![j] = row.drift]
           /\ Deleted' = [Deleted EXCEPT ![j] = row.deleted]
<1>1. jobs'[j] = row /\ row # None /\ \A k \in Jobs \ {j} : jobs'[k] = jobs[k]
  BY NamesAssumption DEF TInv, TypeOK, StoreOK
<1>2. row.drift \in BOOLEAN /\ row.deleted \in BOOLEAN
  BY DEF JobRow
<1> QED
  BY <1>1, <1>2 DEF Drifted, Deleted

(* The version transaction adds a version the promise allows, or confirms   *)
(* the one there is.                                                        *)
LEMMA StoreKeeps ==
    ASSUME TInv, Timeline, NEW r \in BackedItems, Store(r), UNCHANGED <<applied, gone>>
    PROVE  \E j \in Jobs : Promise!Confirm(j) \/ \E v \in Version : Promise!Extend(j, v)
<1> DEFINE j == r.blob.job
<1>1. /\ r \in Item /\ j \in Jobs /\ r.blob.def \in Defs /\ r.blob.by \in Commands \cup {"dba"}
      /\ r.origin \in {"local", "remote"} /\ r.cmd \in Commands \cup {None}
      /\ r.origin = "remote" => <<r.cmd, j>> \in applied
  BY DEF BackedItems, Item, Blobs
<1>2. /\ jobs \in [Jobs -> JobRow \cup {None}] /\ versions \in [Jobs -> Seq(Version)]
      /\ Len(versions[j]) \in Nat
  BY <1>1, LenProperties DEF TInv, TypeOK, StoreOK
<1>3. CASE Unchanged(j, r.blob)
  <2> DEFINE row == [jobs[j] EXCEPT !.deleted = FALSE]
  <2>1. jobs' = [jobs EXCEPT ![j] = row] /\ versions' = versions
    BY <1>3 DEF Store
  <2>2. jobs[j] \in JobRow /\ row \in JobRow /\ row.deleted = FALSE /\ row.drift = jobs[j].drift
    BY <1>1, <1>2, <1>3 DEF Unchanged, JobRow
  <2> HIDE DEF row
  <2>3. Drifted' = [Drifted EXCEPT ![j] = row.drift] /\ Deleted' = [Deleted EXCEPT ![j] = FALSE]
    BY <1>1, <2>1, <2>2, FlagsOfRow
  <2>4. Drifted' = Drifted
    <3>1. Drifted[j] = row.drift
      BY <1>1, <1>3, <2>2 DEF Drifted, Unchanged, JobRow
    <3> QED
      BY <1>1, <2>3, <3>1 DEF Drifted
  <2>5. Promise!Confirm(j)
    BY <2>1, <2>3, <2>4 DEF Promise!Confirm, Promise!host, Drifted, Deleted
  <2> QED
    BY <1>1, <2>5
<1>4. CASE ~Unchanged(j, r.blob)
  <2> DEFINE v == [def |-> r.blob.def, by |-> r.blob.by, origin |-> Origin(j, r), cmd |-> r.cmd]
             row == [def |-> r.blob.def, no |-> Len(versions[j]) + 1,
                     drift |-> Origin(j, r) = "local", deleted |-> FALSE]
  <2>1. jobs' = [jobs EXCEPT ![j] = row] /\ versions' = [versions EXCEPT ![j] = Append(@, v)]
    BY <1>4 DEF Store
  <2>2. /\ v \in Version /\ row \in JobRow /\ v.def = r.blob.def /\ v.cmd = r.cmd
        /\ v.origin = Origin(j, r) /\ row.drift = (v.origin = "local") /\ row.deleted = FALSE
    BY <1>1, <1>2 DEF Origin, Version, JobRow
  <2>3. /\ v.origin = "initial" <=> versions[j] = <<>>
        /\ v.origin = "remote" => <<v.cmd, j>> \in applied
    BY <1>1, <2>2 DEF Origin, Timeline
  <2>4. versions[j] # <<>> => v.def # versions[j][Len(versions[j])].def
    BY <1>1, <1>4, <2>2 DEF Timeline, Unchanged
  <2> HIDE DEF v, row
  <2>5. Drifted' = [Drifted EXCEPT ![j] = (v.origin = "local")] /\ Deleted' = [Deleted EXCEPT ![j] = FALSE]
    BY <1>1, <2>1, <2>2, FlagsOfRow
  <2>6. PICK w \in Version : w = v
    BY <2>2
  <2>7. Promise!Extend(j, w)
    BY <2>1, <2>3, <2>4, <2>5, <2>6 DEF Promise!Extend, Promise!host, Drifted, Deleted
  <2> QED
    BY <1>1, <2>7
<1> QED
  BY <1>3, <1>4

Told == [Promise!Next]_(Promise!vars)

(* A command changes msdb for the first and last time.                      *)
LEMMA AcceptTold ==
    ASSUME TInv, OnceInv, exec.pc = "write", NEW j \in Jobs, CmdDone(j), gone' \in {gone, gone \cup {j}}
    PROVE  Told
<1>1. exec.cmd \in Commands /\ \A x \in applied : x[1] # exec.cmd
  BY DEF TInv, TypeOK, AgentOK, OnceInv
<1>2. PICK c \in Commands : c = exec.cmd
  BY <1>1
<1>3. applied' = applied \cup {<<c, j>>} /\ UNCHANGED store
  BY <1>2 DEF CmdDone
<1>4. Drifted' = Drifted /\ Deleted' = Deleted
  BY <1>3 DEF store, Drifted, Deleted
<1>5. Promise!Accept(c, j)
  BY <1>1, <1>2, <1>3, <1>4 DEF Promise!Accept, store, Drifted, Deleted
<1> QED
  BY <1>5 DEF Told, Promise!Next

LEMMA CommandTold == ASSUME TInv, OnceInv, Command PROVE Told
<1>1. ASSUME UNCHANGED <<applied, gone, store>> PROVE Told
  BY <1>1, NothingToTell DEF Told
<1>2. exec.job \in Jobs \cup {None}
  BY DEF TInv, TypeOK, AgentOK
<1>3. CASE CmdUpdate
  BY <1>2, <1>3, AcceptTold DEF CmdUpdate, Write, Exists
<1>4. CASE CmdAdd
  BY <1>4, AcceptTold DEF CmdAdd, Write
<1>5. CASE CmdDelete
  BY <1>2, <1>5, AcceptTold DEF CmdDelete, Drop, Exists
<1>6. CASE CheckPassed \/ CheckRefused \/ CmdRefused \/ CmdRead \/ CmdThrows \/ \E c \in Commands : CmdStart(c)
  BY <1>1, <1>6 DEF CheckPassed, CheckRefused, CmdRefused, CmdRead, CmdThrows, CmdStart, Finish, ghosts
<1> QED
  BY <1>3, <1>4, <1>5, <1>6 DEF Command

LEMMA HubTold ==
    ASSUME TInv, Timeline, Backed, NoPhantomDelete', NEW s \in Sessions, HubStep(s)
    PROVE  Told
<1>w. /\ work[s].recs \subseteq BackedItems
      /\ work[s].new # None => work[s].new \in BackedItems
  BY DEF Backed
<1>1. ASSUME NEW r \in BackedItems, Store(r), UNCHANGED ghosts PROVE Told
  BY <1>1, StoreKeeps DEF ghosts, Told, Promise!Next
<1>2. ASSUME UNCHANGED <<applied, gone, store>> PROVE Told
  BY <1>2, NothingToTell DEF Told
<1>3. CASE HubReceive(s) \/ HubSelectNone(s)
  BY <1>2, <1>3 DEF HubReceive, HubSelectNone, ghosts
<1>4. CASE HubRecord(s)
  BY <1>1, <1>4, <1>w DEF HubRecord
<1>5. CASE HubInsert(s)
  BY <1>1, <1>2, <1>5, <1>w DEF HubInsert, ghosts
<1>6. CASE HubReconcile(s)
  <2> DEFINE Marked(j) == [jobs[j] EXCEPT !.deleted = TRUE]
             Missing == {j \in Jobs : jobs[j] # None /\ j \notin work[s].seen}
  <2>1. \A j \in Jobs : jobs[j] # None => /\ Marked(j) \in JobRow /\ Marked(j).deleted = TRUE
                                          /\ Marked(j).drift = jobs[j].drift
    BY DEF TInv, TypeOK, StoreOK, JobRow
  <2>2. /\ jobs' = [j \in Jobs |-> IF j \in Missing THEN Marked(j) ELSE jobs[j]]
        /\ UNCHANGED <<versions, applied, gone>>
    BY <1>6 DEF HubReconcile, ghosts
  <2>3. PICK S \in SUBSET Jobs : S = Missing
    OBVIOUS
  <2> HIDE DEF Marked
  <2>4. S \subseteq gone
    BY <2>1, <2>2, <2>3, NamesAssumption DEF NoPhantomDelete
  <2>5. Drifted' = Drifted
    BY <2>1, <2>2, NamesAssumption DEF Drifted
  <2>6. Deleted' = [j \in Jobs |-> Deleted[j] \/ j \in S]
    BY <2>1, <2>2, <2>3, NamesAssumption DEF Deleted
  <2>7. Promise!MarkDeleted(S)
    BY <2>2, <2>5, <2>6 DEF Promise!MarkDeleted, Promise!host, Drifted, Deleted
  <2> QED
    BY <2>4, <2>7 DEF Told, Promise!Next
<1> QED
  BY <1>3, <1>4, <1>5, <1>6 DEF HubStep

LEMMA AcknowledgeTold == ASSUME TInv, NEW j \in Jobs, AcknowledgeDrift(j) PROVE Told
<1> DEFINE row == [jobs[j] EXCEPT !.drift = FALSE]
<1>1. /\ jobs[j] \in JobRow /\ row \in JobRow /\ row.drift = FALSE /\ row.deleted = jobs[j].deleted
      /\ jobs[j] # None
  BY DEF AcknowledgeDrift, TInv, TypeOK, StoreOK, JobRow
<1>2. jobs' = [jobs EXCEPT ![j] = row] /\ UNCHANGED <<versions, applied, gone>>
  BY DEF AcknowledgeDrift, ghosts
<1> HIDE DEF row
<1>3. Drifted' = [Drifted EXCEPT ![j] = FALSE] /\ Deleted' = [Deleted EXCEPT ![j] = row.deleted]
  BY <1>1, <1>2, FlagsOfRow
<1>4. Deleted' = Deleted
  <2>1. Deleted[j] = row.deleted
    BY <1>1 DEF Deleted, JobRow
  <2> QED
    BY <1>3, <2>1 DEF Deleted
<1>5. Promise!Acknowledge(j)
  BY <1>2, <1>3, <1>4 DEF Promise!Acknowledge, Promise!host, Drifted, Deleted
<1> QED
  BY <1>5 DEF Told, Promise!Next

LEMMA StepTold ==
    ASSUME TInv, Timeline, Backed, OnceInv, NoPhantomDelete', [Next]_vars
    PROVE  Told
<1>1. ASSUME UNCHANGED <<applied, gone, store>> PROVE Told
  BY <1>1, NothingToTell DEF Told
<1>2. ASSUME NEW j \in Jobs, DbaDrop(j) PROVE Told
  <2>1. gone' = gone \cup {j} /\ UNCHANGED <<applied, store>>
    BY <1>2 DEF DbaDrop, Drop
  <2>2. Drifted' = Drifted /\ Deleted' = Deleted
    BY <2>1 DEF store, Drifted, Deleted
  <2>3. Promise!Vanish(j)
    BY <2>1, <2>2 DEF Promise!Vanish, store, Drifted, Deleted
  <2> QED
    BY <2>3 DEF Told, Promise!Next
<1>3. ASSUME NEW j \in Jobs, NEW d \in Defs, DbaWrite(j, d) PROVE Told
  BY <1>1, <1>3 DEF DbaWrite, Write
<1>4. CASE Disconnect \/ (\E s \in Sessions : Connect(s)) \/ Snapshot \/ UNCHANGED vars
  BY <1>1, <1>4 DEF Disconnect, Connect, Snapshot, SnapRead, SnapSend, SnapFail, vars, ghosts
<1>5. CASE PollSkip \/ PollStart \/ PollRead \/ PollFail
  BY <1>1, <1>5 DEF PollSkip, PollStart, PollRead, PollFail, ghosts
<1>6. CASE Operator
  BY <1>1, <1>6, AcknowledgeTold DEF Operator, IssueNew, Issue, ghosts
<1> QED
  BY <1>2, <1>3, <1>4, <1>5, <1>6, CommandTold, HubTold DEF Next, SqlHost

(* What the dashboard shows of a job's history is what happened to it, for  *)
(* any interleaving of polls, snapshots, sessions, commands and a DBA: a    *)
(* version put down to a command is one that changed this very job, any     *)
(* other change is flagged as drift until somebody acknowledges it or a     *)
(* newer version comes, and no job is shown deleted that was always there,  *)
(* as long as no snapshot outlives SNAPSHOT_ABANDON_MS.                     *)
THEOREM TimelineIsKept == ASSUME Stalls = 0 PROVE Spec => KeepsTimeline
<1>1. Init => Timeline /\ Backed /\ OnceInv /\ Promise!Init
  <2> SUFFICES ASSUME Init PROVE Timeline /\ Backed /\ OnceInv /\ Promise!Init
    OBVIOUS
  <2>1. Timeline
    BY DEF Init, Timeline
  <2>2. OnceInv
    BY DEF Init, OnceInv, NoCommand
  <2>3. Promise!Init
    BY DEF Init, Promise!Init
  <2>4. Backed
    BY BackedInit
  <2> QED
    BY <2>1, <2>2, <2>3, <2>4
<1>2. Spec => []NoPhantomDelete
  BY NothingDeletedUnseen
<1>3. TInv /\ Timeline /\ Backed /\ OnceInv /\ NoPhantomDelete' /\ [Next]_vars
        => [Promise!Next]_(Promise!vars)
  BY StepTold DEF Told
<1> QED
  BY <1>1, <1>2, <1>3, TypeInit, TypeStep, TimelineStep, BackedStep, OnceStep, PTL
  DEF Spec, KeepsTimeline, Promise!Spec

=============================================================================
