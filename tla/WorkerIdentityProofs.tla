----------------------- MODULE WorkerIdentityProofs -----------------------
(***************************************************************************)
(* Proofs about WorkerIdentity, for any number of sessions, renewals and   *)
(* faults.                                                                 *)
(***************************************************************************)
EXTENDS WorkerIdentity, SequenceTheorems, TLAPS

-----------------------------------------------------------------------------

(* What no step takes back: a certificate keeps its key and its token.      *)
Kept ==
    /\ creds' \in Seq(Credential) /\ Len(creds) <= Len(creds')
    /\ \A c \in 1..Len(creds) : creds'[c].key = creds[c].key /\ creds'[c].tok = creds[c].tok

LEMMA NewIsCredential ==
    ASSUME NEW k \in 1..MaxKeys, NEW t \in Tokens \cup {None}
    PROVE  NewCredential(k, t) \in Credential
BY DEF NewCredential, Credential

(* The hub's transaction: the older rows, revoked or not, then the new one. *)
LEMMA RenewedRows ==
    ASSUME TypeOK, NEW s \in Sess, HubRenew(s)
    PROVE  /\ Kept
           /\ Len(creds') = Len(creds) + 1
           /\ creds'[Len(creds) + 1] = NewCredential(Head(queue[s]), None)
           /\ \A c \in 1..Len(creds) : creds'[c].revoked =
                IF c # sessCred[s] /\ creds[c].revoked = "no" THEN "renewal" ELSE creds[c].revoked
<1> DEFINE old == Superseded(sessCred[s])
<1>1. creds \in Seq(Credential) /\ Head(queue[s]) \in 1..MaxKeys
  <2>1. queue[s] \in Seq(1..MaxKeys) /\ queue[s] # <<>>
    BY DEF TypeOK, HubRenew
  <2>2. creds \in Seq(Credential)
    BY DEF TypeOK
  <2> QED
    BY <2>1, <2>2, HeadTailProperties
<1>2. old \in Seq(Credential) /\ Len(old) = Len(creds)
  <2>1. \A c \in 1..Len(creds) : old[c] \in Credential
    <3> SUFFICES ASSUME NEW c \in 1..Len(creds) PROVE old[c] \in Credential
      OBVIOUS
    <3>1. creds[c] \in Credential
      BY <1>1
    <3>2. [creds[c] EXCEPT !.revoked = "renewal"] \in Credential
      BY <3>1 DEF Credential
    <3> QED
      BY <1>1, <3>1, <3>2 DEF Superseded
  <2>2. old = [c \in 1..Len(creds) |-> old[c]]
    BY <1>1 DEF Superseded
  <2> HIDE DEF old
  <2> QED
    BY <1>1, <2>1, <2>2
<1>3. \A c \in 1..Len(creds) :
         /\ old[c].key = creds[c].key /\ old[c].tok = creds[c].tok
         /\ old[c].revoked = IF c # sessCred[s] /\ creds[c].revoked = "no" THEN "renewal" ELSE creds[c].revoked
  BY <1>1 DEF Superseded, Credential
<1>4. NewCredential(Head(queue[s]), None) \in Credential
  BY <1>1, NewIsCredential
<1>5. creds' = Append(old, NewCredential(Head(queue[s]), None))
  BY DEF HubRenew
<1> HIDE DEF old
<1> QED
  BY <1>1, <1>2, <1>3, <1>4, <1>5 DEF Kept

(* A row that is updated.                                                   *)
LEMMA UpdatedRow ==
    ASSUME TypeOK, NEW d \in 1..Len(creds), NEW r \in Credential,
           r.key = creds[d].key, r.tok = creds[d].tok, creds' = [creds EXCEPT ![d] = r]
    PROVE  Kept /\ Len(creds') = Len(creds)
<1>1. creds \in Seq(Credential)
  BY DEF TypeOK
<1> QED
  BY <1>1 DEF Kept

LEMMA CredsKept == TypeOK /\ [Next]_vars => Kept
<1> SUFFICES ASSUME TypeOK, [Next]_vars PROVE Kept
  OBVIOUS
<1>1. creds \in Seq(Credential)
  BY DEF TypeOK
<1>2. ASSUME NEW e \in Installers, IssueFirst(e) PROVE Kept
  <2>1. setup[e].key \in 1..MaxKeys /\ setup[e].tok \in Tokens
    <3>1. setup[e] \in {Idle, Done} \cup Asked \cup Issued /\ setup[e].pc = "redeemed"
      BY <1>2 DEF TypeOK, IssueFirst
    <3> QED
      BY <3>1 DEF Asked, Issued, Idle, Done
  <2>2. NewCredential(setup[e].key, setup[e].tok) \in Credential
    BY <2>1, NewIsCredential
  <2> QED
    BY <1>1, <1>2, <2>2 DEF IssueFirst, Kept
<1>3. ASSUME NEW s \in Sess, HubRenew(s) PROVE Kept
  BY <1>3, RenewedRows
<1>4. CASE Age
  <2>1. diskCert \in 1..Len(creds)
    BY <1>1, <1>4 DEF Age, TypeOK
  <2>2. creds[diskCert] \in Credential
    BY <1>1, <2>1
  <2>3. [creds[diskCert] EXCEPT !.due = TRUE] \in Credential
    BY <2>2 DEF Credential
  <2> QED
    BY <1>4, <2>1, <2>2, <2>3, UpdatedRow DEF Age, Credential
<1>5. ASSUME NEW c \in 1..MaxKeys, Expire(c) \/ RevokeCredential(c) PROVE Kept
  <2>1. c \in 1..Len(creds)
    BY <1>1, <1>5 DEF Expire, RevokeCredential
  <2>2. creds[c] \in Credential
    BY <1>1, <2>1
  <2>3. /\ [creds[c] EXCEPT !.expired = TRUE] \in Credential
        /\ [creds[c] EXCEPT !.revoked = "admin"] \in Credential
    BY <2>2 DEF Credential
  <2>4. CASE Expire(c)
    BY <2>1, <2>2, <2>3, <2>4, UpdatedRow DEF Expire, Credential
  <2>5. CASE RevokeCredential(c)
    BY <2>1, <2>2, <2>3, <2>5, UpdatedRow DEF RevokeCredential, Credential
  <2> QED
    BY <1>5, <2>4, <2>5
<1>6. CASE UNCHANGED creds
  BY <1>1, <1>6 DEF Kept
<1>7. QED
  BY <1>2, <1>3, <1>4, <1>5, <1>6 DEF Next, Enrolment, Worker, Environment, Enrol, Redeem, EnrolWriteKey,
     EnrolWriteCert, EnrolFails, Connect, OnSessionReady, Break, Crash, RequestRenewal, ResponseTimeout,
     HubRefuse, OnResponse, InstallCertificate, InstallFails, vars

-----------------------------------------------------------------------------
(* Answers on their way to the worker.                                      *)
Answers == [ok : {TRUE}, cert : 1..Len(creds)] \cup [ok : {FALSE}]

(* Type correctness, with what a session that is not ready leaves idle.     *)
Tidy ==
    /\ keys \in 0..MaxKeys
    /\ inbox \in Seq(Answers)
    /\ link \in {0, opened}
    /\ link # 0 => diskCert # 0
    /\ link = 0 => inbox = <<>> /\ ~ready
    /\ ~ready => ~timer /\ pending = 0 /\ installing = 0
    /\ \A s \in Sess : opened < s => queue[s] = <<>>
TInv == TypeOK /\ Tidy

LEMMA Bigger ==
    ASSUME TypeOK, Kept
    PROVE  /\ Answers \subseteq Answers' /\ Issued \subseteq Issued'
           /\ 0..Len(creds) \subseteq 0..Len(creds')
<1>1. creds \in Seq(Credential) /\ creds' \in Seq(Credential) /\ Len(creds) <= Len(creds')
  BY DEF TypeOK, Kept
<1>2. 1..Len(creds) \subseteq 1..Len(creds') /\ 0..Len(creds) \subseteq 0..Len(creds')
  BY <1>1
<1>3. DOMAIN creds = 1..Len(creds) /\ DOMAIN creds' = 1..Len(creds')
  BY <1>1
<1>4. Answers \subseteq Answers'
  BY <1>2 DEF Answers
<1>5. Issued \subseteq Issued'
  BY <1>2, <1>3 DEF Issued
<1> QED
  BY <1>2, <1>4, <1>5

LEMMA HeadAnswer ==
    ASSUME TInv, inbox # <<>>
    PROVE  /\ Head(inbox) \in Answers /\ Tail(inbox) \in Seq(Answers)
           /\ Head(inbox).ok => Head(inbox).cert \in 1..Len(creds)
<1>1. inbox \in Seq(Answers)
  BY DEF TInv, Tidy
<1>2. Head(inbox) \in Answers /\ Tail(inbox) \in Seq(Answers)
  BY <1>1, HeadTailProperties
<1>3. CASE Head(inbox) \in [ok : {TRUE}, cert : 1..Len(creds)]
  BY <1>2, <1>3
<1>4. CASE Head(inbox) \in [ok : {FALSE}]
  <2>1. Head(inbox).ok = FALSE
    BY <1>4
  <2> QED
    BY <1>2, <2>1
<1> QED
  BY <1>2, <1>3, <1>4 DEF Answers

LEMMA Standing ==
    ASSUME TypeOK, NEW e \in Installers
    PROVE  /\ setup[e].pc \in {"idle", "done", "asked", "redeemed", "issued", "keyed"}
           /\ setup[e].pc \in {"asked", "redeemed"} =>
                setup[e] \in Asked /\ setup[e].tok \in Tokens /\ setup[e].key \in 1..MaxKeys
           /\ setup[e].pc \in {"issued", "keyed"} => setup[e] \in Issued /\ setup[e].cert \in 1..Len(creds)
           /\ setup[e].pc \notin {"idle"} => setup[e] # Idle
<1>1. setup[e] \in {Idle, Done} \cup Asked \cup Issued
  BY DEF TypeOK
<1>2. DOMAIN creds = 1..Len(creds)
  BY DEF TypeOK
<1> QED
  BY <1>1, <1>2 DEF Asked, Issued, Idle, Done

(* What the end of a session leaves on the wire.                            *)
LEMMA PrefixLeft ==
    ASSUME TInv, link # 0, NEW n \in 0..Len(queue[link]), EndSession(n)
    PROVE  /\ link \in Sess
           /\ queue' \in [Sess -> Seq(1..MaxKeys)]
           /\ queue'[link] = SubSeq(queue[link], 1, n)
           /\ Len(queue'[link]) = n /\ \A i \in 1..n : queue'[link][i] = queue[link][i]
           /\ \A s \in Sess : queue[s] = <<>> => queue'[s] = <<>>
           /\ \A s \in Sess \ {link} : queue'[s] = queue[s]
<1>1. link \in Sess
  BY IdentityAssumption DEF TInv, TypeOK, Sess
<1>2. queue \in [Sess -> Seq(1..MaxKeys)] /\ queue[link] \in Seq(1..MaxKeys)
  BY <1>1 DEF TInv, TypeOK
<1>3. queue' = [queue EXCEPT ![link] = SubSeq(@, 1, n)]
  BY DEF EndSession
<1>4. /\ SubSeq(queue[link], 1, n) \in Seq(1..MaxKeys)
      /\ Len(SubSeq(queue[link], 1, n)) = n
      /\ \A i \in 1..n : SubSeq(queue[link], 1, n)[i] = queue[link][i]
  <2>1. n \in Nat /\ \A i \in 1..n : queue[link][i] \in 1..MaxKeys
    <3>1. queue[link] \in Seq(1..MaxKeys) /\ n \in 0..Len(queue[link])
      BY <1>2
    <3> QED
      BY <3>1, IdentityAssumption
  <2> QED
    BY <2>1, SubSeqProperties
<1>5. queue[link] = <<>> => n = 0
  BY <1>2
<1> QED
  BY <1>1, <1>2, <1>3, <1>4, <1>5

LEMMA TypeInit == Init => TInv
<1> SUFFICES ASSUME Init PROVE TInv
  OBVIOUS
<1>1. Len(creds) = 0 /\ creds \in Seq(Credential)
  BY DEF Init
<1>2. TypeOK
  <2>1. setup \in [Installers -> {Idle, Done} \cup Asked \cup Issued]
    BY DEF Init
  <2>2. sessCred \in [Sess -> 0..Len(creds)] /\ diskCert \in 0..Len(creds) /\ installing \in 0..Len(creds)
    BY <1>1 DEF Init
  <2>3. queue \in [Sess -> Seq(1..MaxKeys)]
    BY DEF Init
  <2>4. used \subseteq Tokens /\ diskKey \in 0..MaxKeys /\ opened \in 0..MaxSessions
        /\ link \in 0..opened /\ pending \in 0..MaxKeys
    BY IdentityAssumption DEF Init
  <2>5. torn \in BOOLEAN /\ overtaken \in BOOLEAN /\ ready \in BOOLEAN /\ timer \in BOOLEAN
    BY DEF Init
  <2> QED
    BY <1>1, <2>1, <2>2, <2>3, <2>4, <2>5 DEF TypeOK
<1>3. Tidy
  BY IdentityAssumption DEF Init, Tidy
<1> QED
  BY <1>2, <1>3 DEF TInv

(* The invariant in parts.                                             *)
EnrolOK ==
    /\ used \subseteq Tokens
    /\ creds \in Seq(Credential)
    /\ setup \in [Installers -> {Idle, Done} \cup Asked \cup Issued]
DiskOK == diskKey \in 0..MaxKeys /\ diskCert \in 0..Len(creds)
FlagsOK == torn \in BOOLEAN /\ overtaken \in BOOLEAN /\ ready \in BOOLEAN /\ timer \in BOOLEAN
CountsOK ==
    /\ opened \in 0..MaxSessions /\ link \in {0, opened}
    /\ sessCred \in [Sess -> 0..Len(creds)]
    /\ pending \in 0..MaxKeys /\ installing \in 0..Len(creds) /\ keys \in 0..MaxKeys
    /\ link # 0 => diskCert # 0
RestOK ==
    /\ link = 0 => inbox = <<>> /\ ~ready
    /\ ~ready => ~timer /\ pending = 0 /\ installing = 0
WireOK ==
    /\ queue \in [Sess -> Seq(1..MaxKeys)]
    /\ inbox \in Seq(Answers)
    /\ \A s \in Sess : opened < s => queue[s] = <<>>

LEMMA Parts == TInv <=> EnrolOK /\ DiskOK /\ CountsOK /\ FlagsOK /\ RestOK /\ WireOK
<1>1. creds \in Seq(Credential) => Len(creds) \in Nat
  OBVIOUS
<1> QED
  BY <1>1, IdentityAssumption DEF TInv, TypeOK, Tidy, EnrolOK, DiskOK, CountsOK, FlagsOK, RestOK, WireOK

LEMMA PartsNext == (EnrolOK /\ DiskOK /\ CountsOK /\ FlagsOK /\ RestOK /\ WireOK)' => TInv'
<1>1. creds' \in Seq(Credential) => Len(creds') \in Nat
  OBVIOUS
<1> QED
  BY <1>1, IdentityAssumption DEF TInv, TypeOK, Tidy, EnrolOK, DiskOK, CountsOK, FlagsOK, RestOK, WireOK

LEMMA EnrolKept == TInv /\ [Next]_vars => EnrolOK'
<1> SUFFICES ASSUME TInv, [Next]_vars PROVE EnrolOK'
  OBVIOUS
<1> USE IdentityAssumption DEF TInv
<1>a. Kept /\ TypeOK
  BY CredsKept
<1>b. /\ Answers \subseteq Answers' /\ Issued \subseteq Issued' /\ 0..Len(creds) \subseteq 0..Len(creds')
  BY <1>a, Bigger
<1>1. ASSUME NEW e \in Installers, NEW t \in Tokens, Enrol(e, t) PROVE EnrolOK'
  <2>1. [pc |-> "asked", tok |-> t, key |-> keys + 1] \in Asked
    BY <1>1 DEF Enrol, Asked, Tidy
  <2> QED
    BY <1>1, <1>a, <1>b, <2>1 DEF EnrolOK, TypeOK, Kept, Enrol
<1>2. ASSUME NEW e \in Installers, Redeem(e) PROVE EnrolOK'
  <2>1. setup[e] \in Asked /\ setup[e].tok \in Tokens
    BY <1>2, <1>a, Standing DEF Redeem
  <2>2. [setup[e] EXCEPT !.pc = "redeemed"] \in Asked
    BY <2>1 DEF Asked
  <2> QED
    BY <1>2, <1>a, <1>b, <2>1, <2>2 DEF EnrolOK, TypeOK, Kept, Redeem
<1>3. ASSUME NEW e \in Installers, IssueFirst(e) PROVE EnrolOK'
  <2>1. creds' = Append(creds, NewCredential(setup[e].key, setup[e].tok)) /\ creds' \in Seq(Credential)
    BY <1>3, <1>a DEF IssueFirst, Kept
  <2>2. Len(creds) + 1 \in DOMAIN creds'
    BY <1>a, <2>1 DEF TypeOK
  <2>3. [pc |-> "issued", cert |-> Len(creds) + 1] \in Issued'
    BY <2>2 DEF Issued
  <2> QED
    BY <1>3, <1>a, <1>b, <2>1, <2>3 DEF EnrolOK, TypeOK, IssueFirst
<1>4. ASSUME NEW e \in Installers, EnrolWriteKey(e) PROVE EnrolOK'
  <2>1. setup[e] \in Issued
    BY <1>4, <1>a, Standing DEF EnrolWriteKey
  <2>2. [setup[e] EXCEPT !.pc = "keyed"] \in Issued
    BY <2>1 DEF Issued
  <2> QED
    BY <1>4, <1>a, <1>b, <2>2 DEF EnrolOK, TypeOK, Kept, EnrolWriteKey
<1>5. ASSUME NEW e \in Installers, EnrolWriteCert(e) PROVE EnrolOK'
  BY <1>5, <1>a, <1>b DEF EnrolOK, TypeOK, Kept, EnrolWriteCert, enrolVars
<1>6. ASSUME NEW e \in Installers, EnrolFails(e) PROVE EnrolOK'
  BY <1>6, <1>a, <1>b DEF EnrolOK, TypeOK, Kept, EnrolFails, enrolVars
<1>7. ASSUME Connect PROVE EnrolOK'
  BY <1>7, <1>a, <1>b DEF EnrolOK, TypeOK, Kept, Connect, enrolVars
<1>8. ASSUME OnSessionReady PROVE EnrolOK'
  BY <1>8, <1>a, <1>b DEF EnrolOK, TypeOK, Kept, OnSessionReady, enrolVars
<1>9. ASSUME RequestRenewal PROVE EnrolOK'
  BY <1>9, <1>a, <1>b DEF EnrolOK, TypeOK, Kept, RequestRenewal, enrolVars
<1>10. ASSUME OnResponse PROVE EnrolOK'
  BY <1>10, <1>a, <1>b DEF EnrolOK, TypeOK, Kept, OnResponse, enrolVars
<1>11. ASSUME InstallCertificate PROVE EnrolOK'
  BY <1>11, <1>a, <1>b DEF EnrolOK, TypeOK, Kept, InstallCertificate, enrolVars
<1>12. ASSUME NEW s \in Sess, HubRenew(s) PROVE EnrolOK'
  BY <1>12, <1>a, <1>b DEF EnrolOK, TypeOK, Kept, HubRenew, enrolVars
<1>13. ASSUME NEW s \in Sess, HubRefuse(s) PROVE EnrolOK'
  BY <1>13, <1>a, <1>b DEF EnrolOK, TypeOK, Kept, HubRefuse, enrolVars
<1>14. ASSUME Break PROVE EnrolOK'
  BY <1>14, <1>a, <1>b DEF EnrolOK, TypeOK, Kept, Break, enrolVars
<1>15. ASSUME Crash PROVE EnrolOK'
  BY <1>15, <1>a, <1>b DEF EnrolOK, TypeOK, Kept, Crash, enrolVars
<1>16. ASSUME Age PROVE EnrolOK'
  BY <1>16, <1>a, <1>b DEF EnrolOK, TypeOK, Kept, Age, enrolVars
<1>17. ASSUME ResponseTimeout PROVE EnrolOK'
  BY <1>17, <1>a, <1>b DEF EnrolOK, TypeOK, Kept, ResponseTimeout, enrolVars
<1>18. ASSUME InstallFails PROVE EnrolOK'
  BY <1>18, <1>a, <1>b DEF EnrolOK, TypeOK, Kept, InstallFails, enrolVars
<1>19. ASSUME NEW c \in 1..MaxKeys, Expire(c) PROVE EnrolOK'
  BY <1>19, <1>a, <1>b DEF EnrolOK, TypeOK, Kept, Expire, enrolVars
<1>20. ASSUME NEW c \in 1..MaxKeys, RevokeCredential(c) PROVE EnrolOK'
  BY <1>20, <1>a, <1>b DEF EnrolOK, TypeOK, Kept, RevokeCredential, enrolVars
<1>21. CASE UNCHANGED vars
  BY <1>21, <1>a, <1>b DEF EnrolOK, TypeOK, Kept, vars, enrolVars
<1> QED
  BY <1>1, <1>2, <1>3, <1>4, <1>5, <1>6, <1>7, <1>8, <1>9, <1>10, <1>11, <1>12, <1>13, <1>14, <1>15, <1>16, <1>17, <1>18, <1>19, <1>20, <1>21 DEF Next, Enrolment, Worker, Environment

LEMMA DiskKept == TInv /\ [Next]_vars => DiskOK'
<1> SUFFICES ASSUME TInv, [Next]_vars PROVE DiskOK'
  OBVIOUS
<1> USE IdentityAssumption DEF TInv
<1>a. Kept /\ TypeOK
  BY CredsKept
<1>b. /\ Answers \subseteq Answers' /\ Issued \subseteq Issued' /\ 0..Len(creds) \subseteq 0..Len(creds')
  BY <1>a, Bigger
<1>1. ASSUME NEW e \in Installers, NEW t \in Tokens, Enrol(e, t) PROVE DiskOK'
  BY <1>1, <1>a, <1>b DEF DiskOK, TypeOK, Enrol, diskVars
<1>2. ASSUME NEW e \in Installers, Redeem(e) PROVE DiskOK'
  BY <1>2, <1>a, <1>b DEF DiskOK, TypeOK, Redeem, diskVars
<1>3. ASSUME NEW e \in Installers, IssueFirst(e) PROVE DiskOK'
  BY <1>3, <1>a, <1>b DEF DiskOK, TypeOK, IssueFirst, diskVars
<1>4. ASSUME NEW e \in Installers, EnrolWriteKey(e) PROVE DiskOK'
  <2>1. setup[e].cert \in 1..Len(creds)
    BY <1>4, <1>a, Standing DEF EnrolWriteKey
  <2>2. creds[setup[e].cert] \in Credential
    BY <1>a, <2>1 DEF TypeOK
  <2> QED
    BY <1>4, <1>a, <1>b, <2>2 DEF DiskOK, TypeOK, EnrolWriteKey, Credential
<1>5. ASSUME NEW e \in Installers, EnrolWriteCert(e) PROVE DiskOK'
  <2>1. setup[e].cert \in 1..Len(creds)
    BY <1>5, <1>a, Standing DEF EnrolWriteCert
  <2> QED
    BY <1>5, <1>a, <2>1 DEF DiskOK, TypeOK, EnrolWriteCert
<1>6. ASSUME NEW e \in Installers, EnrolFails(e) PROVE DiskOK'
  BY <1>6, <1>a, <1>b DEF DiskOK, TypeOK, EnrolFails, diskVars
<1>7. ASSUME Connect PROVE DiskOK'
  BY <1>7, <1>a, <1>b DEF DiskOK, TypeOK, Connect, diskVars
<1>8. ASSUME OnSessionReady PROVE DiskOK'
  BY <1>8, <1>a, <1>b DEF DiskOK, TypeOK, OnSessionReady, diskVars
<1>9. ASSUME RequestRenewal PROVE DiskOK'
  BY <1>9, <1>a, <1>b DEF DiskOK, TypeOK, RequestRenewal, diskVars
<1>10. ASSUME OnResponse PROVE DiskOK'
  BY <1>10, <1>a, <1>b DEF DiskOK, TypeOK, OnResponse, diskVars
<1>11. ASSUME InstallCertificate PROVE DiskOK'
  BY <1>11, <1>a, <1>b DEF DiskOK, TypeOK, InstallCertificate, diskVars
<1>12. ASSUME NEW s \in Sess, HubRenew(s) PROVE DiskOK'
  BY <1>12, <1>a, <1>b DEF DiskOK, TypeOK, HubRenew, diskVars
<1>13. ASSUME NEW s \in Sess, HubRefuse(s) PROVE DiskOK'
  BY <1>13, <1>a, <1>b DEF DiskOK, TypeOK, HubRefuse, diskVars
<1>14. ASSUME Break PROVE DiskOK'
  BY <1>14, <1>a, <1>b DEF DiskOK, TypeOK, Break, diskVars
<1>15. ASSUME Crash PROVE DiskOK'
  BY <1>15, <1>a, <1>b DEF DiskOK, TypeOK, Crash, enrolVars
<1>16. ASSUME Age PROVE DiskOK'
  BY <1>16, <1>a, <1>b DEF DiskOK, TypeOK, Age, diskVars
<1>17. ASSUME ResponseTimeout PROVE DiskOK'
  BY <1>17, <1>a, <1>b DEF DiskOK, TypeOK, ResponseTimeout, diskVars
<1>18. ASSUME InstallFails PROVE DiskOK'
  BY <1>18, <1>a, <1>b DEF DiskOK, TypeOK, InstallFails, diskVars
<1>19. ASSUME NEW c \in 1..MaxKeys, Expire(c) PROVE DiskOK'
  BY <1>19, <1>a, <1>b DEF DiskOK, TypeOK, Expire, diskVars
<1>20. ASSUME NEW c \in 1..MaxKeys, RevokeCredential(c) PROVE DiskOK'
  BY <1>20, <1>a, <1>b DEF DiskOK, TypeOK, RevokeCredential, diskVars
<1>21. CASE UNCHANGED vars
  BY <1>21, <1>a, <1>b DEF DiskOK, TypeOK, vars, diskVars
<1> QED
  BY <1>1, <1>2, <1>3, <1>4, <1>5, <1>6, <1>7, <1>8, <1>9, <1>10, <1>11, <1>12, <1>13, <1>14, <1>15, <1>16, <1>17, <1>18, <1>19, <1>20, <1>21 DEF Next, Enrolment, Worker, Environment

LEMMA CountsKept == TInv /\ [Next]_vars => CountsOK'
<1> SUFFICES ASSUME TInv, [Next]_vars PROVE CountsOK'
  OBVIOUS
<1> USE IdentityAssumption DEF TInv
<1>a. Kept /\ TypeOK
  BY CredsKept
<1>b. /\ Answers \subseteq Answers' /\ Issued \subseteq Issued' /\ 0..Len(creds) \subseteq 0..Len(creds')
  BY <1>a, Bigger
<1>d. CountsOK /\ FlagsOK /\ RestOK /\ DiskOK
  BY <1>a, Parts
<1>1. ASSUME NEW e \in Installers, NEW t \in Tokens, Enrol(e, t) PROVE CountsOK'
  BY <1>1, <1>b, <1>d DEF CountsOK, Enrol, linkVars, renewVars, boundVars, diskVars
<1>2. ASSUME NEW e \in Installers, Redeem(e) PROVE CountsOK'
  BY <1>2, <1>b, <1>d DEF CountsOK, Redeem, linkVars, renewVars, boundVars, diskVars
<1>3. ASSUME NEW e \in Installers, IssueFirst(e) PROVE CountsOK'
  BY <1>3, <1>b, <1>d DEF CountsOK, IssueFirst, linkVars, renewVars, boundVars, diskVars
<1>4. ASSUME NEW e \in Installers, EnrolWriteKey(e) PROVE CountsOK'
  BY <1>4, <1>b, <1>d DEF CountsOK, EnrolWriteKey, linkVars, renewVars, boundVars, diskVars
<1>5. ASSUME NEW e \in Installers, EnrolWriteCert(e) PROVE CountsOK'
  <2>1. setup[e].cert \in 1..Len(creds) /\ Len(creds) \in Nat
    BY <1>5, <1>a, Standing DEF EnrolWriteCert, TypeOK
  <2> QED
    BY <1>5, <1>b, <1>d, <2>1 DEF CountsOK, EnrolWriteCert, linkVars, renewVars, boundVars
<1>6. ASSUME NEW e \in Installers, EnrolFails(e) PROVE CountsOK'
  BY <1>6, <1>b, <1>d DEF CountsOK, EnrolFails, linkVars, renewVars, boundVars, diskVars
<1>7. ASSUME Connect PROVE CountsOK'
  <2>1. sessCred' \in [Sess -> 0..Len(creds')]
    BY <1>7, <1>b, <1>d DEF CountsOK, DiskOK, Connect
  <2> QED
    BY <1>7, <1>b, <1>d, <2>1 DEF CountsOK, Connect, renewVars, boundVars, diskVars
<1>8. ASSUME OnSessionReady PROVE CountsOK'
  BY <1>8, <1>b, <1>d DEF CountsOK, OnSessionReady, linkVars, renewVars, boundVars, diskVars
<1>9. ASSUME RequestRenewal PROVE CountsOK'
  BY <1>9, <1>b, <1>d DEF CountsOK, RequestRenewal, linkVars, renewVars, boundVars, diskVars
<1>10. ASSUME OnResponse PROVE CountsOK'
  <2>1. Head(inbox).ok => Head(inbox).cert \in 1..Len(creds)
    BY <1>10, HeadAnswer DEF OnResponse
  <2>2. Len(creds) \in Nat
    BY <1>a DEF TypeOK
  <2> QED
    BY <1>10, <1>b, <1>d, <2>1, <2>2 DEF CountsOK, OnResponse, linkVars, boundVars, diskVars
<1>11. ASSUME InstallCertificate PROVE CountsOK'
  BY <1>11, <1>b, <1>d DEF CountsOK, InstallCertificate, EndSession, enrolVars, diskVars, boundVars
<1>12. ASSUME NEW s \in Sess, HubRenew(s) PROVE CountsOK'
  BY <1>12, <1>b, <1>d DEF CountsOK, HubRenew, linkVars, renewVars, boundVars, diskVars
<1>13. ASSUME NEW s \in Sess, HubRefuse(s) PROVE CountsOK'
  BY <1>13, <1>b, <1>d DEF CountsOK, HubRefuse, linkVars, renewVars, boundVars, diskVars
<1>14. ASSUME Break PROVE CountsOK'
  BY <1>14, <1>b, <1>d DEF CountsOK, Break, EndSession, enrolVars, diskVars, boundVars
<1>15. ASSUME Crash PROVE CountsOK'
  BY <1>15, <1>b, <1>d DEF CountsOK, Crash, EndSession, enrolVars, diskVars, boundVars
<1>16. ASSUME Age PROVE CountsOK'
  BY <1>16, <1>b, <1>d DEF CountsOK, Age, linkVars, renewVars, boundVars, diskVars
<1>17. ASSUME ResponseTimeout PROVE CountsOK'
  BY <1>17, <1>b, <1>d DEF CountsOK, ResponseTimeout, linkVars, renewVars, boundVars, diskVars
<1>18. ASSUME InstallFails PROVE CountsOK'
  BY <1>18, <1>b, <1>d DEF CountsOK, InstallFails, linkVars, renewVars, boundVars, diskVars
<1>19. ASSUME NEW c \in 1..MaxKeys, Expire(c) PROVE CountsOK'
  BY <1>19, <1>b, <1>d DEF CountsOK, Expire, linkVars, renewVars, boundVars, diskVars
<1>20. ASSUME NEW c \in 1..MaxKeys, RevokeCredential(c) PROVE CountsOK'
  BY <1>20, <1>b, <1>d DEF CountsOK, RevokeCredential, linkVars, renewVars, boundVars, diskVars
<1>21. CASE UNCHANGED vars
  BY <1>21, <1>b, <1>d DEF CountsOK, vars, linkVars, renewVars, boundVars, diskVars
<1> QED
  BY <1>1, <1>2, <1>3, <1>4, <1>5, <1>6, <1>7, <1>8, <1>9, <1>10, <1>11, <1>12, <1>13, <1>14, <1>15, <1>16, <1>17, <1>18, <1>19, <1>20, <1>21 DEF Next, Enrolment, Worker, Environment

LEMMA FlagsKept == TInv /\ [Next]_vars => FlagsOK'
<1> SUFFICES ASSUME TInv, [Next]_vars PROVE FlagsOK'
  OBVIOUS
<1> USE IdentityAssumption DEF TInv
<1>a. Kept /\ TypeOK
  BY CredsKept
<1>b. /\ Answers \subseteq Answers' /\ Issued \subseteq Issued' /\ 0..Len(creds) \subseteq 0..Len(creds')
  BY <1>a, Bigger
<1>d. CountsOK /\ FlagsOK /\ RestOK /\ DiskOK
  BY <1>a, Parts
<1>1. ASSUME NEW e \in Installers, NEW t \in Tokens, Enrol(e, t) PROVE FlagsOK'
  BY <1>1, <1>d DEF FlagsOK, Enrol, linkVars, renewVars, boundVars, diskVars
<1>2. ASSUME NEW e \in Installers, Redeem(e) PROVE FlagsOK'
  BY <1>2, <1>d DEF FlagsOK, Redeem, linkVars, renewVars, boundVars, diskVars
<1>3. ASSUME NEW e \in Installers, IssueFirst(e) PROVE FlagsOK'
  BY <1>3, <1>d DEF FlagsOK, IssueFirst, linkVars, renewVars, boundVars, diskVars
<1>4. ASSUME NEW e \in Installers, EnrolWriteKey(e) PROVE FlagsOK'
  BY <1>4, <1>d DEF FlagsOK, EnrolWriteKey, linkVars, renewVars, boundVars, diskVars
<1>5. ASSUME NEW e \in Installers, EnrolWriteCert(e) PROVE FlagsOK'
  BY <1>5, <1>d DEF FlagsOK, EnrolWriteCert, linkVars, renewVars, boundVars, diskVars
<1>6. ASSUME NEW e \in Installers, EnrolFails(e) PROVE FlagsOK'
  BY <1>6, <1>d DEF FlagsOK, EnrolFails, linkVars, renewVars, boundVars, diskVars
<1>7. ASSUME Connect PROVE FlagsOK'
  BY <1>7, <1>d DEF FlagsOK, Connect, linkVars, renewVars, boundVars, diskVars
<1>8. ASSUME OnSessionReady PROVE FlagsOK'
  BY <1>8, <1>d DEF FlagsOK, OnSessionReady, linkVars, renewVars, boundVars, diskVars
<1>9. ASSUME RequestRenewal PROVE FlagsOK'
  BY <1>9, <1>d DEF FlagsOK, RequestRenewal, linkVars, renewVars, boundVars, diskVars
<1>10. ASSUME OnResponse PROVE FlagsOK'
  BY <1>10, <1>d DEF FlagsOK, OnResponse, linkVars, renewVars, boundVars, diskVars
<1>11. ASSUME InstallCertificate PROVE FlagsOK'
  BY <1>11, <1>d DEF FlagsOK, InstallCertificate, EndSession, linkVars, renewVars, boundVars, diskVars
<1>12. ASSUME NEW s \in Sess, HubRenew(s) PROVE FlagsOK'
  BY <1>12, <1>d DEF FlagsOK, HubRenew, linkVars, renewVars, boundVars, diskVars
<1>13. ASSUME NEW s \in Sess, HubRefuse(s) PROVE FlagsOK'
  BY <1>13, <1>d DEF FlagsOK, HubRefuse, linkVars, renewVars, boundVars, diskVars
<1>14. ASSUME Break PROVE FlagsOK'
  BY <1>14, <1>d DEF FlagsOK, Break, EndSession, linkVars, renewVars, boundVars, diskVars
<1>15. ASSUME Crash PROVE FlagsOK'
  BY <1>15, <1>d DEF FlagsOK, Crash, EndSession, linkVars, renewVars, boundVars, diskVars
<1>16. ASSUME Age PROVE FlagsOK'
  BY <1>16, <1>d DEF FlagsOK, Age, linkVars, renewVars, boundVars, diskVars
<1>17. ASSUME ResponseTimeout PROVE FlagsOK'
  BY <1>17, <1>d DEF FlagsOK, ResponseTimeout, linkVars, renewVars, boundVars, diskVars
<1>18. ASSUME InstallFails PROVE FlagsOK'
  BY <1>18, <1>d DEF FlagsOK, InstallFails, linkVars, renewVars, boundVars, diskVars
<1>19. ASSUME NEW c \in 1..MaxKeys, Expire(c) PROVE FlagsOK'
  BY <1>19, <1>d DEF FlagsOK, Expire, linkVars, renewVars, boundVars, diskVars
<1>20. ASSUME NEW c \in 1..MaxKeys, RevokeCredential(c) PROVE FlagsOK'
  BY <1>20, <1>d DEF FlagsOK, RevokeCredential, linkVars, renewVars, boundVars, diskVars
<1>21. CASE UNCHANGED vars
  BY <1>21, <1>d DEF FlagsOK, vars, linkVars, renewVars, boundVars, diskVars
<1> QED
  BY <1>1, <1>2, <1>3, <1>4, <1>5, <1>6, <1>7, <1>8, <1>9, <1>10, <1>11, <1>12, <1>13, <1>14, <1>15, <1>16, <1>17, <1>18, <1>19, <1>20, <1>21 DEF Next, Enrolment, Worker, Environment

LEMMA RestKept == TInv /\ [Next]_vars => RestOK'
<1> SUFFICES ASSUME TInv, [Next]_vars PROVE RestOK'
  OBVIOUS
<1> USE IdentityAssumption DEF TInv
<1>a. Kept /\ TypeOK
  BY CredsKept
<1>b. /\ Answers \subseteq Answers' /\ Issued \subseteq Issued' /\ 0..Len(creds) \subseteq 0..Len(creds')
  BY <1>a, Bigger
<1>d. CountsOK /\ FlagsOK /\ RestOK /\ DiskOK
  BY <1>a, Parts
<1>1. ASSUME NEW e \in Installers, NEW t \in Tokens, Enrol(e, t) PROVE RestOK'
  BY <1>1, <1>d DEF RestOK, Enrol, linkVars, renewVars, boundVars, diskVars
<1>2. ASSUME NEW e \in Installers, Redeem(e) PROVE RestOK'
  BY <1>2, <1>d DEF RestOK, Redeem, linkVars, renewVars, boundVars, diskVars
<1>3. ASSUME NEW e \in Installers, IssueFirst(e) PROVE RestOK'
  BY <1>3, <1>d DEF RestOK, IssueFirst, linkVars, renewVars, boundVars, diskVars
<1>4. ASSUME NEW e \in Installers, EnrolWriteKey(e) PROVE RestOK'
  BY <1>4, <1>d DEF RestOK, EnrolWriteKey, linkVars, renewVars, boundVars, diskVars
<1>5. ASSUME NEW e \in Installers, EnrolWriteCert(e) PROVE RestOK'
  BY <1>5, <1>d DEF RestOK, EnrolWriteCert, linkVars, renewVars, boundVars, diskVars
<1>6. ASSUME NEW e \in Installers, EnrolFails(e) PROVE RestOK'
  BY <1>6, <1>d DEF RestOK, EnrolFails, linkVars, renewVars, boundVars, diskVars
<1>7. ASSUME Connect PROVE RestOK'
  <2>1. link = 0 /\ opened \in Nat
    BY <1>7, <1>d DEF Connect, CountsOK
  <2> QED
    BY <1>7, <1>d, <2>1 DEF RestOK, Connect, renewVars
<1>8. ASSUME OnSessionReady PROVE RestOK'
  BY <1>8, <1>d DEF RestOK, OnSessionReady, linkVars, renewVars, boundVars, diskVars
<1>9. ASSUME RequestRenewal PROVE RestOK'
  <2>1. link # 0 /\ ready
    BY <1>9, <1>d DEF RequestRenewal, RestOK
  <2> QED
    BY <1>9, <2>1 DEF RestOK, RequestRenewal, linkVars
<1>10. ASSUME OnResponse PROVE RestOK'
  <2>1. link # 0
    BY <1>10, <1>d DEF OnResponse, RestOK
  <2>2. CASE ready
    BY <1>10, <2>1, <2>2 DEF RestOK, OnResponse, linkVars
  <2>3. CASE ~ready
    <3>1. ~timer /\ pending = 0 /\ installing = 0
      BY <1>d, <2>3 DEF RestOK
    <3> QED
      BY <1>10, <2>1, <3>1 DEF RestOK, OnResponse, linkVars
  <2> QED
    BY <2>2, <2>3
<1>11. ASSUME InstallCertificate PROVE RestOK'
  BY <1>11, <1>d DEF RestOK, InstallCertificate, EndSession, linkVars, renewVars, boundVars, diskVars
<1>12. ASSUME NEW s \in Sess, HubRenew(s) PROVE RestOK'
  <2>1. link = 0 => inbox' = inbox
    BY <1>12, <1>d DEF HubRenew, Answer, Sess
  <2> QED
    BY <1>12, <1>d, <2>1 DEF RestOK, HubRenew, linkVars, renewVars, boundVars, diskVars
<1>13. ASSUME NEW s \in Sess, HubRefuse(s) PROVE RestOK'
  <2>1. link = 0 => inbox' = inbox
    BY <1>13, <1>d DEF HubRefuse, Answer, Sess
  <2> QED
    BY <1>13, <1>d, <2>1 DEF RestOK, HubRefuse, linkVars, renewVars, boundVars, diskVars
<1>14. ASSUME Break PROVE RestOK'
  BY <1>14, <1>d DEF RestOK, Break, EndSession, linkVars, renewVars, boundVars, diskVars
<1>15. ASSUME Crash PROVE RestOK'
  BY <1>15, <1>d DEF RestOK, Crash, EndSession, linkVars, renewVars, boundVars, diskVars
<1>16. ASSUME Age PROVE RestOK'
  BY <1>16, <1>d DEF RestOK, Age, linkVars, renewVars, boundVars, diskVars
<1>17. ASSUME ResponseTimeout PROVE RestOK'
  <2>1. ready
    BY <1>17, <1>d DEF ResponseTimeout, RestOK
  <2> QED
    BY <1>17, <1>d, <2>1 DEF RestOK, ResponseTimeout, linkVars
<1>18. ASSUME InstallFails PROVE RestOK'
  <2>1. ready
    BY <1>18, <1>d DEF InstallFails, RestOK
  <2> QED
    BY <1>18, <1>d, <2>1 DEF RestOK, InstallFails, linkVars
<1>19. ASSUME NEW c \in 1..MaxKeys, Expire(c) PROVE RestOK'
  BY <1>19, <1>d DEF RestOK, Expire, linkVars, renewVars, boundVars, diskVars
<1>20. ASSUME NEW c \in 1..MaxKeys, RevokeCredential(c) PROVE RestOK'
  BY <1>20, <1>d DEF RestOK, RevokeCredential, linkVars, renewVars, boundVars, diskVars
<1>21. CASE UNCHANGED vars
  BY <1>21, <1>d DEF RestOK, vars, linkVars, renewVars, boundVars, diskVars
<1> QED
  BY <1>1, <1>2, <1>3, <1>4, <1>5, <1>6, <1>7, <1>8, <1>9, <1>10, <1>11, <1>12, <1>13, <1>14, <1>15, <1>16, <1>17, <1>18, <1>19, <1>20, <1>21 DEF Next, Enrolment, Worker, Environment

LEMMA WireKept == TInv /\ [Next]_vars => WireOK'
<1> SUFFICES ASSUME TInv, [Next]_vars PROVE WireOK'
  OBVIOUS
<1> USE IdentityAssumption DEF TInv
<1>a. Kept /\ TypeOK
  BY CredsKept
<1>b. /\ Answers \subseteq Answers' /\ Issued \subseteq Issued' /\ 0..Len(creds) \subseteq 0..Len(creds')
  BY <1>a, Bigger
<1>d. CountsOK /\ FlagsOK /\ RestOK /\ DiskOK
  BY <1>a, Parts
<1>e. /\ queue \in [Sess -> Seq(1..MaxKeys)] /\ inbox \in Seq(Answers')
      /\ \A s \in Sess : opened < s => queue[s] = <<>>
  <2>1. inbox \in Seq(Answers)
    BY DEF Tidy
  <2> QED
    BY <1>a, <1>b, <2>1 DEF TypeOK, Tidy
<1>1. ASSUME NEW e \in Installers, NEW t \in Tokens, Enrol(e, t) PROVE WireOK'
  BY <1>1, <1>e DEF WireOK, Enrol, linkVars
<1>2. ASSUME NEW e \in Installers, Redeem(e) PROVE WireOK'
  BY <1>2, <1>e DEF WireOK, Redeem, linkVars
<1>3. ASSUME NEW e \in Installers, IssueFirst(e) PROVE WireOK'
  BY <1>3, <1>e DEF WireOK, IssueFirst, linkVars
<1>4. ASSUME NEW e \in Installers, EnrolWriteKey(e) PROVE WireOK'
  BY <1>4, <1>e DEF WireOK, EnrolWriteKey, linkVars
<1>5. ASSUME NEW e \in Installers, EnrolWriteCert(e) PROVE WireOK'
  BY <1>5, <1>e DEF WireOK, EnrolWriteCert, linkVars
<1>6. ASSUME NEW e \in Installers, EnrolFails(e) PROVE WireOK'
  BY <1>6, <1>e DEF WireOK, EnrolFails, linkVars
<1>7. ASSUME Connect PROVE WireOK'
  <2>1. opened \in Nat
    BY <1>d DEF CountsOK
  <2> QED
    BY <1>7, <1>e, <2>1 DEF WireOK, Connect, Sess
<1>8. ASSUME OnSessionReady PROVE WireOK'
  BY <1>8, <1>e DEF WireOK, OnSessionReady, linkVars
<1>9. ASSUME RequestRenewal PROVE WireOK'
  <2>1. link \in Sess /\ link = opened /\ keys + 1 \in 1..MaxKeys
    BY <1>9, <1>d DEF RequestRenewal, RestOK, CountsOK, Sess
  <2>2. Append(queue[link], keys + 1) \in Seq(1..MaxKeys)
    BY <1>e, <2>1
  <2> QED
    BY <1>9, <1>e, <2>1, <2>2 DEF WireOK, RequestRenewal, linkVars, Sess
<1>10. ASSUME OnResponse PROVE WireOK'
  <2>1. Tail(inbox) \in Seq(Answers)
    BY <1>10, HeadAnswer DEF OnResponse
  <2>2. Tail(inbox) \in Seq(Answers')
    BY <1>b, <2>1
  <2> QED
    BY <1>10, <1>e, <2>2 DEF WireOK, OnResponse, linkVars
<1>11. ASSUME InstallCertificate PROVE WireOK'
  <2>1. link # 0
    BY <1>11, <1>d DEF InstallCertificate, RestOK
  <2>2. Len(queue[link]) \in 0..Len(queue[link])
    BY <1>d, <1>e, <2>1 DEF CountsOK, Sess
  <2>3. EndSession(Len(queue[link]))
    BY <1>11 DEF InstallCertificate
  <2>4. /\ queue' \in [Sess -> Seq(1..MaxKeys)]
        /\ \A s \in Sess : queue[s] = <<>> => queue'[s] = <<>>
    BY <2>1, <2>2, <2>3, PrefixLeft
  <2> QED
    BY <1>e, <2>3, <2>4 DEF WireOK, EndSession
<1>12. ASSUME NEW s \in Sess, HubRenew(s) PROVE WireOK'
  <2>1. queue[s] # <<>> /\ Tail(queue[s]) \in Seq(1..MaxKeys)
    BY <1>12, <1>e, HeadTailProperties DEF HubRenew
  <2>2. [ok |-> TRUE, cert |-> Len(creds) + 1] \in Answers'
    <3>1. Len(creds') = Len(creds) + 1 /\ Len(creds) \in Nat
      BY <1>12, <1>a, RenewedRows DEF TypeOK
    <3>2. Len(creds) + 1 \in 1..Len(creds')
      BY <3>1
    <3> QED
      BY <3>2 DEF Answers
  <2>3. inbox' \in Seq(Answers')
    BY <1>12, <1>e, <2>2 DEF HubRenew, Answer
  <2> QED
    BY <1>12, <1>e, <2>1, <2>3 DEF WireOK, HubRenew, linkVars
<1>13. ASSUME NEW s \in Sess, HubRefuse(s) PROVE WireOK'
  <2>1. queue[s] # <<>> /\ Tail(queue[s]) \in Seq(1..MaxKeys)
    BY <1>13, <1>e, HeadTailProperties DEF HubRefuse
  <2>2. [ok |-> FALSE] \in Answers'
    BY DEF Answers
  <2>3. inbox' \in Seq(Answers')
    BY <1>13, <1>e, <2>2 DEF HubRefuse, Answer
  <2> QED
    BY <1>13, <1>e, <2>1, <2>3 DEF WireOK, HubRefuse, linkVars
<1>14. ASSUME Break PROVE WireOK'
  <2>1. PICK n \in 0..Len(queue[link]) : EndSession(n)
    BY <1>14 DEF Break
  <2>2. link # 0
    BY <1>14 DEF Break
  <2>3. /\ queue' \in [Sess -> Seq(1..MaxKeys)]
        /\ \A s \in Sess : queue[s] = <<>> => queue'[s] = <<>>
    BY <2>1, <2>2, PrefixLeft
  <2> QED
    BY <1>e, <2>1, <2>3 DEF WireOK, EndSession
<1>15. ASSUME Crash PROVE WireOK'
  <2>1. PICK n \in 0..Len(queue[link]) : EndSession(n)
    BY <1>15 DEF Crash
  <2>2. link # 0
    BY <1>15 DEF Crash
  <2>3. /\ queue' \in [Sess -> Seq(1..MaxKeys)]
        /\ \A s \in Sess : queue[s] = <<>> => queue'[s] = <<>>
    BY <2>1, <2>2, PrefixLeft
  <2> QED
    BY <1>e, <2>1, <2>3 DEF WireOK, EndSession
<1>16. ASSUME Age PROVE WireOK'
  BY <1>16, <1>e DEF WireOK, Age, linkVars
<1>17. ASSUME ResponseTimeout PROVE WireOK'
  BY <1>17, <1>e DEF WireOK, ResponseTimeout, linkVars
<1>18. ASSUME InstallFails PROVE WireOK'
  BY <1>18, <1>e DEF WireOK, InstallFails, linkVars
<1>19. ASSUME NEW c \in 1..MaxKeys, Expire(c) PROVE WireOK'
  BY <1>19, <1>e DEF WireOK, Expire, linkVars
<1>20. ASSUME NEW c \in 1..MaxKeys, RevokeCredential(c) PROVE WireOK'
  BY <1>20, <1>e DEF WireOK, RevokeCredential, linkVars
<1>21. CASE UNCHANGED vars
  BY <1>21, <1>e DEF WireOK, vars, linkVars
<1> QED
  BY <1>1, <1>2, <1>3, <1>4, <1>5, <1>6, <1>7, <1>8, <1>9, <1>10, <1>11, <1>12, <1>13, <1>14, <1>15, <1>16, <1>17, <1>18, <1>19, <1>20, <1>21 DEF Next, Enrolment, Worker, Environment

LEMMA TypeNext == TInv /\ [Next]_vars => TInv'
BY EnrolKept, DiskKept, CountsKept, FlagsKept, RestKept, WireKept, PartsNext

(* The shape of every variable, and what a session that is not ready leaves *)
(* idle.                                                                    *)
THEOREM IdentityTypeCorrect == Spec => []TypeOK
<1>1. TInv => TypeOK
  BY DEF TInv
<1> QED
  BY TypeInit, TypeNext, <1>1, PTL DEF Spec

LEMMA Typed == Spec => []TInv
BY TypeInit, TypeNext, PTL DEF Spec

-----------------------------------------------------------------------------
(* Renewal never comes to a standstill (#scheduleRenewal, #requestRenewal,  *)
(* onResponse): whichever of timer, answer and installation ends, it hands  *)
(* over to another.                                                         *)
THEOREM NeverWedged == Spec => []NotWedged
<1>1. Init => NotWedged
  BY DEF Init, NotWedged
<1>2. TInv /\ NotWedged /\ [Next]_vars => NotWedged'
  <2> SUFFICES ASSUME TInv, NotWedged, [Next]_vars PROVE NotWedged'
    OBVIOUS
  <2>d. CountsOK /\ NotWedged
    BY Parts
  <2>1. ASSUME NEW e \in Installers, NEW t \in Tokens, Enrol(e, t) PROVE NotWedged'
    BY <2>1, <2>d DEF NotWedged, Enrol, linkVars, renewVars
  <2>2. ASSUME NEW e \in Installers, Redeem(e) PROVE NotWedged'
    BY <2>2, <2>d DEF NotWedged, Redeem, linkVars, renewVars
  <2>3. ASSUME NEW e \in Installers, IssueFirst(e) PROVE NotWedged'
    BY <2>3, <2>d DEF NotWedged, IssueFirst, linkVars, renewVars
  <2>4. ASSUME NEW e \in Installers, EnrolWriteKey(e) PROVE NotWedged'
    BY <2>4, <2>d DEF NotWedged, EnrolWriteKey, linkVars, renewVars
  <2>5. ASSUME NEW e \in Installers, EnrolWriteCert(e) PROVE NotWedged'
    BY <2>5, <2>d DEF NotWedged, EnrolWriteCert, linkVars, renewVars
  <2>6. ASSUME NEW e \in Installers, EnrolFails(e) PROVE NotWedged'
    BY <2>6, <2>d DEF NotWedged, EnrolFails, linkVars, renewVars
  <2>7. ASSUME Connect PROVE NotWedged'
    BY <2>7, <2>d DEF NotWedged, Connect, linkVars, renewVars
  <2>8. ASSUME OnSessionReady PROVE NotWedged'
    BY <2>8, <2>d DEF NotWedged, OnSessionReady, linkVars, renewVars
  <2>9. ASSUME RequestRenewal PROVE NotWedged'
    <3>1. keys + 1 # 0
      BY <2>d DEF CountsOK
    <3> QED
      BY <2>9, <2>d, <3>1 DEF NotWedged, RequestRenewal, linkVars, renewVars
  <2>10. ASSUME OnResponse PROVE NotWedged'
    <3>1. Head(inbox).ok => Head(inbox).cert # 0
      <4>1. Head(inbox).ok => Head(inbox).cert \in 1..Len(creds)
        BY <2>10, HeadAnswer DEF OnResponse
      <4> QED
        BY <4>1
    <3> QED
      BY <2>10, <2>d, <3>1 DEF NotWedged, OnResponse, linkVars
  <2>11. ASSUME InstallCertificate PROVE NotWedged'
    BY <2>11 DEF NotWedged, InstallCertificate, EndSession
  <2>12. ASSUME NEW s \in Sess, HubRenew(s) PROVE NotWedged'
    BY <2>12, <2>d DEF NotWedged, HubRenew, linkVars, renewVars
  <2>13. ASSUME NEW s \in Sess, HubRefuse(s) PROVE NotWedged'
    BY <2>13, <2>d DEF NotWedged, HubRefuse, linkVars, renewVars
  <2>14. ASSUME Break PROVE NotWedged'
    BY <2>14 DEF NotWedged, Break, EndSession
  <2>15. ASSUME Crash PROVE NotWedged'
    BY <2>15 DEF NotWedged, Crash, EndSession
  <2>16. ASSUME Age PROVE NotWedged'
    BY <2>16, <2>d DEF NotWedged, Age, linkVars, renewVars
  <2>17. ASSUME ResponseTimeout PROVE NotWedged'
    BY <2>17, <2>d DEF NotWedged, ResponseTimeout, linkVars, renewVars
  <2>18. ASSUME InstallFails PROVE NotWedged'
    BY <2>18, <2>d DEF NotWedged, InstallFails, linkVars, renewVars
  <2>19. ASSUME NEW c \in 1..MaxKeys, Expire(c) PROVE NotWedged'
    BY <2>19, <2>d DEF NotWedged, Expire, linkVars, renewVars
  <2>20. ASSUME NEW c \in 1..MaxKeys, RevokeCredential(c) PROVE NotWedged'
    BY <2>20, <2>d DEF NotWedged, RevokeCredential, linkVars, renewVars
  <2>21. CASE UNCHANGED vars
    BY <2>21, <2>d DEF NotWedged, vars, linkVars, renewVars
  <2> QED
    BY <2>1, <2>2, <2>3, <2>4, <2>5, <2>6, <2>7, <2>8, <2>9, <2>10, <2>11, <2>12, <2>13, <2>14, <2>15, <2>16, <2>17, <2>18, <2>19, <2>20, <2>21 DEF Next, Enrolment, Worker, Environment
<1> QED
  BY Typed, <1>1, <1>2, PTL DEF Spec

-----------------------------------------------------------------------------
(* Who holds a token, and which credentials it has given.                   *)
TokenInv ==
    /\ \A c \in 1..Len(creds) : creds[c].tok \in used \cup {None}
    /\ \A e \in Installers : setup[e].pc = "redeemed" =>
         /\ setup[e].tok \in used
         /\ \A c \in 1..Len(creds) : creds[c].tok # setup[e].tok
         /\ \A f \in Installers \ {e} : setup[f].pc = "redeemed" => setup[f].tok # setup[e].tok
    /\ TokenOnce

(* A step that spends no token and enters no credential of a token.         *)
LEMMA NothingSpent ==
    ASSUME TypeOK, TokenInv, Kept, used' = used,
           \A c \in 1..Len(creds') : c \in 1..Len(creds) \/ creds'[c].tok = None,
           \A e \in Installers :
               setup'[e].pc = "redeemed" => setup[e].pc = "redeemed" /\ setup'[e].tok = setup[e].tok
    PROVE  TokenInv'
<1>1. creds \in Seq(Credential) /\ creds' \in Seq(Credential)
  BY DEF TypeOK, Kept
<1>2. \A c \in 1..Len(creds') :
         creds'[c].tok = None \/ (c \in 1..Len(creds) /\ creds'[c].tok = creds[c].tok)
  BY DEF Kept
<1>3. \A e \in Installers : setup[e].pc = "redeemed" => setup[e].tok # None
  BY Standing, IdentityAssumption
<1>4. \A c \in 1..Len(creds') : creds'[c].tok \in used' \cup {None}
  BY <1>2 DEF TokenInv
<1>5. ASSUME NEW e \in Installers, setup'[e].pc = "redeemed"
      PROVE  /\ setup'[e].tok \in used'
             /\ \A c \in 1..Len(creds') : creds'[c].tok # setup'[e].tok
             /\ \A f \in Installers \ {e} : setup'[f].pc = "redeemed" => setup'[f].tok # setup'[e].tok
  BY <1>2, <1>3, <1>5 DEF TokenInv
<1>6. TokenOnce'
  BY <1>1, <1>2 DEF TokenInv, TokenOnce
<1> QED
  BY <1>4, <1>5, <1>6 DEF TokenInv

LEMMA TokenNext == TInv /\ TokenInv /\ [Next]_vars => TokenInv'
<1> SUFFICES ASSUME TInv, TokenInv, [Next]_vars PROVE TokenInv'
  OBVIOUS
<1> USE DEF TInv
<1>a. Kept /\ creds \in Seq(Credential) /\ creds' \in Seq(Credential)
  BY CredsKept DEF TypeOK, Kept
<1>b. setup \in [Installers -> {Idle, Done} \cup Asked \cup Issued]
  BY DEF TypeOK
<1>1. ASSUME NEW e \in Installers, NEW t \in Tokens, Enrol(e, t) PROVE TokenInv'
  <2>1. used' = used /\ Len(creds') = Len(creds)
    BY <1>1, <1>a DEF Enrol, enrolVars, Done
  <2>2. \A i \in Installers : setup'[i].pc = "redeemed" => setup[i].pc = "redeemed" /\ setup'[i].tok = setup[i].tok
    BY <1>1, <1>b DEF Enrol, enrolVars, Done
  <2> QED
    BY <1>a, <2>1, <2>2, NothingSpent
<1>2. ASSUME NEW e \in Installers, Redeem(e) PROVE TokenInv'
  <2>1. CASE setup[e].tok \in used
    <3>1. used' = used /\ creds' = creds /\ setup' = [setup EXCEPT ![e] = Done]
      BY <1>2, <2>1 DEF Redeem
    <3>2. \A i \in Installers : setup'[i].pc = "redeemed" => setup[i].pc = "redeemed" /\ setup'[i].tok = setup[i].tok
      BY <3>1, <1>b DEF Done
    <3> QED
      BY <1>a, <3>1, <3>2, NothingSpent
  <2>2. CASE setup[e].tok \notin used
    <3>1. /\ used' = used \cup {setup[e].tok} /\ creds' = creds
          /\ setup' = [setup EXCEPT ![e].pc = "redeemed"] /\ setup[e].pc = "asked"
      BY <1>2, <2>2 DEF Redeem
    <3>2. setup[e] \in Asked /\ setup[e].tok \in Tokens /\ setup[e].tok # None
      BY <3>1, Standing, IdentityAssumption
    <3>3. /\ setup'[e].tok = setup[e].tok
          /\ \A i \in Installers \ {e} : setup'[i] = setup[i]
      BY <1>b, <3>1, <3>2 DEF Asked
    <3>4. \A c \in 1..Len(creds') : creds'[c].tok \in used' \cup {None}
      BY <3>1 DEF TokenInv
    <3>5. ASSUME NEW i \in Installers, setup'[i].pc = "redeemed"
          PROVE  /\ setup'[i].tok \in used'
                 /\ \A c \in 1..Len(creds') : creds'[c].tok # setup'[i].tok
                 /\ \A f \in Installers \ {i} : setup'[f].pc = "redeemed" => setup'[f].tok # setup'[i].tok
      BY <2>2, <3>1, <3>2, <3>3, <3>5 DEF TokenInv
    <3>6. TokenOnce'
      BY <3>1 DEF TokenInv, TokenOnce
    <3> QED
      BY <3>4, <3>5, <3>6 DEF TokenInv
  <2> QED
    BY <2>1, <2>2
<1>3. ASSUME NEW e \in Installers, IssueFirst(e) PROVE TokenInv'
  <2> DEFINE new == Len(creds) + 1
  <2>1. setup[e].pc = "redeemed" /\ setup[e].tok \in used /\ setup[e].tok # None
    BY <1>3, Standing, IdentityAssumption DEF IssueFirst, TokenInv
  <2>2. used' = used /\ Len(creds') = new /\ creds'[new].tok = setup[e].tok
    BY <1>3, <1>a DEF IssueFirst, NewCredential
  <2>3. \A c \in 1..Len(creds') : c = new \/ (c \in 1..Len(creds) /\ creds'[c].tok = creds[c].tok)
    <3>1. \A c \in 1..Len(creds') : c = new \/ c \in 1..Len(creds)
      BY <1>a, <2>2
    <3> QED
      BY <1>a, <3>1 DEF Kept
  <2>4. \A i \in Installers : setup'[i].pc = "redeemed" => i # e /\ setup'[i] = setup[i]
    BY <1>3, <1>b DEF IssueFirst
  <2>5. \A c \in 1..Len(creds') : creds'[c].tok \in used' \cup {None}
    BY <2>1, <2>2, <2>3 DEF TokenInv
  <2>6. ASSUME NEW i \in Installers, setup'[i].pc = "redeemed"
        PROVE  /\ setup'[i].tok \in used'
               /\ \A c \in 1..Len(creds') : creds'[c].tok # setup'[i].tok
               /\ \A f \in Installers \ {i} : setup'[f].pc = "redeemed" => setup'[f].tok # setup'[i].tok
    <3>1. i # e /\ setup'[i] = setup[i] /\ setup[i].pc = "redeemed" /\ setup[i].tok # setup[e].tok
      BY <2>1, <2>4, <2>6 DEF TokenInv
    <3> QED
      BY <2>2, <2>3, <2>4, <3>1 DEF TokenInv
  <2>7. TokenOnce'
    <3>1. \A c \in 1..Len(creds) : creds[c].tok # setup[e].tok
      BY <2>1 DEF TokenInv
    <3>2. DOMAIN creds = 1..Len(creds) /\ DOMAIN creds' = 1..Len(creds')
      BY <1>a
    <3> QED
      BY <2>2, <2>3, <3>1, <3>2 DEF TokenInv, TokenOnce
  <2> QED
    BY <2>5, <2>6, <2>7 DEF TokenInv
<1>4. ASSUME NEW e \in Installers, EnrolWriteKey(e) PROVE TokenInv'
  <2>1. used' = used /\ Len(creds') = Len(creds)
    BY <1>4, <1>a DEF EnrolWriteKey, enrolVars, Done
  <2>2. \A i \in Installers : setup'[i].pc = "redeemed" => setup[i].pc = "redeemed" /\ setup'[i].tok = setup[i].tok
    BY <1>4, <1>b DEF EnrolWriteKey, enrolVars, Done
  <2> QED
    BY <1>a, <2>1, <2>2, NothingSpent
<1>5. ASSUME NEW e \in Installers, EnrolWriteCert(e) PROVE TokenInv'
  <2>1. used' = used /\ Len(creds') = Len(creds)
    BY <1>5, <1>a DEF EnrolWriteCert, enrolVars, Done
  <2>2. \A i \in Installers : setup'[i].pc = "redeemed" => setup[i].pc = "redeemed" /\ setup'[i].tok = setup[i].tok
    BY <1>5, <1>b DEF EnrolWriteCert, enrolVars, Done
  <2> QED
    BY <1>a, <2>1, <2>2, NothingSpent
<1>6. ASSUME NEW e \in Installers, EnrolFails(e) PROVE TokenInv'
  <2>1. used' = used /\ Len(creds') = Len(creds)
    BY <1>6, <1>a DEF EnrolFails, enrolVars, Done
  <2>2. \A i \in Installers : setup'[i].pc = "redeemed" => setup[i].pc = "redeemed" /\ setup'[i].tok = setup[i].tok
    BY <1>6, <1>b DEF EnrolFails, enrolVars, Done
  <2> QED
    BY <1>a, <2>1, <2>2, NothingSpent
<1>7. ASSUME Connect PROVE TokenInv'
  <2>1. used' = used /\ Len(creds') = Len(creds)
    BY <1>7, <1>a DEF Connect, enrolVars, Done
  <2>2. \A i \in Installers : setup'[i].pc = "redeemed" => setup[i].pc = "redeemed" /\ setup'[i].tok = setup[i].tok
    BY <1>7, <1>b DEF Connect, enrolVars, Done
  <2> QED
    BY <1>a, <2>1, <2>2, NothingSpent
<1>8. ASSUME OnSessionReady PROVE TokenInv'
  <2>1. used' = used /\ Len(creds') = Len(creds)
    BY <1>8, <1>a DEF OnSessionReady, enrolVars, Done
  <2>2. \A i \in Installers : setup'[i].pc = "redeemed" => setup[i].pc = "redeemed" /\ setup'[i].tok = setup[i].tok
    BY <1>8, <1>b DEF OnSessionReady, enrolVars, Done
  <2> QED
    BY <1>a, <2>1, <2>2, NothingSpent
<1>9. ASSUME RequestRenewal PROVE TokenInv'
  <2>1. used' = used /\ Len(creds') = Len(creds)
    BY <1>9, <1>a DEF RequestRenewal, enrolVars, Done
  <2>2. \A i \in Installers : setup'[i].pc = "redeemed" => setup[i].pc = "redeemed" /\ setup'[i].tok = setup[i].tok
    BY <1>9, <1>b DEF RequestRenewal, enrolVars, Done
  <2> QED
    BY <1>a, <2>1, <2>2, NothingSpent
<1>10. ASSUME OnResponse PROVE TokenInv'
  <2>1. used' = used /\ Len(creds') = Len(creds)
    BY <1>10, <1>a DEF OnResponse, enrolVars, Done
  <2>2. \A i \in Installers : setup'[i].pc = "redeemed" => setup[i].pc = "redeemed" /\ setup'[i].tok = setup[i].tok
    BY <1>10, <1>b DEF OnResponse, enrolVars, Done
  <2> QED
    BY <1>a, <2>1, <2>2, NothingSpent
<1>11. ASSUME InstallCertificate PROVE TokenInv'
  <2>1. used' = used /\ Len(creds') = Len(creds)
    BY <1>11, <1>a DEF InstallCertificate, enrolVars, Done
  <2>2. \A i \in Installers : setup'[i].pc = "redeemed" => setup[i].pc = "redeemed" /\ setup'[i].tok = setup[i].tok
    BY <1>11, <1>b DEF InstallCertificate, enrolVars, Done
  <2> QED
    BY <1>a, <2>1, <2>2, NothingSpent
<1>12. ASSUME NEW s \in Sess, HubRenew(s) PROVE TokenInv'
  <2>1. \A c \in 1..Len(creds') : c \in 1..Len(creds) \/ creds'[c].tok = None
    <3>1. Len(creds') = Len(creds) + 1 /\ creds'[Len(creds) + 1].tok = None
      <4>1. creds'[Len(creds) + 1] = NewCredential(Head(queue[s]), None) /\ Len(creds') = Len(creds) + 1
        BY <1>12, RenewedRows
      <4> QED
        BY <4>1 DEF NewCredential
    <3> QED
      BY <1>a, <3>1
  <2>2. used' = used /\ setup' = setup
    BY <1>12 DEF HubRenew, enrolVars
  <2> QED
    BY <1>a, <2>1, <2>2, NothingSpent
<1>13. ASSUME NEW s \in Sess, HubRefuse(s) PROVE TokenInv'
  <2>1. used' = used /\ Len(creds') = Len(creds)
    BY <1>13, <1>a DEF HubRefuse, enrolVars, Done
  <2>2. \A i \in Installers : setup'[i].pc = "redeemed" => setup[i].pc = "redeemed" /\ setup'[i].tok = setup[i].tok
    BY <1>13, <1>b DEF HubRefuse, enrolVars, Done
  <2> QED
    BY <1>a, <2>1, <2>2, NothingSpent
<1>14. ASSUME Break PROVE TokenInv'
  <2>1. used' = used /\ Len(creds') = Len(creds)
    BY <1>14, <1>a DEF Break, enrolVars, Done
  <2>2. \A i \in Installers : setup'[i].pc = "redeemed" => setup[i].pc = "redeemed" /\ setup'[i].tok = setup[i].tok
    BY <1>14, <1>b DEF Break, enrolVars, Done
  <2> QED
    BY <1>a, <2>1, <2>2, NothingSpent
<1>15. ASSUME Crash PROVE TokenInv'
  <2>1. used' = used /\ Len(creds') = Len(creds)
    BY <1>15, <1>a DEF Crash, enrolVars, Done
  <2>2. \A i \in Installers : setup'[i].pc = "redeemed" => setup[i].pc = "redeemed" /\ setup'[i].tok = setup[i].tok
    BY <1>15, <1>b DEF Crash, enrolVars, Done
  <2> QED
    BY <1>a, <2>1, <2>2, NothingSpent
<1>16. ASSUME Age PROVE TokenInv'
  <2>1. used' = used /\ Len(creds') = Len(creds)
    BY <1>16, <1>a DEF Age, enrolVars, Done
  <2>2. \A i \in Installers : setup'[i].pc = "redeemed" => setup[i].pc = "redeemed" /\ setup'[i].tok = setup[i].tok
    BY <1>16, <1>b DEF Age, enrolVars, Done
  <2> QED
    BY <1>a, <2>1, <2>2, NothingSpent
<1>17. ASSUME ResponseTimeout PROVE TokenInv'
  <2>1. used' = used /\ Len(creds') = Len(creds)
    BY <1>17, <1>a DEF ResponseTimeout, enrolVars, Done
  <2>2. \A i \in Installers : setup'[i].pc = "redeemed" => setup[i].pc = "redeemed" /\ setup'[i].tok = setup[i].tok
    BY <1>17, <1>b DEF ResponseTimeout, enrolVars, Done
  <2> QED
    BY <1>a, <2>1, <2>2, NothingSpent
<1>18. ASSUME InstallFails PROVE TokenInv'
  <2>1. used' = used /\ Len(creds') = Len(creds)
    BY <1>18, <1>a DEF InstallFails, enrolVars, Done
  <2>2. \A i \in Installers : setup'[i].pc = "redeemed" => setup[i].pc = "redeemed" /\ setup'[i].tok = setup[i].tok
    BY <1>18, <1>b DEF InstallFails, enrolVars, Done
  <2> QED
    BY <1>a, <2>1, <2>2, NothingSpent
<1>19. ASSUME NEW c \in 1..MaxKeys, Expire(c) PROVE TokenInv'
  <2>1. used' = used /\ Len(creds') = Len(creds)
    BY <1>19, <1>a DEF Expire, enrolVars, Done
  <2>2. \A i \in Installers : setup'[i].pc = "redeemed" => setup[i].pc = "redeemed" /\ setup'[i].tok = setup[i].tok
    BY <1>19, <1>b DEF Expire, enrolVars, Done
  <2> QED
    BY <1>a, <2>1, <2>2, NothingSpent
<1>20. ASSUME NEW c \in 1..MaxKeys, RevokeCredential(c) PROVE TokenInv'
  <2>1. used' = used /\ Len(creds') = Len(creds)
    BY <1>20, <1>a DEF RevokeCredential, enrolVars, Done
  <2>2. \A i \in Installers : setup'[i].pc = "redeemed" => setup[i].pc = "redeemed" /\ setup'[i].tok = setup[i].tok
    BY <1>20, <1>b DEF RevokeCredential, enrolVars, Done
  <2> QED
    BY <1>a, <2>1, <2>2, NothingSpent
<1>21. CASE UNCHANGED vars
  <2>1. used' = used /\ Len(creds') = Len(creds)
    BY <1>21, <1>a DEF vars, enrolVars
  <2>2. \A i \in Installers : setup'[i].pc = "redeemed" => setup[i].pc = "redeemed" /\ setup'[i].tok = setup[i].tok
    BY <1>21, <1>b DEF vars, enrolVars
  <2> QED
    BY <1>a, <2>1, <2>2, NothingSpent
<1> QED
  BY <1>1, <1>2, <1>3, <1>4, <1>5, <1>6, <1>7, <1>8, <1>9, <1>10, <1>11, <1>12, <1>13, <1>14, <1>15, <1>16, <1>17, <1>18, <1>19, <1>20, <1>21 DEF Next, Enrolment, Worker, Environment

(* redeemEnrolmentToken: however many installers race for a token, it       *)
(* yields one credential.                                                   *)
THEOREM TokenRedeemedOnce == Spec => []TokenOnce
<1>1. Init => TokenInv
  BY DEF Init, TokenInv, TokenOnce, Idle
<1>2. TokenInv => TokenOnce
  BY DEF TokenInv
<1> QED
  BY Typed, TokenNext, <1>1, <1>2, PTL DEF Spec

-----------------------------------------------------------------------------
(* One token for the host: until its installation is through, there is      *)
(* nothing on disk that could open a session.                               *)
OneToken == \A t, u \in Tokens : t = u
InHand(e) == setup[e].pc \in {"redeemed", "issued", "keyed"}
Fresh == diskCert = 0 /\ opened = 0 /\ \A c \in 1..Len(creds) : creds[c].revoked # "renewal"
FirstInv ==
    /\ used = {} => Fresh /\ \A e \in Installers : ~InHand(e)
    /\ \A e \in Installers : InHand(e) => Fresh /\ \A f \in Installers \ {e} : ~InHand(f)

(* A step after the installation, and a step that only lets go of it.       *)
LEMMA Settled ==
    ASSUME FirstInv, ~Fresh, used' = used, \A f \in Installers : InHand(f)' => InHand(f)
    PROVE  FirstInv'
BY DEF FirstInv

LEMMA StillFresh ==
    ASSUME FirstInv, Fresh => Fresh', used' = used, \A f \in Installers : InHand(f)' => InHand(f)
    PROVE  FirstInv'
BY DEF FirstInv

LEMMA FirstNext == ASSUME OneToken PROVE TInv /\ FirstInv /\ [Next]_vars => FirstInv'
<1> SUFFICES ASSUME TInv, FirstInv, [Next]_vars PROVE FirstInv'
  OBVIOUS
<1> USE DEF TInv
<1>a. creds \in Seq(Credential) /\ setup \in [Installers -> {Idle, Done} \cup Asked \cup Issued]
  BY DEF TypeOK
<1>b. CountsOK /\ RestOK /\ WireOK
  BY Parts
<1>c. opened \in Nat /\ (link # 0 => opened # 0) /\ (inbox # <<>> \/ ready => link # 0)
  BY <1>b DEF CountsOK, RestOK
<1>d. ~Fresh <=> diskCert # 0 \/ opened # 0 \/ \E c \in 1..Len(creds) : creds[c].revoked = "renewal"
  BY DEF Fresh
<1>1. ASSUME NEW e \in Installers, NEW t \in Tokens, Enrol(e, t) PROVE FirstInv'
  <2>1. (Fresh => Fresh') /\ used' = used /\ \A f \in Installers : InHand(f)' => InHand(f)
    BY <1>1, <1>a DEF Enrol, enrolVars, diskVars, linkVars, Fresh, InHand, Done
  <2> QED
    BY <2>1, StillFresh
<1>2. ASSUME NEW e \in Installers, Redeem(e) PROVE FirstInv'
  <2>1. CASE setup[e].tok \in used
    <3>1. (Fresh => Fresh') /\ used' = used /\ \A f \in Installers : InHand(f)' => InHand(f)
      BY <1>2, <1>a, <2>1 DEF Redeem, diskVars, linkVars, Fresh, InHand, Done
    <3> QED
      BY <3>1, StillFresh
  <2>2. CASE setup[e].tok \notin used
    <3>1. setup[e].tok \in Tokens /\ used \subseteq Tokens
      BY <1>2, Standing DEF Redeem, TypeOK
    <3>2. used = {}
      BY <2>2, <3>1 DEF OneToken
    <3>3. Fresh /\ \A f \in Installers : ~InHand(f)
      BY <3>2 DEF FirstInv
    <3>4. Fresh' /\ used' # {} /\ \A f \in Installers \ {e} : ~InHand(f)'
      BY <1>2, <1>a, <2>2, <3>3 DEF Redeem, diskVars, linkVars, Fresh, InHand
    <3> QED
      BY <3>4 DEF FirstInv
  <2> QED
    BY <2>1, <2>2
<1>3. ASSUME NEW e \in Installers, IssueFirst(e) PROVE FirstInv'
  <2>1. InHand(e) /\ used # {} /\ Fresh /\ \A f \in Installers \ {e} : ~InHand(f)
    BY <1>3 DEF IssueFirst, InHand, FirstInv
  <2>2. Fresh'
    <3>1. /\ diskCert' = diskCert /\ opened' = opened
          /\ creds' = Append(creds, NewCredential(setup[e].key, setup[e].tok))
      BY <1>3 DEF IssueFirst, diskVars, linkVars
    <3>2. NewCredential(setup[e].key, setup[e].tok).revoked = "no"
      BY DEF NewCredential
    <3> HIDE DEF NewCredential
    <3>3. \A c \in 1..Len(creds') : creds'[c].revoked # "renewal"
      BY <1>a, <2>1, <3>1, <3>2 DEF Fresh
    <3> QED
      BY <2>1, <3>1, <3>3 DEF Fresh
  <2>3. used' = used /\ \A f \in Installers \ {e} : ~InHand(f)'
    BY <1>3, <1>a, <2>1 DEF IssueFirst, InHand
  <2> QED
    BY <2>1, <2>2, <2>3 DEF FirstInv
<1>4. ASSUME NEW e \in Installers, EnrolWriteKey(e) PROVE FirstInv'
  <2>1. InHand(e) /\ setup'[e].pc = "keyed" /\ \A f \in Installers \ {e} : setup'[f] = setup[f]
    BY <1>4, <1>a DEF EnrolWriteKey, InHand
  <2>2. used' = used /\ diskCert' = diskCert /\ opened' = opened /\ creds' = creds
    BY <1>4 DEF EnrolWriteKey, linkVars
  <2>3. (Fresh => Fresh') /\ \A f \in Installers : InHand(f)' => InHand(f)
    BY <2>1, <2>2 DEF Fresh, InHand
  <2> QED
    BY <2>2, <2>3, StillFresh
<1>5. ASSUME NEW e \in Installers, EnrolWriteCert(e) PROVE FirstInv'
  <2>1. InHand(e) /\ used # {} /\ \A f \in Installers \ {e} : ~InHand(f)
    BY <1>5 DEF EnrolWriteCert, InHand, FirstInv
  <2>2. used' = used /\ \A f \in Installers : ~InHand(f)'
    BY <1>5, <1>a, <2>1 DEF EnrolWriteCert, InHand, Done
  <2> QED
    BY <2>1, <2>2 DEF FirstInv
<1>6. ASSUME NEW e \in Installers, EnrolFails(e) PROVE FirstInv'
  <2>1. (Fresh => Fresh') /\ used' = used /\ \A f \in Installers : InHand(f)' => InHand(f)
    BY <1>6, <1>a DEF EnrolFails, enrolVars, diskVars, linkVars, Fresh, InHand, Done
  <2> QED
    BY <2>1, StillFresh
<1>7. ASSUME Connect PROVE FirstInv'
  <2>1. ~Fresh
    BY <1>7, <1>d DEF Connect
  <2>2. used' = used /\ setup' = setup
    BY <1>7 DEF Connect, enrolVars
  <2>3. \A f \in Installers : InHand(f)' => InHand(f)
    BY <2>2 DEF InHand
  <2> QED
    BY <2>1, <2>2, <2>3, Settled
<1>8. ASSUME OnSessionReady PROVE FirstInv'
  <2>1. ~Fresh
    BY <1>8, <1>c, <1>d DEF OnSessionReady
  <2>2. used' = used /\ setup' = setup
    BY <1>8 DEF OnSessionReady, enrolVars
  <2>3. \A f \in Installers : InHand(f)' => InHand(f)
    BY <2>2 DEF InHand
  <2> QED
    BY <2>1, <2>2, <2>3, Settled
<1>9. ASSUME RequestRenewal PROVE FirstInv'
  <2>1. (Fresh => Fresh') /\ used' = used /\ \A f \in Installers : InHand(f)' => InHand(f)
    BY <1>9, <1>a DEF RequestRenewal, enrolVars, diskVars, linkVars, Fresh, InHand, Done
  <2> QED
    BY <2>1, StillFresh
<1>10. ASSUME OnResponse PROVE FirstInv'
  <2>1. (Fresh => Fresh') /\ used' = used /\ \A f \in Installers : InHand(f)' => InHand(f)
    BY <1>10, <1>a DEF OnResponse, enrolVars, diskVars, linkVars, Fresh, InHand, Done
  <2> QED
    BY <2>1, StillFresh
<1>11. ASSUME InstallCertificate PROVE FirstInv'
  <2>1. ~Fresh
    BY <1>11, <1>b, <1>c, <1>d DEF InstallCertificate, RestOK
  <2>2. used' = used /\ setup' = setup
    BY <1>11 DEF InstallCertificate, enrolVars
  <2>3. \A f \in Installers : InHand(f)' => InHand(f)
    BY <2>2 DEF InHand
  <2> QED
    BY <2>1, <2>2, <2>3, Settled
<1>12. ASSUME NEW s \in Sess, HubRenew(s) PROVE FirstInv'
  <2>1. ~Fresh
    <3>1. s \in Nat /\ s > 0 /\ ~(opened < s)
      BY <1>12, <1>b DEF HubRenew, WireOK, Sess
    <3> QED
      BY <1>c, <1>d, <3>1
  <2>2. used' = used /\ setup' = setup
    BY <1>12 DEF HubRenew, enrolVars
  <2>3. \A f \in Installers : InHand(f)' => InHand(f)
    BY <2>2 DEF InHand
  <2> QED
    BY <2>1, <2>2, <2>3, Settled
<1>13. ASSUME NEW s \in Sess, HubRefuse(s) PROVE FirstInv'
  <2>1. (Fresh => Fresh') /\ used' = used /\ \A f \in Installers : InHand(f)' => InHand(f)
    BY <1>13, <1>a DEF HubRefuse, enrolVars, diskVars, linkVars, Fresh, InHand, Done
  <2> QED
    BY <2>1, StillFresh
<1>14. ASSUME Break PROVE FirstInv'
  <2>1. ~Fresh
    BY <1>14, <1>c, <1>d DEF Break
  <2>2. used' = used /\ setup' = setup
    BY <1>14 DEF Break, enrolVars
  <2>3. \A f \in Installers : InHand(f)' => InHand(f)
    BY <2>2 DEF InHand
  <2> QED
    BY <2>1, <2>2, <2>3, Settled
<1>15. ASSUME Crash PROVE FirstInv'
  <2>1. ~Fresh
    BY <1>15, <1>c, <1>d DEF Crash
  <2>2. used' = used /\ setup' = setup
    BY <1>15 DEF Crash, enrolVars
  <2>3. \A f \in Installers : InHand(f)' => InHand(f)
    BY <2>2 DEF InHand
  <2> QED
    BY <2>1, <2>2, <2>3, Settled
<1>16. ASSUME Age PROVE FirstInv'
  <2>1. ~Fresh
    BY <1>16, <1>d DEF Age
  <2>2. used' = used /\ setup' = setup
    BY <1>16 DEF Age, enrolVars
  <2>3. \A f \in Installers : InHand(f)' => InHand(f)
    BY <2>2 DEF InHand
  <2> QED
    BY <2>1, <2>2, <2>3, Settled
<1>17. ASSUME ResponseTimeout PROVE FirstInv'
  <2>1. (Fresh => Fresh') /\ used' = used /\ \A f \in Installers : InHand(f)' => InHand(f)
    BY <1>17, <1>a DEF ResponseTimeout, enrolVars, diskVars, linkVars, Fresh, InHand, Done
  <2> QED
    BY <2>1, StillFresh
<1>18. ASSUME InstallFails PROVE FirstInv'
  <2>1. (Fresh => Fresh') /\ used' = used /\ \A f \in Installers : InHand(f)' => InHand(f)
    BY <1>18, <1>a DEF InstallFails, enrolVars, diskVars, linkVars, Fresh, InHand, Done
  <2> QED
    BY <2>1, StillFresh
<1>19. ASSUME NEW c \in 1..MaxKeys, Expire(c) PROVE FirstInv'
  <2>1. /\ used' = used /\ setup' = setup /\ diskCert' = diskCert /\ opened' = opened
        /\ c \in 1..Len(creds) /\ creds' = [creds EXCEPT ![c].expired = TRUE]
    BY <1>19, <1>a DEF Expire, enrolVars, diskVars, linkVars
  <2>2. Len(creds') = Len(creds) /\ \A d \in 1..Len(creds) : creds'[d].revoked = creds[d].revoked
    BY <1>a, <2>1 DEF Credential
  <2>3. (Fresh => Fresh') /\ \A f \in Installers : InHand(f)' => InHand(f)
    BY <2>1, <2>2 DEF Fresh, InHand
  <2> QED
    BY <2>1, <2>3, StillFresh
<1>20. ASSUME NEW c \in 1..MaxKeys, RevokeCredential(c) PROVE FirstInv'
  <2>1. /\ used' = used /\ setup' = setup /\ diskCert' = diskCert /\ opened' = opened
        /\ c \in 1..Len(creds) /\ creds' = [creds EXCEPT ![c].revoked = "admin"]
    BY <1>20, <1>a DEF RevokeCredential, enrolVars, diskVars, linkVars
  <2>2. Len(creds') = Len(creds) /\ \A d \in 1..Len(creds) : creds'[d].revoked \in {creds[d].revoked, "admin"}
    BY <1>a, <2>1 DEF Credential
  <2>3. (Fresh => Fresh') /\ \A f \in Installers : InHand(f)' => InHand(f)
    BY <2>1, <2>2 DEF Fresh, InHand
  <2> QED
    BY <2>1, <2>3, StillFresh
<1>21. CASE UNCHANGED vars
  <2>1. (Fresh => Fresh') /\ used' = used /\ \A f \in Installers : InHand(f)' => InHand(f)
    BY <1>21, <1>a DEF vars, enrolVars, diskVars, linkVars, Fresh, InHand, Done
  <2> QED
    BY <2>1, StillFresh
<1> QED
  BY <1>1, <1>2, <1>3, <1>4, <1>5, <1>6, <1>7, <1>8, <1>9, <1>10, <1>11, <1>12, <1>13, <1>14, <1>15, <1>16, <1>17, <1>18, <1>19, <1>20, <1>21 DEF Next, Enrolment, Worker, Environment
-----------------------------------------------------------------------------
(* The key on disk belongs to the certificate that is about to follow it.   *)
KeyInv ==
    /\ installing # 0 => creds[installing].key = diskKey
    /\ \A e \in Installers : setup[e].pc = "keyed" => creds[setup[e].cert].key = diskKey
    /\ PairMatches

(* A step that leaves the files, and what is being written to them, alone.  *)
LEMMA FilesLeft ==
    ASSUME TInv, KeyInv, Kept, diskKey' = diskKey, diskCert' = diskCert,
           installing' = installing, torn' = torn,
           \A f \in Installers : setup[f].pc = "keyed" \/ setup'[f].pc = "keyed" => setup'[f] = setup[f]
    PROVE  KeyInv'
<1>1. diskCert \in 0..Len(creds) /\ installing \in 0..Len(creds) /\ creds \in Seq(Credential)
  BY DEF TInv, TypeOK
<1>2. installing # 0 => creds'[installing].key = creds[installing].key
  BY <1>1 DEF Kept
<1>3. diskCert # 0 => creds'[diskCert].key = creds[diskCert].key
  BY <1>1 DEF Kept
<1>4. \A f \in Installers : setup[f].pc = "keyed" => creds'[setup[f].cert].key = creds[setup[f].cert].key
  <2> SUFFICES ASSUME NEW f \in Installers, setup[f].pc = "keyed"
               PROVE  creds'[setup[f].cert].key = creds[setup[f].cert].key
    OBVIOUS
  <2>1. setup[f].cert \in 1..Len(creds)
    BY Standing DEF TInv
  <2> QED
    BY <2>1 DEF Kept
<1> QED
  BY <1>2, <1>3, <1>4 DEF KeyInv, PairMatches

(* A step of an enrolment that ends at the disk finds nothing installed.    *)
LEMMA AtTheDisk ==
    ASSUME TInv, FirstInv, NEW e \in Installers, InHand(e)
    PROVE  diskCert = 0 /\ link = 0 /\ installing = 0 /\ \A f \in Installers \ {e} : setup[f].pc # "keyed"
<1>1. Fresh /\ \A f \in Installers \ {e} : ~InHand(f)
  BY DEF FirstInv
<1>2. link = 0 /\ installing = 0
  <2>1. link \in {0, opened} /\ (link = 0 => ~ready) /\ (~ready => installing = 0)
    BY DEF TInv, Tidy
  <2> QED
    BY <1>1, <2>1 DEF Fresh
<1> QED
  BY <1>1, <1>2 DEF Fresh, InHand

(* ... and a session of the worker finds every enrolment ended.             *)
LEMMA NobodyWrites ==
    ASSUME TInv, FirstInv, link # 0
    PROVE  \A f \in Installers : setup[f].pc # "keyed"
<1>1. diskCert # 0
  BY DEF TInv, Tidy
<1> QED
  BY <1>1 DEF FirstInv, Fresh, InHand

LEMMA KeyNext == TInv /\ FirstInv /\ KeyInv /\ [Next]_vars => KeyInv'
<1> SUFFICES ASSUME TInv, FirstInv, KeyInv, [Next]_vars PROVE KeyInv'
  OBVIOUS
<1>a. creds \in Seq(Credential) /\ setup \in [Installers -> {Idle, Done} \cup Asked \cup Issued] /\ TypeOK
  BY DEF TInv, TypeOK
<1>b. Kept
  BY <1>a, CredsKept
<1>1. ASSUME NEW e \in Installers, NEW t \in Tokens, Enrol(e, t) PROVE KeyInv'
  <2>1. diskKey' = diskKey /\ diskCert' = diskCert /\ installing' = installing /\ torn' = torn
    BY <1>1 DEF Enrol, diskVars, renewVars
  <2>2. setup[e].pc # "keyed" /\ setup'[e].pc # "keyed"
    BY <1>1, <1>a, Standing DEF Enrol, Idle, Done
  <2>3. \A f \in Installers \ {e} : setup'[f] = setup[f]
    BY <1>1, <1>a DEF Enrol
  <2> QED
    BY <1>b, <2>1, <2>2, <2>3, FilesLeft
<1>2. ASSUME NEW e \in Installers, Redeem(e) PROVE KeyInv'
  <2>1. diskKey' = diskKey /\ diskCert' = diskCert /\ installing' = installing /\ torn' = torn
    BY <1>2 DEF Redeem, diskVars, renewVars
  <2>2. setup[e].pc # "keyed" /\ setup'[e].pc # "keyed"
    <3>1. setup[e].pc = "asked" /\ setup[e] \in Asked
      BY <1>2, <1>a, Standing DEF Redeem
    <3>2. setup' = [setup EXCEPT ![e] = Done] \/ setup' = [setup EXCEPT ![e].pc = "redeemed"]
      BY <1>2 DEF Redeem
    <3> QED
      BY <1>a, <3>1, <3>2 DEF Done, Asked
  <2>3. \A f \in Installers \ {e} : setup'[f] = setup[f]
    BY <1>2, <1>a DEF Redeem
  <2> QED
    BY <1>b, <2>1, <2>2, <2>3, FilesLeft
<1>3. ASSUME NEW e \in Installers, IssueFirst(e) PROVE KeyInv'
  <2>1. diskKey' = diskKey /\ diskCert' = diskCert /\ installing' = installing /\ torn' = torn
    BY <1>3 DEF IssueFirst, diskVars, renewVars
  <2>2. setup[e].pc # "keyed" /\ setup'[e].pc # "keyed"
    BY <1>3, <1>a, Standing DEF IssueFirst, Idle, Done
  <2>3. \A f \in Installers \ {e} : setup'[f] = setup[f]
    BY <1>3, <1>a DEF IssueFirst
  <2> QED
    BY <1>b, <2>1, <2>2, <2>3, FilesLeft
<1>4. ASSUME NEW e \in Installers, EnrolWriteKey(e) PROVE KeyInv'
  <2>1. diskCert = 0 /\ installing = 0 /\ \A f \in Installers \ {e} : setup[f].pc # "keyed"
    BY <1>4, AtTheDisk DEF EnrolWriteKey, InHand
  <2>2. /\ diskKey' = creds[setup[e].cert].key /\ setup' = [setup EXCEPT ![e].pc = "keyed"]
        /\ creds' = creds /\ diskCert' = diskCert /\ installing' = installing
    BY <1>4 DEF EnrolWriteKey, renewVars
  <2>3. setup[e] \in Issued
    BY <1>4, <1>a, Standing DEF EnrolWriteKey
  <2>4. setup'[e].cert = setup[e].cert /\ \A f \in Installers \ {e} : setup'[f] = setup[f]
    BY <1>a, <2>2, <2>3 DEF Issued
  <2> QED
    BY <2>1, <2>2, <2>4 DEF KeyInv, PairMatches
<1>5. ASSUME NEW e \in Installers, EnrolWriteCert(e) PROVE KeyInv'
  <2>1. installing = 0 /\ \A f \in Installers \ {e} : setup[f].pc # "keyed"
    BY <1>5, AtTheDisk DEF EnrolWriteCert, InHand
  <2>2. /\ diskCert' = setup[e].cert /\ setup' = [setup EXCEPT ![e] = Done]
        /\ creds' = creds /\ diskKey' = diskKey /\ installing' = installing
    BY <1>5 DEF EnrolWriteCert, renewVars
  <2>3. creds[setup[e].cert].key = diskKey
    BY <1>5 DEF EnrolWriteCert, KeyInv
  <2>4. \A f \in Installers : setup'[f].pc # "keyed"
    BY <1>a, <2>1, <2>2 DEF Done
  <2> QED
    BY <2>1, <2>2, <2>3, <2>4 DEF KeyInv, PairMatches
<1>6. ASSUME NEW e \in Installers, EnrolFails(e) PROVE KeyInv'
  <2>1. /\ diskKey' = diskKey /\ diskCert' = diskCert /\ installing' = installing /\ creds' = creds
        /\ torn' = (torn \/ setup[e].pc = "keyed") /\ setup' = [setup EXCEPT ![e] = Done]
    BY <1>6 DEF EnrolFails, renewVars
  <2>2. setup'[e].pc # "keyed" /\ \A f \in Installers \ {e} : setup'[f] = setup[f]
    BY <1>a, <2>1 DEF Done
  <2> QED
    BY <2>1, <2>2 DEF KeyInv, PairMatches
<1>7. ASSUME Connect PROVE KeyInv'
  <2>1. diskKey' = diskKey /\ diskCert' = diskCert /\ installing' = installing /\ torn' = torn
    BY <1>7 DEF Connect, enrolVars, diskVars, renewVars, linkVars
  <2>2. setup' = setup
    BY <1>7 DEF Connect, enrolVars, diskVars, renewVars, linkVars
  <2> QED
    BY <1>b, <2>1, <2>2, FilesLeft
<1>8. ASSUME OnSessionReady PROVE KeyInv'
  <2>1. diskKey' = diskKey /\ diskCert' = diskCert /\ installing' = installing /\ torn' = torn
    BY <1>8 DEF OnSessionReady, enrolVars, diskVars, renewVars, linkVars
  <2>2. setup' = setup
    BY <1>8 DEF OnSessionReady, enrolVars, diskVars, renewVars, linkVars
  <2> QED
    BY <1>b, <2>1, <2>2, FilesLeft
<1>9. ASSUME RequestRenewal PROVE KeyInv'
  <2>1. diskKey' = diskKey /\ diskCert' = diskCert /\ installing' = installing /\ torn' = torn
    BY <1>9 DEF RequestRenewal, enrolVars, diskVars, renewVars, linkVars
  <2>2. setup' = setup
    BY <1>9 DEF RequestRenewal, enrolVars, diskVars, renewVars, linkVars
  <2> QED
    BY <1>b, <2>1, <2>2, FilesLeft
<1>10. ASSUME OnResponse PROVE KeyInv'
  <2> DEFINE msg == Head(inbox)
  <2>1. \A f \in Installers : setup[f].pc # "keyed"
    <3>1. link # 0
      BY <1>10 DEF OnResponse, TInv, Tidy
    <3> QED
      BY <3>1, NobodyWrites
  <2>2. installing = 0 /\ setup' = setup /\ creds' = creds /\ diskCert' = diskCert /\ torn' = torn
    BY <1>10 DEF OnResponse, enrolVars
  <2>3. CASE pending # 0 /\ msg.ok /\ Matches(msg)
    <3>1. diskKey' = pending /\ installing' = msg.cert
      BY <1>10, <2>3 DEF OnResponse
    <3>2. msg.cert # 0 /\ creds[msg.cert].key = pending
      <4>1. msg.cert \in 1..Len(creds)
        BY <1>10, <2>3, HeadAnswer DEF OnResponse
      <4> QED
        BY <2>3, <4>1 DEF Matches
    <3> HIDE DEF msg
    <3> QED
      BY <2>1, <2>2, <3>1, <3>2 DEF KeyInv, PairMatches
  <2>4. CASE ~(pending # 0 /\ msg.ok /\ Matches(msg))
    <3>1. diskKey' = diskKey /\ installing' = installing
      BY <1>10, <2>4 DEF OnResponse
    <3> QED
      BY <2>2, <3>1 DEF KeyInv, PairMatches
  <2> QED
    BY <2>3, <2>4
<1>11. ASSUME InstallCertificate PROVE KeyInv'
  <2>1. installing # 0 /\ diskCert' = installing /\ installing' = 0 /\ diskKey' = diskKey /\ setup' = setup /\ creds' = creds
    BY <1>11 DEF InstallCertificate, enrolVars
  <2> QED
    BY <2>1 DEF KeyInv, PairMatches
<1>12. ASSUME NEW s \in Sess, HubRenew(s) PROVE KeyInv'
  <2>1. diskKey' = diskKey /\ diskCert' = diskCert /\ installing' = installing /\ torn' = torn
    BY <1>12 DEF HubRenew, enrolVars, diskVars, renewVars, linkVars
  <2>2. setup' = setup
    BY <1>12 DEF HubRenew, enrolVars, diskVars, renewVars, linkVars
  <2> QED
    BY <1>b, <2>1, <2>2, FilesLeft
<1>13. ASSUME NEW s \in Sess, HubRefuse(s) PROVE KeyInv'
  <2>1. diskKey' = diskKey /\ diskCert' = diskCert /\ installing' = installing /\ torn' = torn
    BY <1>13 DEF HubRefuse, enrolVars, diskVars, renewVars, linkVars
  <2>2. setup' = setup
    BY <1>13 DEF HubRefuse, enrolVars, diskVars, renewVars, linkVars
  <2> QED
    BY <1>b, <2>1, <2>2, FilesLeft
<1>14. ASSUME Break PROVE KeyInv'
  <2>1. diskKey' = diskKey /\ diskCert' = diskCert /\ installing' = installing /\ torn' = torn
    BY <1>14 DEF Break, diskVars
  <2>2. setup' = setup
    BY <1>14 DEF Break, enrolVars
  <2> QED
    BY <1>b, <2>1, <2>2, FilesLeft
<1>15. ASSUME Crash PROVE KeyInv'
  <2>1. /\ diskKey' = diskKey /\ diskCert' = diskCert /\ installing' = 0 /\ creds' = creds
        /\ torn' = (torn \/ installing # 0) /\ setup' = setup
    BY <1>15 DEF Crash, enrolVars
  <2> QED
    BY <2>1 DEF KeyInv, PairMatches
<1>16. ASSUME Age PROVE KeyInv'
  <2>1. diskKey' = diskKey /\ diskCert' = diskCert /\ installing' = installing /\ torn' = torn
    BY <1>16 DEF Age, enrolVars, diskVars, renewVars, linkVars
  <2>2. setup' = setup
    BY <1>16 DEF Age, enrolVars, diskVars, renewVars, linkVars
  <2> QED
    BY <1>b, <2>1, <2>2, FilesLeft
<1>17. ASSUME ResponseTimeout PROVE KeyInv'
  <2>1. diskKey' = diskKey /\ diskCert' = diskCert /\ installing' = installing /\ torn' = torn
    BY <1>17 DEF ResponseTimeout, enrolVars, diskVars, renewVars, linkVars
  <2>2. setup' = setup
    BY <1>17 DEF ResponseTimeout, enrolVars, diskVars, renewVars, linkVars
  <2> QED
    BY <1>b, <2>1, <2>2, FilesLeft
<1>18. ASSUME InstallFails PROVE KeyInv'
  <2>1. installing' = 0 /\ torn' = TRUE /\ diskKey' = diskKey /\ setup' = setup /\ creds' = creds
    BY <1>18 DEF InstallFails, enrolVars
  <2> QED
    BY <2>1 DEF KeyInv, PairMatches
<1>19. ASSUME NEW c \in 1..MaxKeys, Expire(c) PROVE KeyInv'
  <2>1. diskKey' = diskKey /\ diskCert' = diskCert /\ installing' = installing /\ torn' = torn
    BY <1>19 DEF Expire, enrolVars, diskVars, renewVars, linkVars
  <2>2. setup' = setup
    BY <1>19 DEF Expire, enrolVars, diskVars, renewVars, linkVars
  <2> QED
    BY <1>b, <2>1, <2>2, FilesLeft
<1>20. ASSUME NEW c \in 1..MaxKeys, RevokeCredential(c) PROVE KeyInv'
  <2>1. diskKey' = diskKey /\ diskCert' = diskCert /\ installing' = installing /\ torn' = torn
    BY <1>20 DEF RevokeCredential, enrolVars, diskVars, renewVars, linkVars
  <2>2. setup' = setup
    BY <1>20 DEF RevokeCredential, enrolVars, diskVars, renewVars, linkVars
  <2> QED
    BY <1>b, <2>1, <2>2, FilesLeft
<1>21. CASE UNCHANGED vars
  <2>1. diskKey' = diskKey /\ diskCert' = diskCert /\ installing' = installing /\ torn' = torn
    BY <1>21 DEF vars, enrolVars, diskVars, renewVars
  <2>2. setup' = setup
    BY <1>21 DEF vars, enrolVars, diskVars, renewVars
  <2> QED
    BY <1>b, <2>1, <2>2, FilesLeft
<1> QED
  BY <1>1, <1>2, <1>3, <1>4, <1>5, <1>6, <1>7, <1>8, <1>9, <1>10, <1>11, <1>12, <1>13, <1>14, <1>15, <1>16, <1>17, <1>18, <1>19, <1>20, <1>21 DEF Next, Enrolment, Worker, Environment

LEMMA PairInit == Init => FirstInv /\ KeyInv
<1> SUFFICES ASSUME Init PROVE FirstInv /\ KeyInv
  OBVIOUS
<1>1. \A e \in Installers : setup[e].pc = "idle"
  BY DEF Init, Idle
<1>2. diskCert = 0 /\ opened = 0 /\ Len(creds) = 0 /\ installing = 0
  BY DEF Init
<1> QED
  BY <1>1, <1>2 DEF FirstInv, KeyInv, PairMatches, Fresh, InHand

LEMMA PairKept == ASSUME OneToken PROVE Spec => [](FirstInv /\ KeyInv)
<1>1. TInv /\ FirstInv /\ [Next]_vars => FirstInv'
  BY FirstNext
<1> QED
  BY Typed, PairInit, <1>1, KeyNext, PTL DEF Spec

(* #install and onResponse: no late, repeated or refused answer, and no     *)
(* crash that does not fall between the two writes, leaves a key on disk    *)
(* that is not the one its certificate was issued for.                      *)
THEOREM PairFits == ASSUME OneToken PROVE Spec => []PairMatches
<1>1. KeyInv => PairMatches
  BY DEF KeyInv
<1> QED
  BY PairKept, <1>1, PTL

-----------------------------------------------------------------------------
(* Requests and answers are in the order of their keys: an answer for the   *)
(* key that is awaited is the last one.                                     *)
InOrder ==
    /\ \A c \in 1..Len(creds) : creds[c].key <= keys
    /\ \A s \in Sess : \A i \in 1..Len(queue[s]) : queue[s][i] <= keys
    /\ \A e \in Installers : setup[e].pc \in {"asked", "redeemed"} => setup[e].key <= keys
    /\ pending <= keys
Awaited(m) == m.ok /\ creds[m.cert].key = pending
LastInv ==
    /\ pending # 0 => ~timer /\ installing = 0
    /\ pending # 0 => \A i \in 1..(Len(queue[link]) - 1) : queue[link][i] # pending
    /\ pending # 0 => \A i \in 1..Len(inbox) : Awaited(inbox[i]) => queue[link] = <<>>
    /\ installing # 0 => queue[link] = <<>> /\ ~timer

(* The hub takes a request.                                                 *)
LEMMA Taken ==
    ASSUME TInv, NEW s \in Sess, queue[s] # <<>>, queue' = [queue EXCEPT ![s] = Tail(queue[s])]
    PROVE  /\ queue[s] \in Seq(1..MaxKeys) /\ Len(queue[s]) \in Nat /\ Len(queue[s]) > 0
           /\ Head(queue[s]) = queue[s][1]
           /\ Len(queue'[s]) = Len(queue[s]) - 1
           /\ \A i \in 1..Len(queue'[s]) : queue'[s][i] = queue[s][i + 1]
           /\ \A t \in Sess \ {s} : queue'[t] = queue[t]
<1>1. queue \in [Sess -> Seq(1..MaxKeys)] /\ queue[s] \in Seq(1..MaxKeys)
  BY DEF TInv, TypeOK
<1>2. queue'[s] = Tail(queue[s]) /\ \A t \in Sess \ {s} : queue'[t] = queue[t]
  BY <1>1
<1>3. Head(queue[s]) = queue[s][1] /\ Len(Tail(queue[s])) = Len(queue[s]) - 1
      /\ \A i \in 1..Len(Tail(queue[s])) : Tail(queue[s])[i] = queue[s][i + 1]
  BY <1>1, HeadTailProperties
<1>4. Len(queue[s]) \in Nat /\ Len(queue[s]) > 0
  BY <1>1
<1> QED
  BY <1>1, <1>2, <1>3, <1>4

(* The worker sends one.                                                    *)
LEMMA Sent ==
    ASSUME TInv, RequestRenewal
    PROVE  /\ link \in Sess /\ link = opened /\ keys \in Nat /\ keys' = keys + 1 /\ keys + 1 \in 1..MaxKeys
           /\ queue[link] \in Seq(1..MaxKeys) /\ Len(queue[link]) \in Nat
           /\ Len(queue'[link]) = Len(queue[link]) + 1 /\ queue'[link][Len(queue[link]) + 1] = keys + 1
           /\ \A i \in 1..Len(queue[link]) : queue'[link][i] = queue[link][i]
           /\ \A t \in Sess \ {link} : queue'[t] = queue[t]
<1>1. timer /\ keys < MaxKeys /\ keys' = keys + 1 /\ queue' = [queue EXCEPT ![link] = Append(@, keys + 1)]
  BY DEF RequestRenewal
<1>2. keys \in Nat /\ keys + 1 \in 1..MaxKeys
  BY <1>1, IdentityAssumption DEF TInv, Tidy
<1>3. link # 0
  BY <1>1 DEF TInv, Tidy
<1>4. link \in Sess /\ link = opened
  BY <1>3, IdentityAssumption DEF TInv, TypeOK, Tidy, Sess
<1>5. queue \in [Sess -> Seq(1..MaxKeys)] /\ queue[link] \in Seq(1..MaxKeys)
  BY <1>4 DEF TInv, TypeOK
<1>6. queue'[link] = Append(queue[link], keys + 1) /\ \A t \in Sess \ {link} : queue'[t] = queue[t]
  BY <1>1, <1>4, <1>5
<1> QED
  BY <1>1, <1>2, <1>4, <1>5, <1>6

(* A step that generates no key and enters no certificate.                  *)
LEMMA OrderLeft ==
    ASSUME TInv, InOrder, Kept, keys' = keys, Len(creds') = Len(creds), pending' \in {pending, 0},
           \A s \in Sess : \A i \in 1..Len(queue'[s]) : queue'[s][i] <= keys,
           \A e \in Installers : setup'[e].pc \in {"asked", "redeemed"} =>
               setup[e].pc \in {"asked", "redeemed"} /\ setup'[e].key = setup[e].key
    PROVE  InOrder'
<1>1. keys \in Nat /\ creds \in Seq(Credential)
  BY IdentityAssumption DEF TInv, TypeOK, Tidy
<1>2. \A c \in 1..Len(creds') : creds'[c].key <= keys'
  BY <1>1 DEF Kept, InOrder
<1>3. pending' <= keys'
  BY <1>1 DEF InOrder
<1>4. \A e \in Installers : setup'[e].pc \in {"asked", "redeemed"} => setup'[e].key <= keys'
  BY DEF InOrder
<1> QED
  BY <1>2, <1>3, <1>4 DEF InOrder

LEMMA OrderNext == TInv /\ InOrder /\ [Next]_vars => InOrder'
<1> SUFFICES ASSUME TInv, InOrder, [Next]_vars PROVE InOrder'
  OBVIOUS
<1>a. /\ creds \in Seq(Credential) /\ setup \in [Installers -> {Idle, Done} \cup Asked \cup Issued] /\ TypeOK
      /\ keys \in Nat /\ pending \in Nat /\ queue \in [Sess -> Seq(1..MaxKeys)]
  BY IdentityAssumption DEF TInv, TypeOK, Tidy
<1>b. Kept
  BY <1>a, CredsKept
<1>c. creds' \in Seq(Credential)
  BY <1>b DEF Kept
<1>1. ASSUME NEW e \in Installers, NEW t \in Tokens, Enrol(e, t) PROVE InOrder'
  <2>1. keys' = keys + 1 /\ creds' = creds /\ pending' = pending /\ queue' = queue
    BY <1>1 DEF Enrol, renewVars
  <2>2. setup'[e].key = keys + 1 /\ \A f \in Installers \ {e} : setup'[f] = setup[f]
    BY <1>1, <1>a DEF Enrol
  <2>3. \A f \in Installers : setup[f].pc \in {"asked", "redeemed"} => setup[f].key \in Nat /\ setup[f].key <= keys
    BY <1>a, Standing, IdentityAssumption DEF InOrder
  <2>4. \A c \in 1..Len(creds) : creds[c].key \in Nat /\ creds[c].key <= keys
    <3>1. \A c \in 1..Len(creds) : creds[c] \in Credential
      BY <1>a
    <3> QED
      BY <3>1, IdentityAssumption DEF InOrder, Credential
  <2>5. \A s \in Sess : \A i \in 1..Len(queue[s]) : queue[s][i] \in Nat /\ queue[s][i] <= keys
    <3>1. \A s \in Sess : \A i \in 1..Len(queue[s]) : queue[s][i] \in 1..MaxKeys
      <4>1. \A s \in Sess : queue[s] \in Seq(1..MaxKeys)
        BY <1>a
      <4> QED
        BY <4>1, IdentityAssumption
    <3> QED
      BY <3>1, IdentityAssumption DEF InOrder
  <2>6. \A f \in Installers : setup'[f].pc \in {"asked", "redeemed"} => setup'[f].key <= keys'
    BY <1>a, <2>1, <2>2, <2>3
  <2>7. pending' <= keys'
    BY <1>a, <2>1 DEF InOrder
  <2> QED
    BY <1>a, <2>1, <2>4, <2>5, <2>6, <2>7 DEF InOrder
<1>2. ASSUME NEW e \in Installers, Redeem(e) PROVE InOrder'
  <2>1. keys' = keys /\ Len(creds') = Len(creds) /\ pending' = pending /\ queue' = queue
    BY <1>2 DEF Redeem, renewVars, boundVars
  <2>2. setup[e].pc = "asked" /\ setup[e] \in Asked
    BY <1>2, <1>a, Standing DEF Redeem
  <2>3. setup' = [setup EXCEPT ![e] = Done] \/ setup' = [setup EXCEPT ![e].pc = "redeemed"]
    BY <1>2 DEF Redeem
  <2>4. /\ setup'[e].pc = "redeemed" => setup'[e].key = setup[e].key
        /\ setup'[e].pc # "asked"
        /\ \A f \in Installers \ {e} : setup'[f] = setup[f]
    BY <1>a, <2>2, <2>3 DEF Done, Asked
  <2> QED
    BY <1>b, <2>1, <2>2, <2>4, OrderLeft DEF InOrder
<1>3. ASSUME NEW e \in Installers, IssueFirst(e) PROVE InOrder'
  <2>1. keys' = keys /\ pending' = pending /\ queue' = queue
    BY <1>3 DEF IssueFirst, renewVars, boundVars
  <2>2. setup'[e].pc = "issued" /\ \A f \in Installers \ {e} : setup'[f] = setup[f]
    BY <1>3, <1>a DEF IssueFirst
  <2>3. Len(creds') = Len(creds) + 1 /\ creds'[Len(creds) + 1].key = setup[e].key
    BY <1>3, <1>a DEF IssueFirst, NewCredential
  <2>4. setup[e].key <= keys
    BY <1>3 DEF IssueFirst, InOrder
  <2>5. \A c \in 1..Len(creds') : creds'[c].key <= keys'
    <3>1. \A c \in 1..Len(creds') : c = Len(creds) + 1 \/ c \in 1..Len(creds)
      BY <1>a, <2>3
    <3> QED
      BY <1>b, <2>1, <2>3, <2>4, <3>1 DEF Kept, InOrder
  <2> QED
    BY <2>1, <2>2, <2>5 DEF InOrder
<1>4. ASSUME NEW e \in Installers, EnrolWriteKey(e) PROVE InOrder'
  <2>1. keys' = keys /\ Len(creds') = Len(creds) /\ pending' = pending /\ queue' = queue
    BY <1>4 DEF EnrolWriteKey, renewVars, boundVars
  <2>2. setup[e].pc \in {"issued", "keyed"} /\ setup[e] \in Issued
    BY <1>4, <1>a, Standing DEF EnrolWriteKey
  <2>3. setup'[e].pc \notin {"asked", "redeemed"} /\ \A f \in Installers \ {e} : setup'[f] = setup[f]
    BY <1>4, <1>a, <2>2 DEF EnrolWriteKey, Done
  <2> QED
    BY <1>b, <2>1, <2>3, OrderLeft DEF InOrder
<1>5. ASSUME NEW e \in Installers, EnrolWriteCert(e) PROVE InOrder'
  <2>1. keys' = keys /\ Len(creds') = Len(creds) /\ pending' = pending /\ queue' = queue
    BY <1>5 DEF EnrolWriteCert, renewVars, boundVars
  <2>2. setup[e].pc \in {"issued", "keyed"} /\ setup[e] \in Issued
    BY <1>5, <1>a, Standing DEF EnrolWriteCert
  <2>3. setup'[e].pc \notin {"asked", "redeemed"} /\ \A f \in Installers \ {e} : setup'[f] = setup[f]
    BY <1>5, <1>a, <2>2 DEF EnrolWriteCert, Done
  <2> QED
    BY <1>b, <2>1, <2>3, OrderLeft DEF InOrder
<1>6. ASSUME NEW e \in Installers, EnrolFails(e) PROVE InOrder'
  <2>1. keys' = keys /\ Len(creds') = Len(creds) /\ pending' = pending /\ queue' = queue
    BY <1>6 DEF EnrolFails, renewVars
  <2>2. setup'[e].pc \notin {"asked", "redeemed"} /\ \A f \in Installers \ {e} : setup'[f] = setup[f]
    BY <1>6, <1>a DEF EnrolFails, Done
  <2> QED
    BY <1>b, <2>1, <2>2, OrderLeft DEF InOrder
<1>7. ASSUME Connect PROVE InOrder'
  <2>1. keys' = keys /\ Len(creds') = Len(creds) /\ pending' \in {pending, 0}
    BY <1>7, <1>a DEF Connect, enrolVars, renewVars, boundVars, Fail
  <2>2. queue' = queue /\ setup' = setup
    BY <1>7 DEF Connect, enrolVars, renewVars, boundVars, Fail
  <2> QED
    BY <1>b, <2>1, <2>2, OrderLeft DEF InOrder
<1>8. ASSUME OnSessionReady PROVE InOrder'
  <2>1. keys' = keys /\ Len(creds') = Len(creds) /\ pending' \in {pending, 0}
    BY <1>8, <1>a DEF OnSessionReady, enrolVars, renewVars, boundVars, Fail
  <2>2. queue' = queue /\ setup' = setup
    BY <1>8 DEF OnSessionReady, enrolVars, renewVars, boundVars, Fail
  <2> QED
    BY <1>b, <2>1, <2>2, OrderLeft DEF InOrder
<1>9. ASSUME RequestRenewal PROVE InOrder'
  <2>1. pending' = keys + 1 /\ creds' = creds /\ setup' = setup /\ keys' = keys + 1
    BY <1>9 DEF RequestRenewal, enrolVars
  <2>2. \A f \in Installers : setup'[f].pc \in {"asked", "redeemed"} => setup'[f].key <= keys'
    BY <1>a, <2>1, Standing, IdentityAssumption DEF InOrder
  <2>3. \A c \in 1..Len(creds') : creds'[c].key <= keys'
    <3>1. \A c \in 1..Len(creds) : creds[c] \in Credential
      BY <1>a
    <3> QED
      BY <1>a, <2>1, <3>1, IdentityAssumption DEF InOrder, Credential
  <2>4. ASSUME NEW t \in Sess, NEW i \in 1..Len(queue'[t]) PROVE queue'[t][i] <= keys'
    <3>1. queue[t] \in Seq(1..MaxKeys)
      BY <1>a
    <3>2. \A j \in 1..Len(queue[t]) : queue[t][j] <= keys + 1
      <4>1. \A j \in 1..Len(queue[t]) : queue[t][j] \in 1..MaxKeys /\ queue[t][j] <= keys
        <5>1. \A j \in 1..Len(queue[t]) : queue[t][j] \in 1..MaxKeys
          BY <3>1, IdentityAssumption
        <5> QED
          BY <5>1 DEF InOrder
      <4> QED
        BY <1>a, <4>1, IdentityAssumption
    <3>3. CASE t # link
      BY <1>9, <2>1, <3>2, <3>3, Sent
    <3>4. CASE t = link
      <4>1. i = Len(queue[t]) + 1 \/ i \in 1..Len(queue[t])
        BY <1>9, <2>4, <3>4, Sent
      <4> QED
        BY <1>9, <1>a, <2>1, <3>2, <3>4, <4>1, Sent
    <3> QED
      BY <3>3, <3>4
  <2>5. pending' <= keys'
    BY <1>a, <2>1
  <2> QED
    BY <2>2, <2>3, <2>4, <2>5 DEF InOrder
<1>10. ASSUME OnResponse PROVE InOrder'
  <2>1. keys' = keys /\ Len(creds') = Len(creds) /\ pending' \in {pending, 0}
    BY <1>10, <1>a DEF OnResponse, enrolVars, renewVars, boundVars, Fail
  <2>2. queue' = queue /\ setup' = setup
    BY <1>10 DEF OnResponse, enrolVars, renewVars, boundVars, Fail
  <2> QED
    BY <1>b, <2>1, <2>2, OrderLeft DEF InOrder
<1>11. ASSUME InstallCertificate PROVE InOrder'
  <2>1. keys' = keys /\ Len(creds') = Len(creds) /\ pending' \in {pending, 0} /\ setup' = setup
    BY <1>11 DEF InstallCertificate, enrolVars, boundVars, EndSession
  <2>2. link # 0
    BY <1>11 DEF InstallCertificate, TInv, Tidy
  <2>3. EndSession(Len(queue[link])) /\ Len(queue[link]) \in 0..Len(queue[link])
    <3>1. link \in Sess
      BY <2>2, IdentityAssumption DEF TInv, TypeOK, Sess
    <3>2. Len(queue[link]) \in Nat
      BY <1>a, <3>1
    <3> QED
      BY <1>11, <3>2 DEF InstallCertificate
  <2>4. \A s \in Sess : \A i \in 1..Len(queue'[s]) : queue'[s][i] <= keys
    BY <1>a, <2>2, <2>3, PrefixLeft DEF InOrder
  <2> QED
    BY <1>b, <2>1, <2>4, OrderLeft
<1>12. ASSUME NEW s \in Sess, HubRenew(s) PROVE InOrder'
  <2>1. keys' = keys /\ pending' = pending /\ setup' = setup
    BY <1>12 DEF HubRenew, renewVars, boundVars, enrolVars
  <2>2. queue[s] # <<>> /\ queue' = [queue EXCEPT ![s] = Tail(queue[s])]
    BY <1>12 DEF HubRenew
  <2>3. queue[s][1] <= keys /\ \A t \in Sess : \A i \in 1..Len(queue'[t]) : queue'[t][i] <= keys
    BY <2>2, Taken DEF InOrder
  <2>4. Len(creds') = Len(creds) + 1 /\ creds'[Len(creds) + 1].key = queue[s][1]
    <3>1. /\ Len(creds') = Len(creds) + 1
          /\ creds'[Len(creds) + 1] = NewCredential(Head(queue[s]), None)
      BY <1>12, <1>a, RenewedRows
    <3>2. Head(queue[s]) = queue[s][1]
      BY <2>2, Taken
    <3> QED
      BY <3>1, <3>2 DEF NewCredential
  <2>5. \A c \in 1..Len(creds') : creds'[c].key <= keys'
    <3>1. \A c \in 1..Len(creds') : c = Len(creds) + 1 \/ c \in 1..Len(creds)
      BY <1>a, <2>4
    <3> QED
      BY <1>b, <2>1, <2>3, <2>4, <3>1 DEF Kept, InOrder
  <2> QED
    BY <2>1, <2>3, <2>5 DEF InOrder
<1>13. ASSUME NEW s \in Sess, HubRefuse(s) PROVE InOrder'
  <2>1. keys' = keys /\ pending' = pending /\ setup' = setup /\ Len(creds') = Len(creds)
    BY <1>13 DEF HubRefuse, renewVars, enrolVars
  <2>2. queue[s] # <<>> /\ queue' = [queue EXCEPT ![s] = Tail(queue[s])]
    BY <1>13 DEF HubRefuse
  <2>3. \A t \in Sess : \A i \in 1..Len(queue'[t]) : queue'[t][i] <= keys
    BY <2>2, Taken DEF InOrder
  <2> QED
    BY <1>b, <2>1, <2>3, OrderLeft
<1>14. ASSUME Break PROVE InOrder'
  <2>1. keys' = keys /\ Len(creds') = Len(creds) /\ pending' \in {pending, 0} /\ setup' = setup
    BY <1>14 DEF Break, enrolVars, boundVars, EndSession
  <2>2. link # 0
    BY <1>14 DEF Break, TInv, Tidy
  <2>3. PICK n \in 0..Len(queue[link]) : EndSession(n)
    BY <1>14 DEF Break
  <2>4. \A s \in Sess : \A i \in 1..Len(queue'[s]) : queue'[s][i] <= keys
    BY <1>a, <2>2, <2>3, PrefixLeft DEF InOrder
  <2> QED
    BY <1>b, <2>1, <2>4, OrderLeft
<1>15. ASSUME Crash PROVE InOrder'
  <2>1. keys' = keys /\ Len(creds') = Len(creds) /\ pending' \in {pending, 0} /\ setup' = setup
    BY <1>15 DEF Crash, enrolVars, boundVars, EndSession
  <2>2. link # 0
    BY <1>15 DEF Crash, TInv, Tidy
  <2>3. PICK n \in 0..Len(queue[link]) : EndSession(n)
    BY <1>15 DEF Crash
  <2>4. \A s \in Sess : \A i \in 1..Len(queue'[s]) : queue'[s][i] <= keys
    BY <1>a, <2>2, <2>3, PrefixLeft DEF InOrder
  <2> QED
    BY <1>b, <2>1, <2>4, OrderLeft
<1>16. ASSUME Age PROVE InOrder'
  <2>1. keys' = keys /\ Len(creds') = Len(creds) /\ pending' \in {pending, 0}
    BY <1>16, <1>a DEF Age, enrolVars, renewVars, boundVars, Fail
  <2>2. queue' = queue /\ setup' = setup
    BY <1>16 DEF Age, enrolVars, renewVars, boundVars, Fail
  <2> QED
    BY <1>b, <2>1, <2>2, OrderLeft DEF InOrder
<1>17. ASSUME ResponseTimeout PROVE InOrder'
  <2>1. keys' = keys /\ Len(creds') = Len(creds) /\ pending' \in {pending, 0}
    BY <1>17, <1>a DEF ResponseTimeout, enrolVars, renewVars, boundVars, Fail
  <2>2. queue' = queue /\ setup' = setup
    BY <1>17 DEF ResponseTimeout, enrolVars, renewVars, boundVars, Fail
  <2> QED
    BY <1>b, <2>1, <2>2, OrderLeft DEF InOrder
<1>18. ASSUME InstallFails PROVE InOrder'
  <2>1. keys' = keys /\ Len(creds') = Len(creds) /\ pending' \in {pending, 0}
    BY <1>18, <1>a DEF InstallFails, enrolVars, renewVars, boundVars, Fail
  <2>2. queue' = queue /\ setup' = setup
    BY <1>18 DEF InstallFails, enrolVars, renewVars, boundVars, Fail
  <2> QED
    BY <1>b, <2>1, <2>2, OrderLeft DEF InOrder
<1>19. ASSUME NEW c \in 1..MaxKeys, Expire(c) PROVE InOrder'
  <2>1. keys' = keys /\ Len(creds') = Len(creds) /\ pending' \in {pending, 0}
    BY <1>19, <1>a DEF Expire, enrolVars, renewVars, boundVars, Fail
  <2>2. queue' = queue /\ setup' = setup
    BY <1>19 DEF Expire, enrolVars, renewVars, boundVars, Fail
  <2> QED
    BY <1>b, <2>1, <2>2, OrderLeft DEF InOrder
<1>20. ASSUME NEW c \in 1..MaxKeys, RevokeCredential(c) PROVE InOrder'
  <2>1. keys' = keys /\ Len(creds') = Len(creds) /\ pending' \in {pending, 0}
    BY <1>20, <1>a DEF RevokeCredential, enrolVars, renewVars, boundVars, Fail
  <2>2. queue' = queue /\ setup' = setup
    BY <1>20 DEF RevokeCredential, enrolVars, renewVars, boundVars, Fail
  <2> QED
    BY <1>b, <2>1, <2>2, OrderLeft DEF InOrder
<1>21. CASE UNCHANGED vars
  <2>1. keys' = keys /\ Len(creds') = Len(creds) /\ pending' \in {pending, 0}
    BY <1>21, <1>a DEF vars, enrolVars, renewVars, boundVars
  <2>2. queue' = queue /\ setup' = setup
    BY <1>21 DEF vars, enrolVars, renewVars, boundVars
  <2> QED
    BY <1>b, <2>1, <2>2, OrderLeft DEF InOrder
<1> QED
  BY <1>1, <1>2, <1>3, <1>4, <1>5, <1>6, <1>7, <1>8, <1>9, <1>10, <1>11, <1>12, <1>13, <1>14, <1>15, <1>16, <1>17, <1>18, <1>19, <1>20, <1>21 DEF Next, Enrolment, Worker, Environment

(* The rows that the answers on the wire name stay what they are.           *)
LEMMA Named ==
    ASSUME TInv, Kept, NEW i \in 1..Len(inbox), inbox[i].ok
    PROVE  inbox[i].cert \in 1..Len(creds) /\ creds'[inbox[i].cert].key = creds[inbox[i].cert].key
<1>1. inbox \in Seq(Answers)
  BY DEF TInv, Tidy
<1>2. inbox[i] \in Answers
  BY <1>1
<1>3. inbox[i] \notin [ok : {FALSE}]
  OBVIOUS
<1>4. inbox[i].cert \in 1..Len(creds)
  BY <1>2, <1>3 DEF Answers
<1> QED
  BY <1>4 DEF Kept

(* A step that leaves the renewal of the current session alone.             *)
LEMMA LastLeft ==
    ASSUME TInv, LastInv, Kept, pending' = pending, timer' = timer, installing' = installing,
           link' = link, inbox' = inbox, link # 0 => queue'[link] = queue[link]
    PROVE  LastInv'
<1>1. link = 0 => pending = 0 /\ installing = 0
  BY DEF TInv, Tidy
<1>2. \A i \in 1..Len(inbox) : Awaited(inbox[i])' => Awaited(inbox[i])
  BY Named DEF Awaited
<1> QED
  BY <1>1, <1>2 DEF LastInv

LEMMA NothingAwaited == ASSUME pending' = 0, installing' = 0 PROVE LastInv'
BY DEF LastInv

LEMMA LastNext == TInv /\ InOrder /\ LastInv /\ [Next]_vars => LastInv'
<1> SUFFICES ASSUME TInv, InOrder, LastInv, [Next]_vars PROVE LastInv'
  OBVIOUS
<1>a. /\ TypeOK /\ creds \in Seq(Credential) /\ inbox \in Seq(Answers)
      /\ keys \in Nat /\ pending \in Nat /\ queue \in [Sess -> Seq(1..MaxKeys)]
  BY IdentityAssumption DEF TInv, TypeOK, Tidy
<1>b. Kept
  BY <1>a, CredsKept
<1>c. (link = 0 => ~ready) /\ (~ready => ~timer /\ pending = 0 /\ installing = 0)
  BY DEF TInv, Tidy
<1>d. link # 0 => link \in Sess
  BY IdentityAssumption DEF TInv, TypeOK, Sess
<1>1. ASSUME NEW e \in Installers, NEW t \in Tokens, Enrol(e, t) PROVE LastInv'
  <2>1. pending' = pending /\ timer' = timer /\ installing' = installing /\ link' = link /\ inbox' = inbox /\ queue' = queue
    BY <1>1 DEF Enrol, linkVars, renewVars
  <2> QED
    BY <1>b, <2>1, LastLeft
<1>2. ASSUME NEW e \in Installers, Redeem(e) PROVE LastInv'
  <2>1. pending' = pending /\ timer' = timer /\ installing' = installing /\ link' = link /\ inbox' = inbox /\ queue' = queue
    BY <1>2 DEF Redeem, linkVars, renewVars
  <2> QED
    BY <1>b, <2>1, LastLeft
<1>3. ASSUME NEW e \in Installers, IssueFirst(e) PROVE LastInv'
  <2>1. pending' = pending /\ timer' = timer /\ installing' = installing /\ link' = link /\ inbox' = inbox /\ queue' = queue
    BY <1>3 DEF IssueFirst, linkVars, renewVars
  <2> QED
    BY <1>b, <2>1, LastLeft
<1>4. ASSUME NEW e \in Installers, EnrolWriteKey(e) PROVE LastInv'
  <2>1. pending' = pending /\ timer' = timer /\ installing' = installing /\ link' = link /\ inbox' = inbox /\ queue' = queue
    BY <1>4 DEF EnrolWriteKey, linkVars, renewVars
  <2> QED
    BY <1>b, <2>1, LastLeft
<1>5. ASSUME NEW e \in Installers, EnrolWriteCert(e) PROVE LastInv'
  <2>1. pending' = pending /\ timer' = timer /\ installing' = installing /\ link' = link /\ inbox' = inbox /\ queue' = queue
    BY <1>5 DEF EnrolWriteCert, linkVars, renewVars
  <2> QED
    BY <1>b, <2>1, LastLeft
<1>6. ASSUME NEW e \in Installers, EnrolFails(e) PROVE LastInv'
  <2>1. pending' = pending /\ timer' = timer /\ installing' = installing /\ link' = link /\ inbox' = inbox /\ queue' = queue
    BY <1>6 DEF EnrolFails, linkVars, renewVars
  <2> QED
    BY <1>b, <2>1, LastLeft
<1>7. ASSUME Connect PROVE LastInv'
  <2>1. pending' = 0 /\ installing' = 0
    BY <1>7, <1>c DEF Connect, EndSession, renewVars, LastInv
  <2> QED
    BY <2>1, NothingAwaited
<1>8. ASSUME OnSessionReady PROVE LastInv'
  <2>1. pending' = 0 /\ installing' = 0
    BY <1>8, <1>c DEF OnSessionReady, EndSession, renewVars, LastInv
  <2> QED
    BY <2>1, NothingAwaited
<1>9. ASSUME RequestRenewal PROVE LastInv'
  <2>1. /\ timer' = FALSE /\ pending' = keys + 1 /\ installing' = installing /\ link' = link
        /\ inbox' = inbox /\ creds' = creds /\ timer /\ pending' # 0
    BY <1>9, <1>a DEF RequestRenewal, linkVars
  <2>2. installing = 0
    BY <2>1 DEF LastInv
  <2>3. \A i \in 1..Len(queue'[link]) - 1 : queue'[link][i] # keys + 1
    <3>1. \A i \in 1..Len(queue[link]) : queue[link][i] \in 1..MaxKeys
      <4>1. queue[link] \in Seq(1..MaxKeys)
        BY <1>9, Sent
      <4> QED
        BY <4>1, IdentityAssumption
    <3>2. \A i \in 1..Len(queue[link]) : queue[link][i] <= keys
      BY <1>9, Sent DEF InOrder
    <3>3. \A i \in 1..Len(queue[link]) : queue[link][i] # keys + 1
      BY <1>a, <3>1, <3>2, IdentityAssumption
    <3>4. 1..Len(queue'[link]) - 1 = 1..Len(queue[link])
      BY <1>9, Sent
    <3> QED
      BY <1>9, <3>3, <3>4, Sent
  <2>4. ASSUME NEW i \in 1..Len(inbox) PROVE ~Awaited(inbox[i])'
    <3>1. inbox[i].ok => inbox[i].cert \in 1..Len(creds)
      BY <1>b, Named
    <3>2. \A c \in 1..Len(creds) : creds[c].key \in Nat /\ creds[c].key <= keys
      <4>1. \A c \in 1..Len(creds) : creds[c] \in Credential
        BY <1>a
      <4> QED
        BY <4>1, IdentityAssumption DEF InOrder, Credential
    <3>3. \A c \in 1..Len(creds) : creds[c].key # keys + 1
      BY <1>a, <3>2
    <3> QED
      BY <2>1, <3>1, <3>3 DEF Awaited
  <2> QED
    BY <2>1, <2>2, <2>3, <2>4 DEF LastInv
<1>10. ASSUME OnResponse PROVE LastInv'
  <2> DEFINE msg == Head(inbox)
  <2>1. pending' = 0 /\ link' = link /\ queue' = queue /\ installing = 0
    BY <1>10 DEF OnResponse, linkVars
  <2>2. CASE pending # 0 /\ msg.ok /\ Matches(msg)
    <3>1. installing' = msg.cert /\ timer' = timer /\ inbox # <<>>
      BY <1>10, <2>2 DEF OnResponse
    <3>2. 1 \in 1..Len(inbox) /\ Awaited(inbox[1])
      BY <1>a, <2>2, <3>1, HeadTailProperties DEF Matches, Awaited
    <3>3. queue[link] = <<>> /\ ~timer
      BY <2>2, <3>2 DEF LastInv
    <3> QED
      BY <2>1, <3>1, <3>3 DEF LastInv
  <2>3. CASE ~(pending # 0 /\ msg.ok /\ Matches(msg))
    <3>1. installing' = installing
      BY <1>10, <2>3 DEF OnResponse
    <3> QED
      BY <2>1, <3>1, NothingAwaited
  <2> QED
    BY <2>2, <2>3
<1>11. ASSUME InstallCertificate PROVE LastInv'
  <2>1. pending' = 0 /\ installing' = 0
    BY <1>11, <1>c DEF InstallCertificate, EndSession, renewVars, LastInv
  <2> QED
    BY <2>1, NothingAwaited
<1>12. ASSUME NEW s \in Sess, HubRenew(s) PROVE LastInv'
  <2> DEFINE msg == [ok |-> TRUE, cert |-> Len(creds) + 1]
  <2>1. /\ pending' = pending /\ timer' = timer /\ installing' = installing /\ link' = link
        /\ queue[s] # <<>> /\ queue' = [queue EXCEPT ![s] = Tail(queue[s])] /\ Answer(s, msg)
    BY <1>12 DEF HubRenew, linkVars, renewVars
  <2>2. CASE link # s
    <3>1. inbox' = inbox /\ (link # 0 => queue'[link] = queue[link])
      BY <1>a, <1>d, <2>1, <2>2 DEF Answer
    <3> QED
      BY <1>b, <2>1, <3>1, LastLeft
  <2>3. CASE link = s /\ pending = 0
    BY <2>1, <2>3 DEF LastInv
  <2>4. CASE link = s /\ pending # 0
    <3>1. /\ Len(queue[s]) \in Nat /\ Len(queue[s]) > 0 /\ Head(queue[s]) = queue[s][1]
          /\ Len(queue'[s]) = Len(queue[s]) - 1 /\ \A i \in 1..Len(queue'[s]) : queue'[s][i] = queue[s][i + 1]
      BY <2>1, Taken
    <3>2. \A i \in 1..Len(queue'[s]) - 1 : queue'[s][i] # pending
      <4>1. \A i \in 1..Len(queue[s]) - 1 : queue[s][i] # pending
        BY <2>4 DEF LastInv
      <4> QED
        BY <3>1, <4>1
    <3>3. inbox' = Append(inbox, msg)
      BY <2>1, <2>4 DEF Answer
    <3> HIDE DEF msg
    <3>4. ASSUME NEW i \in 1..Len(inbox'), Awaited(inbox[i])' PROVE queue'[s] = <<>>
      <4>1. i \in 1..Len(inbox) \/ i = Len(inbox) + 1
        BY <1>a, <3>3
      <4>2. CASE i \in 1..Len(inbox)
        <5>1. inbox'[i] = inbox[i]
          BY <1>a, <3>3, <4>2
        <5>2. Awaited(inbox[i])
          BY <1>b, <2>1, <3>4, <4>2, <5>1, Named DEF Awaited
        <5> QED
          BY <2>1, <2>4, <4>2, <5>2 DEF LastInv
      <4>3. CASE i = Len(inbox) + 1
        <5>1. inbox'[i] = msg
          BY <1>a, <3>3, <4>3
        <5>2. queue[s][1] = pending
          <6>1. creds'[Len(creds) + 1].key = queue[s][1]
            <7>1. creds'[Len(creds) + 1] = NewCredential(Head(queue[s]), None)
              BY <1>12, <1>a, RenewedRows
            <7> QED
              BY <3>1, <7>1 DEF NewCredential
          <6> QED
            BY <2>1, <3>4, <5>1, <6>1 DEF Awaited, msg
        <5>3. Len(queue[s]) = 1
          <6>1. \A j \in 1..Len(queue[s]) - 1 : queue[s][j] # pending
            BY <2>4 DEF LastInv
          <6> DEFINE n == Len(queue[s])
          <6>2. n \in Nat /\ n > 0
            BY <3>1
          <6>3. 1 \notin 1..n - 1
            BY <5>2, <6>1
          <6> HIDE DEF n
          <6>4. n = 1
            BY <6>2, <6>3
          <6> QED
            BY <6>4 DEF n
        <5>4. queue'[s] = Tail(queue[s]) /\ queue[s] \in Seq(1..MaxKeys)
          BY <1>a, <2>1
        <5>5. queue'[s] \in Seq(1..MaxKeys) /\ Len(queue'[s]) = 0
          <6>1. Tail(queue[s]) \in Seq(1..MaxKeys)
            BY <2>1, <5>4, HeadTailProperties
          <6>2. Len(queue'[s]) = Len(queue[s]) - 1
            BY <3>1
          <6> QED
            BY <5>3, <5>4, <6>1, <6>2
        <5> QED
          BY <5>5
      <4> QED
        BY <4>1, <4>2, <4>3
    <3> QED
      BY <2>1, <2>4, <3>2, <3>4 DEF LastInv
  <2> QED
    BY <2>2, <2>3, <2>4
<1>13. ASSUME NEW s \in Sess, HubRefuse(s) PROVE LastInv'
  <2> DEFINE msg == [ok |-> FALSE]
  <2>1. /\ pending' = pending /\ timer' = timer /\ installing' = installing /\ link' = link
        /\ queue[s] # <<>> /\ queue' = [queue EXCEPT ![s] = Tail(queue[s])] /\ Answer(s, msg)
    BY <1>13 DEF HubRefuse, linkVars, renewVars
  <2>2. CASE link # s
    <3>1. inbox' = inbox /\ (link # 0 => queue'[link] = queue[link])
      BY <1>a, <1>d, <2>1, <2>2 DEF Answer
    <3> QED
      BY <1>b, <2>1, <3>1, LastLeft
  <2>3. CASE link = s /\ pending = 0
    BY <2>1, <2>3 DEF LastInv
  <2>4. CASE link = s /\ pending # 0
    <3>1. /\ Len(queue[s]) \in Nat /\ Len(queue[s]) > 0 /\ Head(queue[s]) = queue[s][1]
          /\ Len(queue'[s]) = Len(queue[s]) - 1 /\ \A i \in 1..Len(queue'[s]) : queue'[s][i] = queue[s][i + 1]
      BY <2>1, Taken
    <3>2. \A i \in 1..Len(queue'[s]) - 1 : queue'[s][i] # pending
      <4>1. \A i \in 1..Len(queue[s]) - 1 : queue[s][i] # pending
        BY <2>4 DEF LastInv
      <4> QED
        BY <3>1, <4>1
    <3>3. inbox' = Append(inbox, msg)
      BY <2>1, <2>4 DEF Answer
    <3> HIDE DEF msg
    <3>4. ASSUME NEW i \in 1..Len(inbox'), Awaited(inbox[i])' PROVE queue'[s] = <<>>
      <4>1. i \in 1..Len(inbox) \/ i = Len(inbox) + 1
        BY <1>a, <3>3
      <4>2. CASE i \in 1..Len(inbox)
        <5>1. inbox'[i] = inbox[i]
          BY <1>a, <3>3, <4>2
        <5>2. Awaited(inbox[i])
          BY <1>b, <2>1, <3>4, <4>2, <5>1, Named DEF Awaited
        <5> QED
          BY <2>1, <2>4, <4>2, <5>2 DEF LastInv
      <4>3. CASE i = Len(inbox) + 1
        <5>1. inbox'[i] = msg
          BY <1>a, <3>3, <4>3
        <5> QED
          BY <3>4, <5>1 DEF Awaited, msg
      <4> QED
        BY <4>1, <4>2, <4>3
    <3> QED
      BY <2>1, <2>4, <3>2, <3>4 DEF LastInv
  <2> QED
    BY <2>2, <2>3, <2>4
<1>14. ASSUME Break PROVE LastInv'
  <2>1. pending' = 0 /\ installing' = 0
    BY <1>14, <1>c DEF Break, EndSession, renewVars, LastInv
  <2> QED
    BY <2>1, NothingAwaited
<1>15. ASSUME Crash PROVE LastInv'
  <2>1. pending' = 0 /\ installing' = 0
    BY <1>15, <1>c DEF Crash, EndSession, renewVars, LastInv
  <2> QED
    BY <2>1, NothingAwaited
<1>16. ASSUME Age PROVE LastInv'
  <2>1. pending' = pending /\ timer' = timer /\ installing' = installing /\ link' = link /\ inbox' = inbox /\ queue' = queue
    BY <1>16 DEF Age, linkVars, renewVars
  <2> QED
    BY <1>b, <2>1, LastLeft
<1>17. ASSUME ResponseTimeout PROVE LastInv'
  <2>1. pending' = 0 /\ installing' = 0
    BY <1>17, <1>c DEF ResponseTimeout, EndSession, renewVars, LastInv
  <2> QED
    BY <2>1, NothingAwaited
<1>18. ASSUME InstallFails PROVE LastInv'
  <2>1. pending' = 0 /\ installing' = 0
    BY <1>18, <1>c DEF InstallFails, EndSession, renewVars, LastInv
  <2> QED
    BY <2>1, NothingAwaited
<1>19. ASSUME NEW c \in 1..MaxKeys, Expire(c) PROVE LastInv'
  <2>1. pending' = pending /\ timer' = timer /\ installing' = installing /\ link' = link /\ inbox' = inbox /\ queue' = queue
    BY <1>19 DEF Expire, linkVars, renewVars
  <2> QED
    BY <1>b, <2>1, LastLeft
<1>20. ASSUME NEW c \in 1..MaxKeys, RevokeCredential(c) PROVE LastInv'
  <2>1. pending' = pending /\ timer' = timer /\ installing' = installing /\ link' = link /\ inbox' = inbox /\ queue' = queue
    BY <1>20 DEF RevokeCredential, linkVars, renewVars
  <2> QED
    BY <1>b, <2>1, LastLeft
<1>21. CASE UNCHANGED vars
  <2>1. pending' = pending /\ timer' = timer /\ installing' = installing /\ link' = link /\ inbox' = inbox /\ queue' = queue
    BY <1>21 DEF vars, linkVars, renewVars
  <2> QED
    BY <1>b, <2>1, LastLeft
<1> QED
  BY <1>1, <1>2, <1>3, <1>4, <1>5, <1>6, <1>7, <1>8, <1>9, <1>10, <1>11, <1>12, <1>13, <1>14, <1>15, <1>16, <1>17, <1>18, <1>19, <1>20, <1>21 DEF Next, Enrolment, Worker, Environment

(* Without overtaking, what is left to the hub belongs to the last session, *)
(* which the certificate in hand has opened.                                *)
HandInv ==
    ~overtaken =>
        /\ \A s \in Sess : queue[s] # <<>> => s = opened /\ sessCred[s] = diskCert
        /\ link # 0 => sessCred[link] = diskCert
        /\ InHandAlwaysWorks
        /\ installing # 0 => creds[installing].revoked # "renewal"
        /\ pending # 0 => \A i \in 1..Len(inbox) : Awaited(inbox[i]) => creds[inbox[i].cert].revoked # "renewal"

(* A step that revokes nothing and puts no new certificate in hand.         *)
LEMMA HandLeft ==
    ASSUME TInv, HandInv, Kept, overtaken' = overtaken, opened' = opened, sessCred' = sessCred,
           diskCert' = diskCert, link' \in {link, 0}, installing' \in {installing, 0},
           pending' = 0 \/ (pending' = pending /\ inbox' = inbox),
           \A s \in Sess : queue'[s] # <<>> => queue[s] # <<>>,
           \A c \in 1..Len(creds) : creds'[c].revoked = "renewal" => creds[c].revoked = "renewal"
    PROVE  HandInv'
<1> SUFFICES ASSUME ~overtaken PROVE HandInv'
  BY DEF HandInv
<1>1. diskCert \in 0..Len(creds) /\ installing \in 0..Len(creds) /\ creds \in Seq(Credential)
  BY DEF TInv, TypeOK
<1>2. \A s \in Sess : queue'[s] # <<>> => s = opened' /\ sessCred'[s] = diskCert'
  BY DEF HandInv
<1>3. link' # 0 => sessCred'[link'] = diskCert'
  BY DEF HandInv
<1>4. InHandAlwaysWorks'
  BY <1>1 DEF HandInv, InHandAlwaysWorks
<1>5. installing' # 0 => creds'[installing'].revoked # "renewal"
  BY <1>1 DEF HandInv
<1>6. ASSUME pending' # 0, NEW i \in 1..Len(inbox'), Awaited(inbox[i])' PROVE creds'[inbox'[i].cert].revoked # "renewal"
  <2>1. pending' = pending /\ inbox' = inbox
    BY <1>6
  <2>2. inbox[i].ok /\ inbox[i].cert \in 1..Len(creds) /\ creds'[inbox[i].cert].key = creds[inbox[i].cert].key
    BY <1>6, <2>1, Named DEF Awaited
  <2>3. Awaited(inbox[i])
    BY <1>6, <2>1, <2>2 DEF Awaited
  <2> QED
    BY <1>6, <2>1, <2>2, <2>3 DEF HandInv
<1> QED
  BY <1>2, <1>3, <1>4, <1>5, <1>6 DEF HandInv

LEMMA HandNext == TInv /\ FirstInv /\ InOrder /\ LastInv /\ HandInv /\ [Next]_vars => HandInv'
<1> SUFFICES ASSUME TInv, FirstInv, InOrder, LastInv, HandInv, [Next]_vars PROVE HandInv'
  OBVIOUS
<1>a. /\ TypeOK /\ creds \in Seq(Credential) /\ inbox \in Seq(Answers)
      /\ keys \in Nat /\ pending \in Nat /\ queue \in [Sess -> Seq(1..MaxKeys)]
      /\ sessCred \in [Sess -> 0..Len(creds)] /\ overtaken \in BOOLEAN
      /\ diskCert \in 0..Len(creds) /\ installing \in 0..Len(creds)
  BY IdentityAssumption DEF TInv, TypeOK, Tidy
<1>b. Kept
  BY <1>a, CredsKept
<1>c. (link = 0 => ~ready) /\ (~ready => ~timer /\ pending = 0 /\ installing = 0)
  BY DEF TInv, Tidy
<1>d. (link # 0 => link \in Sess) /\ link \in {0, opened}
  BY IdentityAssumption DEF TInv, TypeOK, Tidy, Sess
<1>1. ASSUME NEW e \in Installers, NEW t \in Tokens, Enrol(e, t) PROVE HandInv'
  <2>1. overtaken' = overtaken /\ opened' = opened /\ sessCred' = sessCred /\ diskCert' = diskCert /\ link' = link
    BY <1>1 DEF Enrol, enrolVars, diskVars, linkVars, renewVars
  <2>2. installing' \in {installing, 0} /\ (pending' = 0 \/ (pending' = pending /\ inbox' = inbox)) /\ queue' = queue
    BY <1>1 DEF Enrol, enrolVars, diskVars, linkVars, renewVars
  <2>3. \A c \in 1..Len(creds) : creds'[c].revoked = "renewal" => creds[c].revoked = "renewal"
    BY <1>1, <1>a DEF Enrol, enrolVars, diskVars, linkVars, renewVars
  <2> QED
    BY <1>b, <2>1, <2>2, <2>3, HandLeft
<1>2. ASSUME NEW e \in Installers, Redeem(e) PROVE HandInv'
  <2>1. overtaken' = overtaken /\ opened' = opened /\ sessCred' = sessCred /\ diskCert' = diskCert /\ link' = link
    BY <1>2 DEF Redeem, enrolVars, diskVars, linkVars, renewVars
  <2>2. installing' \in {installing, 0} /\ (pending' = 0 \/ (pending' = pending /\ inbox' = inbox)) /\ queue' = queue
    BY <1>2 DEF Redeem, enrolVars, diskVars, linkVars, renewVars
  <2>3. \A c \in 1..Len(creds) : creds'[c].revoked = "renewal" => creds[c].revoked = "renewal"
    BY <1>2, <1>a DEF Redeem, enrolVars, diskVars, linkVars, renewVars
  <2> QED
    BY <1>b, <2>1, <2>2, <2>3, HandLeft
<1>3. ASSUME NEW e \in Installers, IssueFirst(e) PROVE HandInv'
  <2>1. overtaken' = overtaken /\ opened' = opened /\ sessCred' = sessCred /\ diskCert' = diskCert /\ link' = link
    BY <1>3 DEF IssueFirst, enrolVars, diskVars, linkVars, renewVars
  <2>2. installing' \in {installing, 0} /\ (pending' = 0 \/ (pending' = pending /\ inbox' = inbox)) /\ queue' = queue
    BY <1>3 DEF IssueFirst, enrolVars, diskVars, linkVars, renewVars
  <2>3. \A c \in 1..Len(creds) : creds'[c].revoked = "renewal" => creds[c].revoked = "renewal"
    BY <1>3, <1>a DEF IssueFirst, enrolVars, diskVars, linkVars, renewVars
  <2> QED
    BY <1>b, <2>1, <2>2, <2>3, HandLeft
<1>4. ASSUME NEW e \in Installers, EnrolWriteKey(e) PROVE HandInv'
  <2>1. overtaken' = overtaken /\ opened' = opened /\ sessCred' = sessCred /\ diskCert' = diskCert /\ link' = link
    BY <1>4 DEF EnrolWriteKey, enrolVars, diskVars, linkVars, renewVars
  <2>2. installing' \in {installing, 0} /\ (pending' = 0 \/ (pending' = pending /\ inbox' = inbox)) /\ queue' = queue
    BY <1>4 DEF EnrolWriteKey, enrolVars, diskVars, linkVars, renewVars
  <2>3. \A c \in 1..Len(creds) : creds'[c].revoked = "renewal" => creds[c].revoked = "renewal"
    BY <1>4, <1>a DEF EnrolWriteKey, enrolVars, diskVars, linkVars, renewVars
  <2> QED
    BY <1>b, <2>1, <2>2, <2>3, HandLeft
<1>5. ASSUME NEW e \in Installers, EnrolWriteCert(e) PROVE HandInv'
  <2>1. InHand(e) /\ Fresh
    BY <1>5 DEF EnrolWriteCert, InHand, FirstInv
  <2>2. /\ diskCert' = setup[e].cert /\ creds' = creds /\ queue' = queue /\ link' = link
        /\ installing' = installing /\ pending' = pending
    BY <1>5 DEF EnrolWriteCert, linkVars, renewVars
  <2>3. link' = 0 /\ installing' = 0 /\ pending' = 0
    BY <1>c, <1>d, <2>1, <2>2 DEF Fresh
  <2>4. \A s \in Sess : queue'[s] = <<>>
    <3>1. \A s \in Sess : opened < s
      BY <2>1, IdentityAssumption DEF Fresh, Sess
    <3> QED
      BY <2>2, <3>1 DEF TInv, Tidy
  <2>5. InHandAlwaysWorks'
    <3>1. setup[e].cert \in 1..Len(creds)
      BY <1>5, <1>a, Standing DEF EnrolWriteCert
    <3> QED
      BY <2>1, <2>2, <3>1 DEF Fresh, InHandAlwaysWorks
  <2> QED
    BY <2>3, <2>4, <2>5 DEF HandInv
<1>6. ASSUME NEW e \in Installers, EnrolFails(e) PROVE HandInv'
  <2>1. overtaken' = overtaken /\ opened' = opened /\ sessCred' = sessCred /\ diskCert' = diskCert /\ link' = link
    BY <1>6 DEF EnrolFails, enrolVars, diskVars, linkVars, renewVars
  <2>2. installing' \in {installing, 0} /\ (pending' = 0 \/ (pending' = pending /\ inbox' = inbox)) /\ queue' = queue
    BY <1>6 DEF EnrolFails, enrolVars, diskVars, linkVars, renewVars
  <2>3. \A c \in 1..Len(creds) : creds'[c].revoked = "renewal" => creds[c].revoked = "renewal"
    BY <1>6, <1>a DEF EnrolFails, enrolVars, diskVars, linkVars, renewVars
  <2> QED
    BY <1>b, <2>1, <2>2, <2>3, HandLeft
<1>7. ASSUME Connect PROVE HandInv'
  <2>1. /\ link = 0 /\ link' = opened + 1 /\ opened' = opened + 1 /\ opened < MaxSessions
        /\ overtaken' = (overtaken \/ \E s \in Sess : queue[s] # <<>>)
        /\ sessCred' = [sessCred EXCEPT ![opened + 1] = diskCert]
    BY <1>7 DEF Connect
  <2>2. diskCert' = diskCert /\ installing' = installing /\ pending' = pending /\ queue' = queue /\ creds' = creds
    BY <1>7 DEF Connect, diskVars, renewVars
  <2>3. SUFFICES ASSUME ~overtaken' PROVE HandInv'
    BY DEF HandInv
  <2>4. ~overtaken /\ \A s \in Sess : queue'[s] = <<>>
    BY <2>1, <2>2, <2>3
  <2>5. sessCred'[link'] = diskCert'
    <3>1. opened + 1 \in Sess
      BY <2>1, <1>a, IdentityAssumption DEF TypeOK, Sess
    <3> QED
      BY <1>a, <2>1, <2>2, <3>1
  <2>6. InHandAlwaysWorks' /\ installing' = 0 /\ pending' = 0
    BY <1>c, <2>1, <2>2, <2>4 DEF HandInv, InHandAlwaysWorks
  <2> QED
    BY <2>4, <2>5, <2>6 DEF HandInv
<1>8. ASSUME OnSessionReady PROVE HandInv'
  <2>1. overtaken' = overtaken /\ opened' = opened /\ sessCred' = sessCred /\ diskCert' = diskCert /\ link' = link
    BY <1>8 DEF OnSessionReady, enrolVars, diskVars, linkVars, renewVars
  <2>2. installing' \in {installing, 0} /\ (pending' = 0 \/ (pending' = pending /\ inbox' = inbox)) /\ queue' = queue
    BY <1>8 DEF OnSessionReady, enrolVars, diskVars, linkVars, renewVars
  <2>3. \A c \in 1..Len(creds) : creds'[c].revoked = "renewal" => creds[c].revoked = "renewal"
    BY <1>8, <1>a DEF OnSessionReady, enrolVars, diskVars, linkVars, renewVars
  <2> QED
    BY <1>b, <2>1, <2>2, <2>3, HandLeft
<1>9. ASSUME RequestRenewal PROVE HandInv'
  <2>1. /\ pending' = keys + 1 /\ creds' = creds /\ inbox' = inbox /\ installing' = installing
        /\ overtaken' = overtaken /\ opened' = opened /\ sessCred' = sessCred /\ link' = link /\ diskCert' = diskCert
    BY <1>9 DEF RequestRenewal, linkVars, diskVars
  <2>2. SUFFICES ASSUME ~overtaken PROVE HandInv'
    BY <2>1 DEF HandInv
  <2>3. ASSUME NEW i \in 1..Len(inbox) PROVE ~Awaited(inbox[i])'
    <3>1. inbox[i].ok => inbox[i].cert \in 1..Len(creds)
      BY <1>b, Named
    <3>2. \A c \in 1..Len(creds) : creds[c].key \in Nat /\ creds[c].key <= keys
      <4>1. \A c \in 1..Len(creds) : creds[c] \in Credential
        BY <1>a
      <4> QED
        BY <4>1, IdentityAssumption DEF InOrder, Credential
    <3>3. \A c \in 1..Len(creds) : creds[c].key # keys + 1
      BY <1>a, <3>2
    <3> QED
      BY <2>1, <3>1, <3>3 DEF Awaited
  <2>4. \A t \in Sess : queue'[t] # <<>> => t = opened' /\ sessCred'[t] = diskCert'
    <3>1. /\ link = opened /\ link # 0
          /\ \A t \in Sess \ {link} : queue'[t] = queue[t]
      BY <1>9, Sent DEF Sess
    <3> QED
      BY <2>1, <2>2, <3>1 DEF HandInv
  <2>5. (link' # 0 => sessCred'[link'] = diskCert') /\ InHandAlwaysWorks'
    BY <2>1, <2>2 DEF HandInv, InHandAlwaysWorks
  <2>6. installing' # 0 => creds'[installing'].revoked # "renewal"
    BY <2>1, <2>2 DEF HandInv
  <2> QED
    BY <2>1, <2>3, <2>4, <2>5, <2>6 DEF HandInv
<1>10. ASSUME OnResponse PROVE HandInv'
  <2> DEFINE msg == Head(inbox)
  <2>1. /\ pending' = 0 /\ creds' = creds /\ queue' = queue
        /\ overtaken' = overtaken /\ opened' = opened /\ sessCred' = sessCred /\ link' = link /\ diskCert' = diskCert
    BY <1>10 DEF OnResponse, linkVars
  <2>2. CASE pending # 0 /\ msg.ok /\ Matches(msg)
    <3>1. installing' = msg.cert /\ inbox # <<>>
      BY <1>10, <2>2 DEF OnResponse
    <3>2. 1 \in 1..Len(inbox) /\ msg = inbox[1] /\ Awaited(inbox[1])
      BY <1>a, <2>2, <3>1, HeadTailProperties DEF Matches, Awaited
    <3>3. ~overtaken => creds'[installing'].revoked # "renewal"
      BY <2>1, <2>2, <3>1, <3>2 DEF HandInv
    <3> QED
      BY <2>1, <3>3 DEF HandInv, InHandAlwaysWorks
  <2>3. CASE ~(pending # 0 /\ msg.ok /\ Matches(msg))
    <3>1. installing' = installing
      BY <1>10, <2>3 DEF OnResponse
    <3> QED
      BY <1>b, <2>1, <3>1, HandLeft
  <2> QED
    BY <2>2, <2>3
<1>11. ASSUME InstallCertificate PROVE HandInv'
  <2>1. /\ installing # 0 /\ diskCert' = installing /\ installing' = 0 /\ link' = 0 /\ pending' = 0
        /\ overtaken' = overtaken /\ creds' = creds /\ EndSession(Len(queue[link]))
    BY <1>11 DEF InstallCertificate, EndSession
  <2>2. SUFFICES ASSUME ~overtaken PROVE HandInv'
    BY <2>1 DEF HandInv
  <2>3. link # 0 /\ link \in Sess /\ link = opened /\ queue[link] = <<>>
    BY <1>c, <1>d, <2>1 DEF LastInv
  <2>4. \A s \in Sess : queue[s] = <<>>
    BY <2>2, <2>3 DEF HandInv
  <2>5. \A s \in Sess : queue'[s] = <<>>
    <3>1. Len(queue[link]) \in 0..Len(queue[link])
      BY <2>3
    <3> QED
      BY <2>1, <2>3, <2>4, <3>1, PrefixLeft
  <2>6. InHandAlwaysWorks'
    BY <2>1, <2>2 DEF HandInv, InHandAlwaysWorks
  <2> QED
    BY <2>1, <2>5, <2>6 DEF HandInv
<1>12. ASSUME NEW s \in Sess, HubRenew(s) PROVE HandInv'
  <2> DEFINE msg == [ok |-> TRUE, cert |-> Len(creds) + 1]
  <2>1. /\ pending' = pending /\ installing' = installing /\ link' = link /\ diskCert' = diskCert
        /\ overtaken' = overtaken /\ opened' = opened /\ sessCred' = sessCred
        /\ queue[s] # <<>> /\ queue' = [queue EXCEPT ![s] = Tail(queue[s])] /\ Answer(s, msg)
    BY <1>12 DEF HubRenew, diskVars, linkVars, renewVars
  <2>2. SUFFICES ASSUME ~overtaken PROVE HandInv'
    BY <2>1 DEF HandInv
  <2>3. s = opened /\ sessCred[s] = diskCert
    BY <2>1, <2>2 DEF HandInv
  <2>4. \A t \in Sess : queue'[t] # <<>> => queue[t] # <<>>
    <3>1. \A t \in Sess \ {s} : queue'[t] = queue[t]
      BY <2>1, Taken
    <3> QED
      BY <2>1, <3>1
  <2>5. installing = 0 /\ (pending # 0 => link = s)
    <3>1. link # 0 => link = s
      BY <1>d, <2>3
    <3> QED
      BY <1>c, <2>1, <3>1 DEF LastInv
  <2>6. InHandAlwaysWorks'
    <3>1. \A c \in 1..Len(creds) : c = sessCred[s] => creds'[c].revoked = creds[c].revoked
      BY <1>12, <1>a, RenewedRows
    <3>2. diskCert # 0 => diskCert \in 1..Len(creds)
      BY <1>a
    <3> QED
      BY <2>1, <2>2, <2>3, <3>1, <3>2 DEF HandInv, InHandAlwaysWorks
  <2>7. ASSUME pending' # 0, NEW i \in 1..Len(inbox'), Awaited(inbox[i])' PROVE creds'[inbox'[i].cert].revoked # "renewal"
    <3>1. link = s /\ pending # 0 /\ inbox' = Append(inbox, msg)
      BY <2>1, <2>5, <2>7 DEF Answer
    <3> HIDE DEF msg
    <3>2. i \in 1..Len(inbox) \/ i = Len(inbox) + 1
      BY <1>a, <3>1
    <3>3. CASE i \in 1..Len(inbox)
      <4>1. inbox'[i] = inbox[i]
        BY <1>a, <3>1, <3>3
      <4>2. Awaited(inbox[i])
        BY <1>b, <2>1, <2>7, <3>3, <4>1, Named DEF Awaited
      <4> QED
        BY <2>1, <3>1, <3>3, <4>2 DEF LastInv
    <3>4. CASE i = Len(inbox) + 1
      <4>1. inbox'[i] = msg
        BY <1>a, <3>1, <3>4
      <4>2. creds'[Len(creds) + 1] = NewCredential(Head(queue[s]), None)
        BY <1>12, <1>a, RenewedRows
      <4> QED
        BY <4>1, <4>2 DEF msg, NewCredential
    <3> QED
      BY <3>2, <3>3, <3>4
  <2> QED
    BY <2>1, <2>2, <2>3, <2>4, <2>5, <2>6, <2>7 DEF HandInv
<1>13. ASSUME NEW s \in Sess, HubRefuse(s) PROVE HandInv'
  <2> DEFINE msg == [ok |-> FALSE]
  <2>1. /\ pending' = pending /\ installing' = installing /\ link' = link /\ diskCert' = diskCert
        /\ overtaken' = overtaken /\ opened' = opened /\ sessCred' = sessCred
        /\ queue[s] # <<>> /\ queue' = [queue EXCEPT ![s] = Tail(queue[s])] /\ Answer(s, msg)
    BY <1>13 DEF HubRefuse, diskVars, linkVars, renewVars
  <2>2. SUFFICES ASSUME ~overtaken PROVE HandInv'
    BY <2>1 DEF HandInv
  <2>3. s = opened /\ sessCred[s] = diskCert
    BY <2>1, <2>2 DEF HandInv
  <2>4. \A t \in Sess : queue'[t] # <<>> => queue[t] # <<>>
    <3>1. \A t \in Sess \ {s} : queue'[t] = queue[t]
      BY <2>1, Taken
    <3> QED
      BY <2>1, <3>1
  <2>5. installing = 0 /\ (pending # 0 => link = s)
    <3>1. link # 0 => link = s
      BY <1>d, <2>3
    <3> QED
      BY <1>c, <2>1, <3>1 DEF LastInv
  <2>6. InHandAlwaysWorks'
    BY <1>13, <2>1, <2>2 DEF HubRefuse, HandInv, InHandAlwaysWorks
  <2>7. ASSUME pending' # 0, NEW i \in 1..Len(inbox'), Awaited(inbox[i])' PROVE creds'[inbox'[i].cert].revoked # "renewal"
    <3>1. link = s /\ pending # 0 /\ inbox' = Append(inbox, msg)
      BY <2>1, <2>5, <2>7 DEF Answer
    <3> HIDE DEF msg
    <3>2. i \in 1..Len(inbox) \/ i = Len(inbox) + 1
      BY <1>a, <3>1
    <3>3. CASE i \in 1..Len(inbox)
      <4>1. inbox'[i] = inbox[i]
        BY <1>a, <3>1, <3>3
      <4>2. Awaited(inbox[i])
        BY <1>b, <2>1, <2>7, <3>3, <4>1, Named DEF Awaited
      <4> QED
        BY <2>1, <3>1, <3>3, <4>2 DEF LastInv
    <3>4. CASE i = Len(inbox) + 1
      <4>1. inbox'[i] = msg
        BY <1>a, <3>1, <3>4
      <4> QED
        BY <2>7, <4>1 DEF Awaited, msg
    <3> QED
      BY <3>2, <3>3, <3>4
  <2> QED
    BY <2>1, <2>2, <2>3, <2>4, <2>5, <2>6, <2>7 DEF HandInv
<1>14. ASSUME Break PROVE HandInv'
  <2>1. /\ overtaken' = overtaken /\ opened' = opened /\ sessCred' = sessCred /\ diskCert' = diskCert
        /\ link' = 0 /\ pending' = 0 /\ creds' = creds /\ installing' \in {installing, 0} /\ link # 0
    BY <1>14 DEF Break, diskVars, EndSession
  <2>2. PICK n \in 0..Len(queue[link]) : EndSession(n)
    BY <1>14 DEF Break
  <2>3. \A s \in Sess : queue'[s] # <<>> => queue[s] # <<>>
    BY <2>1, <2>2, PrefixLeft
  <2> QED
    BY <1>b, <2>1, <2>3, HandLeft
<1>15. ASSUME Crash PROVE HandInv'
  <2>1. /\ overtaken' = overtaken /\ opened' = opened /\ sessCred' = sessCred /\ diskCert' = diskCert
        /\ link' = 0 /\ pending' = 0 /\ creds' = creds /\ installing' \in {installing, 0} /\ link # 0
    BY <1>15 DEF Crash, diskVars, EndSession
  <2>2. PICK n \in 0..Len(queue[link]) : EndSession(n)
    BY <1>15 DEF Crash
  <2>3. \A s \in Sess : queue'[s] # <<>> => queue[s] # <<>>
    BY <2>1, <2>2, PrefixLeft
  <2> QED
    BY <1>b, <2>1, <2>3, HandLeft
<1>16. ASSUME Age PROVE HandInv'
  <2>1. overtaken' = overtaken /\ opened' = opened /\ sessCred' = sessCred /\ diskCert' = diskCert /\ link' = link
    BY <1>16 DEF Age, diskVars, linkVars
  <2>2. installing' = installing /\ pending' = pending /\ inbox' = inbox /\ queue' = queue
    BY <1>16 DEF Age, renewVars
  <2>3. \A i \in 1..Len(creds) : creds'[i].revoked = "renewal" => creds[i].revoked = "renewal"
    <3>1. creds' = [creds EXCEPT ![diskCert].due = TRUE]
      BY <1>16 DEF Age
    <3>2. \A i \in 1..Len(creds) : creds[i] \in Credential
      BY <1>a
    <3> QED
      BY <1>a, <3>1, <3>2 DEF Credential
  <2> QED
    BY <1>b, <2>1, <2>2, <2>3, HandLeft
<1>17. ASSUME ResponseTimeout PROVE HandInv'
  <2>1. overtaken' = overtaken /\ opened' = opened /\ sessCred' = sessCred /\ diskCert' = diskCert /\ link' = link
    BY <1>17 DEF ResponseTimeout, enrolVars, diskVars, linkVars, renewVars
  <2>2. installing' \in {installing, 0} /\ (pending' = 0 \/ (pending' = pending /\ inbox' = inbox)) /\ queue' = queue
    BY <1>17 DEF ResponseTimeout, enrolVars, diskVars, linkVars, renewVars
  <2>3. \A c \in 1..Len(creds) : creds'[c].revoked = "renewal" => creds[c].revoked = "renewal"
    BY <1>17, <1>a DEF ResponseTimeout, enrolVars, diskVars, linkVars, renewVars
  <2> QED
    BY <1>b, <2>1, <2>2, <2>3, HandLeft
<1>18. ASSUME InstallFails PROVE HandInv'
  <2>1. overtaken' = overtaken /\ opened' = opened /\ sessCred' = sessCred /\ diskCert' = diskCert /\ link' = link
    BY <1>18 DEF InstallFails, enrolVars, diskVars, linkVars, renewVars
  <2>2. installing' \in {installing, 0} /\ (pending' = 0 \/ (pending' = pending /\ inbox' = inbox)) /\ queue' = queue
    BY <1>18 DEF InstallFails, enrolVars, diskVars, linkVars, renewVars
  <2>3. \A c \in 1..Len(creds) : creds'[c].revoked = "renewal" => creds[c].revoked = "renewal"
    BY <1>18, <1>a DEF InstallFails, enrolVars, diskVars, linkVars, renewVars
  <2> QED
    BY <1>b, <2>1, <2>2, <2>3, HandLeft
<1>19. ASSUME NEW c \in 1..MaxKeys, Expire(c) PROVE HandInv'
  <2>1. overtaken' = overtaken /\ opened' = opened /\ sessCred' = sessCred /\ diskCert' = diskCert /\ link' = link
    BY <1>19 DEF Expire, diskVars, linkVars
  <2>2. installing' = installing /\ pending' = pending /\ inbox' = inbox /\ queue' = queue
    BY <1>19 DEF Expire, renewVars
  <2>3. \A i \in 1..Len(creds) : creds'[i].revoked = "renewal" => creds[i].revoked = "renewal"
    <3>1. creds' = [creds EXCEPT ![c].expired = TRUE]
      BY <1>19 DEF Expire
    <3>2. \A i \in 1..Len(creds) : creds[i] \in Credential
      BY <1>a
    <3> QED
      BY <1>a, <3>1, <3>2 DEF Credential
  <2> QED
    BY <1>b, <2>1, <2>2, <2>3, HandLeft
<1>20. ASSUME NEW c \in 1..MaxKeys, RevokeCredential(c) PROVE HandInv'
  <2>1. overtaken' = overtaken /\ opened' = opened /\ sessCred' = sessCred /\ diskCert' = diskCert /\ link' = link
    BY <1>20 DEF RevokeCredential, diskVars, linkVars
  <2>2. installing' = installing /\ pending' = pending /\ inbox' = inbox /\ queue' = queue
    BY <1>20 DEF RevokeCredential, renewVars
  <2>3. \A i \in 1..Len(creds) : creds'[i].revoked = "renewal" => creds[i].revoked = "renewal"
    <3>1. creds' = [creds EXCEPT ![c].revoked = "admin"]
      BY <1>20 DEF RevokeCredential
    <3>2. \A i \in 1..Len(creds) : creds[i] \in Credential
      BY <1>a
    <3> QED
      BY <1>a, <3>1, <3>2 DEF Credential
  <2> QED
    BY <1>b, <2>1, <2>2, <2>3, HandLeft
<1>21. CASE UNCHANGED vars
  <2>1. overtaken' = overtaken /\ opened' = opened /\ sessCred' = sessCred /\ diskCert' = diskCert /\ link' = link
    BY <1>21 DEF vars, enrolVars, diskVars, linkVars, renewVars
  <2>2. installing' \in {installing, 0} /\ (pending' = 0 \/ (pending' = pending /\ inbox' = inbox)) /\ queue' = queue
    BY <1>21 DEF vars, enrolVars, diskVars, linkVars, renewVars
  <2>3. \A c \in 1..Len(creds) : creds'[c].revoked = "renewal" => creds[c].revoked = "renewal"
    BY <1>21, <1>a DEF vars, enrolVars, diskVars, linkVars, renewVars
  <2> QED
    BY <1>b, <2>1, <2>2, <2>3, HandLeft
<1> QED
  BY <1>1, <1>2, <1>3, <1>4, <1>5, <1>6, <1>7, <1>8, <1>9, <1>10, <1>11, <1>12, <1>13, <1>14, <1>15, <1>16, <1>17, <1>18, <1>19, <1>20, <1>21 DEF Next, Enrolment, Worker, Environment

LEMMA HandInit == Init => InOrder /\ LastInv /\ HandInv
<1> SUFFICES ASSUME Init PROVE InOrder /\ LastInv /\ HandInv
  OBVIOUS
<1>1. \A e \in Installers : setup[e].pc = "idle"
  BY DEF Init, Idle
<1>2. /\ pending = 0 /\ installing = 0 /\ link = 0 /\ diskCert = 0 /\ keys = 0 /\ Len(creds) = 0
      /\ \A s \in Sess : queue[s] = <<>>
  BY DEF Init
<1> QED
  BY <1>1, <1>2 DEF InOrder, LastInv, HandInv, InHandAlwaysWorks

(* renewWorkerCertificate: as long as no session opens before the requests  *)
(* of an older one are dealt with, the certificate the host holds is never  *)
(* one that a renewal has revoked, however often the renewal is tried,      *)
(* refused, timed out or cut off between the two writes.                    *)
THEOREM InHandKept == ASSUME OneToken PROVE Spec => []InHandWorks
<1>1. TInv /\ FirstInv /\ [Next]_vars => FirstInv'
  BY FirstNext
<1>2. HandInv => InHandWorks
  BY DEF HandInv, InHandWorks
<1> QED
  BY Typed, PairInit, HandInit, <1>1, <1>2, OrderNext, LastNext, HandNext, PTL DEF Spec

=============================================================================
