--------------------------- MODULE WorkerIdentity ---------------------------
(***************************************************************************)
(* The identity of an mTLS worker: a single-use enrolment token redeemed   *)
(* for a first certificate, sessions authenticated by the certificate on   *)
(* the host's disk, and its renewal over such a session.                   *)
(*                                                                         *)
(* The hub handles the messages of a session in order, and goes on with    *)
(* what it has read when the stream is gone; two sessions of one worker    *)
(* know nothing of each other.  A key is a number; a certificate is a row  *)
(* of worker_credentials with the key it certifies.  A certificate comes   *)
(* of age (half of its lifetime) and expires at any time after that.       *)
(***************************************************************************)
EXTENDS Naturals, Sequences, FiniteSets

CONSTANTS
    Tokens,       \* enrolment tokens minted for this host
    Installers,   \* runs of "rsagent enrol" on the host
    MaxSessions,  \* bound on sessions
    MaxKeys,      \* bound on key pairs the host generates
    MaxFails,     \* bound on crashes, broken streams, refusals and timeouts
    MaxDue,       \* bound on certificates that come of age
    None

ASSUME IdentityAssumption ==
    /\ MaxSessions \in Nat /\ MaxKeys \in Nat /\ MaxFails \in Nat /\ MaxDue \in Nat
    /\ None \notin Tokens

Sess == 1..MaxSessions

VARIABLES
    used,       \* enrolment tokens with used_at set
    creds,      \* worker_credentials, in the order of their insertion
    setup,      \* where each run of enrol stands
    diskKey,    \* the private key on disk (0: none)
    diskCert,   \* the certificate on disk (0: none)
    torn,       \* only the key of the last pair was written
    link,       \* the worker's current session (0: none)
    opened,     \* sessions opened so far
    overtaken,  \* history: a session opened while an older one had requests left
    sessCred,   \* the credential each session was authenticated by
    queue,      \* renewal requests the hub has read from each session
    inbox,      \* renewal responses on their way to the worker
    ready,      \* HelloAck received on the current session
    timer,      \* CertificateRenewer.#timer is set
    pending,    \* CertificateRenewer.#pendingPrivateKeyPem (0: null)
    installing, \* the certificate whose key has just been written (0: none)
    keys,       \* keys generated so far
    fails, dues

enrolVars  == <<used, setup>>
diskVars   == <<diskKey, diskCert, torn>>
linkVars   == <<link, opened, overtaken, sessCred, ready>>
renewVars  == <<timer, pending, installing>>
boundVars  == <<keys, fails, dues>>
vars == <<enrolVars, creds, diskVars, linkVars, queue, inbox, renewVars, boundVars>>

Asked == [pc : {"asked", "redeemed"}, tok : Tokens, key : 1..MaxKeys]
Issued == [pc : {"issued", "keyed"}, cert : DOMAIN creds]
Idle == [pc |-> "idle"]
Done == [pc |-> "done"]

\* A certificate as it is inserted.
NewCredential(k, t) ==
    [key |-> k, tok |-> t, revoked |-> "no", due |-> FALSE, expired |-> FALSE]
Live(c) == creds[c].revoked = "no" /\ ~creds[c].expired
Fail == fails < MaxFails /\ fails' = fails + 1

Init ==
    /\ used = {} /\ creds = <<>> /\ setup = [e \in Installers |-> Idle]
    /\ diskKey = 0 /\ diskCert = 0 /\ torn = FALSE
    /\ link = 0 /\ opened = 0 /\ overtaken = FALSE /\ sessCred = [s \in Sess |-> 0] /\ ready = FALSE
    /\ queue = [s \in Sess |-> <<>>] /\ inbox = <<>>
    /\ timer = FALSE /\ pending = 0 /\ installing = 0
    /\ keys = 0 /\ fails = 0 /\ dues = 0

-----------------------------------------------------------------------------
(***************************************************************************)
(* Enrolment                                                               *)
(***************************************************************************)

\* enrol generates a key, and asks for its certificate with the token.
Enrol(e, t) ==
    /\ setup[e] = Idle /\ keys < MaxKeys
    /\ keys' = keys + 1
    /\ setup' = [setup EXCEPT ![e] = [pc |-> "asked", tok |-> t, key |-> keys + 1]]
    /\ UNCHANGED <<used, creds, diskVars, linkVars, queue, inbox, renewVars, fails, dues>>

\* A slip: the token is looked up without regard to used_at.
RedeemAgain(e) ==
    /\ setup[e].pc = "asked"
    /\ used' = used \cup {setup[e].tok}
    /\ setup' = [setup EXCEPT ![e].pc = "redeemed"]
    /\ UNCHANGED <<creds, diskVars, linkVars, queue, inbox, renewVars, boundVars>>
\* redeemEnrolmentToken, the transaction: the row is locked, a token that is
\* used is unknown, and it is spent when the transaction commits.
Redeem(e) ==
    /\ setup[e].pc = "asked"
    /\ IF setup[e].tok \in used
       THEN setup' = [setup EXCEPT ![e] = Done] /\ UNCHANGED used
       ELSE /\ used' = used \cup {setup[e].tok}
            /\ setup' = [setup EXCEPT ![e].pc = "redeemed"]
    /\ UNCHANGED <<creds, diskVars, linkVars, queue, inbox, renewVars, boundVars>>

\* After the commit: the certificate is issued and its credential inserted.
IssueFirst(e) ==
    /\ setup[e].pc = "redeemed"
    /\ creds' = Append(creds, NewCredential(setup[e].key, setup[e].tok))
    /\ setup' = [setup EXCEPT ![e] = [pc |-> "issued", cert |-> Len(creds) + 1]]
    /\ UNCHANGED <<used, diskVars, linkVars, queue, inbox, renewVars, boundVars>>

\* The answer is written in two files, the key first.
EnrolWriteKey(e) ==
    /\ setup[e].pc = "issued"
    /\ diskKey' = creds[setup[e].cert].key
    /\ setup' = [setup EXCEPT ![e].pc = "keyed"]
    /\ UNCHANGED <<used, creds, diskCert, torn, linkVars, queue, inbox, renewVars, boundVars>>
EnrolWriteCert(e) ==
    /\ setup[e].pc = "keyed"
    /\ diskCert' = setup[e].cert
    /\ setup' = [setup EXCEPT ![e] = Done]
    /\ UNCHANGED <<used, creds, diskKey, torn, linkVars, queue, inbox, renewVars, boundVars>>

\* The call fails, or the process ends, wherever it stands: an expired token,
\* a control plane that goes away after the commit, an answer that is lost.
EnrolFails(e) ==
    /\ setup[e].pc \notin {"idle", "done"} /\ Fail
    /\ torn' = (torn \/ setup[e].pc = "keyed")
    /\ setup' = [setup EXCEPT ![e] = Done]
    /\ UNCHANGED <<used, creds, diskKey, diskCert, linkVars, queue, inbox, renewVars, keys, dues>>

-----------------------------------------------------------------------------
(***************************************************************************)
(* Sessions                                                                *)
(***************************************************************************)

\* The TLS handshake proves the pair on disk, and #authenticateMtls finds the
\* credential neither revoked nor expired.  Anything else is refused and tried
\* again after a backoff.
Connect ==
    /\ link = 0 /\ opened < MaxSessions
    /\ diskCert # 0 /\ creds[diskCert].key = diskKey
    /\ Live(diskCert)
    /\ link' = opened + 1 /\ opened' = opened + 1
    /\ overtaken' = (overtaken \/ \E s \in Sess : queue[s] # <<>>)
    /\ sessCred' = [sessCred EXCEPT ![opened + 1] = diskCert]
    /\ ready' = FALSE
    /\ UNCHANGED <<enrolVars, creds, diskVars, queue, inbox, renewVars, boundVars>>

\* onSessionReady: whatever was under way is forgotten and the renewal is
\* scheduled from the certificate on disk.
OnSessionReady ==
    /\ link # 0 /\ ~ready
    /\ ready' = TRUE /\ timer' = TRUE /\ pending' = 0
    /\ UNCHANGED <<enrolVars, creds, diskVars, link, opened, overtaken, sessCred, queue, inbox, installing, boundVars>>

\* The session is over for the worker; the hub still has what it has read.
EndSession(n) ==
    /\ link' = 0 /\ ready' = FALSE
    /\ queue' = [queue EXCEPT ![link] = SubSeq(@, 1, n)]
    /\ inbox' = <<>>
    /\ timer' = FALSE /\ pending' = 0
    /\ UNCHANGED <<opened, overtaken, sessCred>>

\* The stream breaks: what the hub had not read yet is lost, and every answer.
Break ==
    /\ link # 0 /\ installing = 0 /\ Fail
    /\ \E n \in 0..Len(queue[link]) : EndSession(n)
    /\ UNCHANGED <<enrolVars, creds, diskVars, installing, keys, dues>>

\* The process dies, perhaps between the two writes of a renewed pair.
Crash ==
    /\ link # 0 /\ Fail
    /\ \E n \in 0..Len(queue[link]) : EndSession(n)
    /\ torn' = (torn \/ installing # 0)
    /\ installing' = 0
    /\ UNCHANGED <<enrolVars, creds, diskKey, diskCert, keys, dues>>

-----------------------------------------------------------------------------
(***************************************************************************)
(* Renewal                                                                 *)
(***************************************************************************)

\* Half of the lifetime of the certificate on disk has passed; later it expires.
Age ==
    /\ dues < MaxDue /\ diskCert # 0 /\ ~creds[diskCert].due
    /\ dues' = dues + 1
    /\ creds' = [creds EXCEPT ![diskCert].due = TRUE]
    /\ UNCHANGED <<enrolVars, diskVars, linkVars, queue, inbox, renewVars, keys, fails>>
Expire(c) ==
    /\ c \in DOMAIN creds /\ creds[c].due /\ ~creds[c].expired
    /\ creds' = [creds EXCEPT ![c].expired = TRUE]
    /\ UNCHANGED <<enrolVars, diskVars, linkVars, queue, inbox, renewVars, boundVars>>
\* revokeCredential, by an administrator; a session that is up stays up.
RevokeCredential(c) ==
    /\ c \in DOMAIN creds /\ creds[c].revoked # "admin" /\ Fail
    /\ creds' = [creds EXCEPT ![c].revoked = "admin"]
    /\ UNCHANGED <<enrolVars, diskVars, linkVars, queue, inbox, renewVars, keys, dues>>

\* #requestRenewal: the timer of the certificate, or of a retry, has fired.  A
\* retry that is due before the answer to an earlier request is a fault.
RequestRenewal ==
    /\ timer /\ creds[diskCert].due /\ keys < MaxKeys
    /\ \/ queue[link] = <<>> /\ inbox = <<>> /\ UNCHANGED fails
       \/ (queue[link] # <<>> \/ inbox # <<>>) /\ Fail
    /\ keys' = keys + 1
    /\ timer' = FALSE
    /\ pending' = keys + 1
    /\ queue' = [queue EXCEPT ![link] = Append(@, keys + 1)]
    /\ UNCHANGED <<enrolVars, creds, diskVars, linkVars, inbox, installing, dues>>

\* A slip: the key is given up and that is all.
ResponseTimeoutOnce ==
    /\ pending # 0 /\ Fail
    /\ pending' = 0
    /\ UNCHANGED <<timer, enrolVars, creds, diskVars, linkVars, queue, inbox, installing, keys, dues>>
\* No answer within RESPONSE_TIMEOUT_MS: the key is given up, a retry is due.
ResponseTimeout ==
    /\ pending # 0 /\ Fail
    /\ pending' = 0 /\ timer' = TRUE
    /\ UNCHANGED <<enrolVars, creds, diskVars, linkVars, queue, inbox, installing, keys, dues>>

\* A slip: nothing but the new certificate stays valid.
SupersededAll(current) ==
    [c \in DOMAIN creds |-> IF creds[c].revoked = "no"
                            THEN [creds[c] EXCEPT !.revoked = "renewal"] ELSE creds[c]]

\* What the renewal leaves of the older certificates: the one the request was
\* authenticated by, and the new one.
Superseded(current) ==
    [c \in DOMAIN creds |->
        IF c # current /\ creds[c].revoked = "no"
        THEN [creds[c] EXCEPT !.revoked = "renewal"] ELSE creds[c]]
Answer(s, msg) == inbox' = IF link = s THEN Append(inbox, msg) ELSE inbox

\* handleCertificateRenewal and renewWorkerCertificate, in one transaction.
HubRenew(s) ==
    /\ queue[s] # <<>>
    /\ creds' = Append(Superseded(sessCred[s]), NewCredential(Head(queue[s]), None))
    /\ Answer(s, [ok |-> TRUE, cert |-> Len(creds) + 1])
    /\ queue' = [queue EXCEPT ![s] = Tail(@)]
    /\ UNCHANGED <<enrolVars, diskVars, linkVars, renewVars, boundVars>>
\* ... or it is refused: the request, the CA or the database.
HubRefuse(s) ==
    /\ queue[s] # <<>> /\ Fail
    /\ Answer(s, [ok |-> FALSE])
    /\ queue' = [queue EXCEPT ![s] = Tail(@)]
    /\ UNCHANGED <<enrolVars, creds, diskVars, linkVars, renewVars, keys, dues>>

\* A slip: the pair is not checked before it is written.
MatchesAnything(msg) == TRUE
\* checkPrivateKey: the certificate is for the key that was asked for last.
Matches(msg) == creds[msg.cert].key = pending

\* A slip: a refusal is only logged.
OnResponseOnce ==
    /\ inbox # <<>> /\ installing = 0
    /\ LET msg == Head(inbox) IN
       /\ pending' = 0
       /\ IF pending # 0 /\ msg.ok /\ Matches(msg)
          THEN diskKey' = pending /\ installing' = msg.cert
          ELSE UNCHANGED <<diskKey, installing>>
    /\ inbox' = Tail(inbox)
    /\ UNCHANGED <<timer, enrolVars, creds, diskCert, torn, linkVars, queue, boundVars>>

\* onResponse: an answer nobody waits for is dropped; a refusal and a pair that
\* does not match are retried; otherwise the key is written ...
OnResponse ==
    /\ inbox # <<>> /\ installing = 0
    /\ LET msg == Head(inbox) IN
       /\ pending' = 0
       /\ IF pending # 0 /\ msg.ok /\ Matches(msg)
          THEN diskKey' = pending /\ installing' = msg.cert /\ UNCHANGED timer
          ELSE timer' = (timer \/ pending # 0) /\ UNCHANGED <<diskKey, installing>>
    /\ inbox' = Tail(inbox)
    /\ UNCHANGED <<enrolVars, creds, diskCert, torn, linkVars, queue, boundVars>>

\* ... then the certificate, and the worker reconnects so that it takes effect.
InstallCertificate ==
    /\ installing # 0
    /\ diskCert' = installing /\ installing' = 0 /\ torn' = FALSE
    /\ EndSession(Len(queue[link]))
    /\ UNCHANGED <<enrolVars, creds, diskKey, boundVars>>
\* ... or the second write fails: the renewal is tried again in the same session.
InstallFails ==
    /\ installing # 0 /\ Fail
    /\ installing' = 0 /\ torn' = TRUE /\ timer' = TRUE
    /\ UNCHANGED <<enrolVars, creds, diskKey, diskCert, linkVars, queue, inbox, pending, keys, dues>>

-----------------------------------------------------------------------------
Enrolment(e) ==
    \/ \E t \in Tokens : Enrol(e, t)
    \/ Redeem(e) \/ IssueFirst(e) \/ EnrolWriteKey(e) \/ EnrolWriteCert(e) \/ EnrolFails(e)

Worker == Connect \/ OnSessionReady \/ RequestRenewal \/ OnResponse \/ InstallCertificate

Environment ==
    \/ Break \/ Crash \/ Age \/ ResponseTimeout \/ InstallFails
    \/ \E c \in 1..MaxKeys : Expire(c) \/ RevokeCredential(c)

Next ==
    \/ \E e \in Installers : Enrolment(e)
    \/ Worker
    \/ \E s \in Sess : HubRenew(s) \/ HubRefuse(s)
    \/ Environment

\* The worker's timers and promises and the hub's queues go on.
Fairness ==
    /\ WF_vars(Connect) /\ WF_vars(OnSessionReady) /\ WF_vars(RequestRenewal)
    /\ WF_vars(OnResponse) /\ WF_vars(InstallCertificate)
    /\ \A s \in Sess : WF_vars(HubRenew(s))

Spec == Init /\ [][Next]_vars
FairSpec == Spec /\ Fairness

-----------------------------------------------------------------------------
Credential ==
    [key : 1..MaxKeys, tok : Tokens \cup {None}, revoked : {"no", "renewal", "admin"},
     due : BOOLEAN, expired : BOOLEAN]

TypeOK ==
    /\ used \subseteq Tokens
    /\ creds \in Seq(Credential)
    /\ setup \in [Installers -> {Idle, Done} \cup Asked \cup Issued]
    /\ diskKey \in 0..MaxKeys /\ diskCert \in 0..Len(creds) /\ torn \in BOOLEAN
    /\ overtaken \in BOOLEAN /\ opened \in 0..MaxSessions /\ link \in 0..opened
    /\ sessCred \in [Sess -> 0..Len(creds)]
    /\ queue \in [Sess -> Seq(1..MaxKeys)]
    /\ ready \in BOOLEAN /\ timer \in BOOLEAN
    /\ pending \in 0..MaxKeys /\ installing \in 0..Len(creds)

\* redeemEnrolmentToken: of two installers with one token, at most one is given
\* a credential.
TokenOnce ==
    \A c, d \in DOMAIN creds : creds[c].tok # None /\ creds[c].tok = creds[d].tok => c = d

\* #install: the key and the certificate on disk belong together, unless a
\* crash or an error fell between the two writes; no late or repeated answer pairs a certificate
\* with another request's key.
PairMatches ==
    diskCert # 0 /\ ~torn /\ installing = 0 /\ (\A e \in Installers : setup[e].pc # "keyed")
        => creds[diskCert].key = diskKey

\* Renewal never comes to a standstill: on a session that is ready a timer is
\* set, an answer is awaited, or the renewed pair is being written.
NotWedged == ready => timer \/ pending # 0 \/ installing # 0

\* The certificate in hand works however the attempts to renew it fail: no
\* renewal revokes the certificate the host will connect with next (#requestRenewal).
\* The code keeps it only as far as InHandWorks says.
InHandAlwaysWorks == diskCert # 0 => creds[diskCert].revoked # "renewal"

\* The same as long as no session opens before the requests of an older one
\* are dealt with.
InHandWorks == ~overtaken => InHandAlwaysWorks

\* A certificate past half of its lifetime is replaced, whatever fails on the
\* way, unless it expires first, an administrator revokes it or a pair is torn.
Holding(c) == diskCert = c /\ creds[c].due
Renewed == \A c \in 1..MaxKeys :
    Holding(c) ~> (diskCert # c \/ torn \/ ~Live(c))

=============================================================================
