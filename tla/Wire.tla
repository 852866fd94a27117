-------------------------------- MODULE Wire --------------------------------
(***************************************************************************)
(* The wire contract of the worker hub and of enrolment: the schema of     *)
(* every message, the generated encoder and decoder that carry a message   *)
(* over a session, the JSON forms, and the signature of a command, which   *)
(* is computed over the object before it is encoded and verified over the  *)
(* object that was decoded.                                                *)
(*                                                                         *)
(* Both ends are deployed separately, so each has a view of the schema: a  *)
(* view is the set of <<message, field>> pairs that end does not know yet. *)
(* A message is a function of its fields; an optional message or a oneof   *)
(* is a sequence of at most one element (<<>> is undefined).               *)
(***************************************************************************)
EXTENDS Integers, Sequences, FiniteSets, SequencesExt, FiniteSetsExt, TLC

CONSTANTS
    MaxSafe,   \* Number.MAX_SAFE_INTEGER, scaled down
    Dates      \* instants, in milliseconds since the epoch

ASSUME WireAssumption == MaxSafe \in Nat \ {0} /\ Dates \subseteq Int

-----------------------------------------------------------------------------
\* Field descriptors: the field number, and how the value is written.
Str(n)     == [no |-> n, kind |-> "string"]
Bool(n)    == [no |-> n, kind |-> "bool"]
I32(n)     == [no |-> n, kind |-> "int32"]
I64(n)     == [no |-> n, kind |-> "int64"]
Bytes(n)   == [no |-> n, kind |-> "bytes"]
Strs(n)    == [no |-> n, kind |-> "strings"]
Msg(n, t)  == [no |-> n, kind |-> "message", of |-> t]
Msgs(n, t) == [no |-> n, kind |-> "messages", of |-> t]
\* A oneof: the number and the message of each case.
OneOf(cs)  == [no |-> Min({cs[c][1] : c \in DOMAIN cs}), kind |-> "oneof", cases |-> cs]

Timestamp == [seconds |-> I64(1), nanos |-> I32(2)]

WorkerMessage == [msg |-> OneOf(
    [hello |-> <<1, "Hello">>, snapshot |-> <<2, "Snapshot">>,
     definition |-> <<3, "DefinitionDelta">>, history |-> <<4, "HistoryBatch">>,
     activity |-> <<5, "ActivityUpdate">>, agentLog |-> <<6, "AgentLogBatch">>,
     commandResult |-> <<7, "CommandResult">>, heartbeat |-> <<8, "Heartbeat">>,
     instanceConfigStatus |-> <<9, "InstanceConfigStatus">>,
     certificateRenewal |-> <<10, "CertificateRenewalRequest">>])]
CertificateRenewalRequest == [csrPem |-> Str(1)]
Hello ==
    [workerVersion |-> Str(1), hostName |-> Str(2), maxCapability |-> Str(3),
     instances |-> Msgs(4, "InstanceInfo"), credentialPublicKey |-> Str(5)]
InstanceConfigStatus == [results |-> Msgs(1, "InstanceConfigResult")]
InstanceConfigResult == [instanceName |-> Str(1), status |-> Str(2), detail |-> Str(3)]
InstanceInfo ==
    [instanceName |-> Str(1), sqlVersion |-> Str(2), sqlEdition |-> Str(3),
     agentStatus |-> Str(4), serverName |-> Str(5), writeMode |-> Msg(6, "JobWriteStatus")]
JobWriteStatus ==
    [sqlLoginName |-> Str(1), isSysadmin |-> Bool(2), wrapperInstalled |-> Bool(3),
     wrapperAllowsDashboardManagement |-> Bool(4), allowlistedJobs |-> Strs(5)]
Snapshot ==
    [snapshotId |-> Str(1), instanceName |-> Str(2), moreChunks |-> Bool(3),
     jobs |-> Msgs(4, "JobDefinitionBlob"), schedules |-> Msgs(5, "ScheduleBlob"),
     operators |-> Msgs(6, "OperatorBlob"), alerts |-> Msgs(7, "AlertBlob")]
JobDefinitionBlob ==
    [jobUuid |-> Str(1), canonicalJson |-> Str(2), definitionHash |-> Str(3),
     dateModified |-> Msg(4, "Timestamp")]
ScheduleBlob == [scheduleName |-> Str(1), canonicalJson |-> Str(2), definitionHash |-> Str(3)]
OperatorBlob == [operatorId |-> I32(1), canonicalJson |-> Str(2), definitionHash |-> Str(3)]
AlertBlob == [alertId |-> I32(1), canonicalJson |-> Str(2), definitionHash |-> Str(3)]
DefinitionDelta ==
    [instanceName |-> Str(1), job |-> Msg(2, "JobDefinitionBlob"), deleted |-> Bool(3),
     appliedCommandId |-> Str(4)]
HistoryBatch == [instanceName |-> Str(1), rows |-> Msgs(2, "HistoryRow")]
HistoryRow ==
    [instanceId |-> I64(1), jobUuid |-> Str(2), stepId |-> I32(3), stepName |-> Str(4),
     runStatus |-> I32(5), runDatetime |-> Msg(6, "Timestamp"),
     runDurationSeconds |-> I32(7), message |-> Str(8), retriesAttempted |-> I32(9),
     server |-> Str(10), sqlSeverity |-> I32(11), sqlMessageId |-> I32(12)]
ActivityUpdate == [instanceName |-> Str(1), rows |-> Msgs(2, "ActivityRow")]
ActivityRow ==
    [jobUuid |-> Str(1), state |-> Str(2), currentStepId |-> I32(3),
     currentStepName |-> Str(4), startExecutionDate |-> Msg(5, "Timestamp"),
     lastExecutedStepDate |-> Msg(6, "Timestamp"),
     nextScheduledRunDate |-> Msg(7, "Timestamp"), lastRunOutcome |-> I32(8)]
AgentLogBatch == [instanceName |-> Str(1), rows |-> Msgs(2, "AgentLogRow")]
AgentLogRow ==
    [loggedAt |-> Msg(1, "Timestamp"), severity |-> Str(2), message |-> Str(3),
     processInfo |-> Str(4)]
Heartbeat ==
    [sentAt |-> Msg(1, "Timestamp"), instances |-> Msgs(2, "InstanceInfo"),
     outboxDepth |-> I32(3), clockSkewMs |-> I64(4)]
CommandResult ==
    [commandId |-> Str(1), success |-> Bool(2), errorCode |-> Str(3), errorDetail |-> Str(4),
     sqlErrorNumber |-> I32(5), resultingJob |-> Msg(6, "JobDefinitionBlob"),
     appliedAt |-> Msg(7, "Timestamp")]

ServerMessage == [msg |-> OneOf(
    [helloAck |-> <<1, "HelloAck">>, command |-> <<2, "Command">>,
     config |-> <<3, "ConfigUpdate">>, instanceConfigs |-> <<4, "InstanceConfigSet">>,
     certificateRenewal |-> <<5, "CertificateRenewalResponse">>])]
CertificateRenewalResponse ==
    [success |-> Bool(1), errorDetail |-> Str(2), certificatePem |-> Str(3),
     caCertificatePem |-> Str(4), notAfter |-> Msg(5, "Timestamp")]
InstanceConfigSet == [configs |-> Msgs(1, "InstanceConfig")]
InstanceConfig ==
    [instanceName |-> Str(1), serverAddress |-> Str(2), authMode |-> Str(3),
     loginName |-> Str(4), credentialCiphertext |-> Str(5),
     credentialKeyFingerprint |-> Str(6), encryptTls |-> Bool(7),
     trustServerCertificate |-> Bool(8), environmentTag |-> Str(9)]
HelloAck ==
    [workerId |-> Str(1), capabilities |-> Strs(2), config |-> Msg(3, "ConfigUpdate"),
     serverVersion |-> Str(4), commandSigningPublicKey |-> Str(5)]
ConfigUpdate ==
    [definitionPollSeconds |-> I32(1), historyPollSeconds |-> I32(2),
     activityPollSeconds |-> I32(3), agentLogPollSeconds |-> I32(4),
     heartbeatSeconds |-> I32(5), historyBatchSize |-> I32(6)]
Command ==
    [id |-> Str(1), issuedAt |-> Msg(2, "Timestamp"), instanceName |-> Str(3),
     signature |-> Bytes(4), payload |-> OneOf(
        [toggleJob |-> <<10, "ToggleJob">>, runJob |-> <<11, "RunJob">>,
         stopJob |-> <<12, "StopJob">>, upsertJob |-> <<13, "UpsertJob">>,
         deleteJob |-> <<14, "DeleteJob">>, upsertSchedule |-> <<15, "UpsertSchedule">>,
         deleteSchedule |-> <<16, "DeleteSchedule">>,
         upsertOperator |-> <<17, "UpsertOperator">>,
         deleteOperator |-> <<18, "DeleteOperator">>,
         setJobWriteAllowed |-> <<19, "SetJobWriteAllowed">>])]
SetJobWriteAllowed == [jobUuid |-> Str(1), jobName |-> Str(2), allowed |-> Bool(3)]
ToggleJob == [jobUuid |-> Str(1), enabled |-> Bool(2), baseDefinitionHash |-> Str(3)]
RunJob == [jobUuid |-> Str(1), stepName |-> Str(2)]
StopJob == [jobUuid |-> Str(1)]
UpsertJob ==
    [jobUuid |-> Str(1), canonicalJson |-> Str(2), baseDefinitionHash |-> Str(3),
     allowOverwrite |-> Bool(4)]
DeleteJob == [jobUuid |-> Str(1), baseDefinitionHash |-> Str(2)]
UpsertSchedule ==
    [scheduleName |-> Str(1), canonicalJson |-> Str(2), baseDefinitionHash |-> Str(3)]
DeleteSchedule == [scheduleName |-> Str(1), baseDefinitionHash |-> Str(2)]
UpsertOperator ==
    [operatorId |-> I32(1), canonicalJson |-> Str(2), baseDefinitionHash |-> Str(3)]
DeleteOperator == [operatorId |-> I32(1), baseDefinitionHash |-> Str(2)]
EnrolRequest ==
    [enrolmentToken |-> Str(1), hostName |-> Str(2), workerVersion |-> Str(3),
     csrPem |-> Str(4)]
EnrolResponse ==
    [workerId |-> Str(1), certificatePem |-> Str(2), caCertificatePem |-> Str(3),
     notAfter |-> Msg(4, "Timestamp"), workerKey |-> Str(5)]

Schema ==
    [Timestamp |-> Timestamp, WorkerMessage |-> WorkerMessage,
     CertificateRenewalRequest |-> CertificateRenewalRequest, Hello |-> Hello,
     InstanceConfigStatus |-> InstanceConfigStatus,
     InstanceConfigResult |-> InstanceConfigResult,
     InstanceInfo |-> InstanceInfo, JobWriteStatus |-> JobWriteStatus,
     Snapshot |-> Snapshot, JobDefinitionBlob |-> JobDefinitionBlob,
     ScheduleBlob |-> ScheduleBlob, OperatorBlob |-> OperatorBlob,
     AlertBlob |-> AlertBlob, DefinitionDelta |-> DefinitionDelta,
     HistoryBatch |-> HistoryBatch, HistoryRow |-> HistoryRow,
     ActivityUpdate |-> ActivityUpdate, ActivityRow |-> ActivityRow,
     AgentLogBatch |-> AgentLogBatch, AgentLogRow |-> AgentLogRow,
     Heartbeat |-> Heartbeat, CommandResult |-> CommandResult,
     ServerMessage |-> ServerMessage,
     CertificateRenewalResponse |-> CertificateRenewalResponse,
     InstanceConfigSet |-> InstanceConfigSet,
     InstanceConfig |-> InstanceConfig, HelloAck |-> HelloAck,
     ConfigUpdate |-> ConfigUpdate, Command |-> Command,
     SetJobWriteAllowed |-> SetJobWriteAllowed, ToggleJob |-> ToggleJob,
     RunJob |-> RunJob, StopJob |-> StopJob, UpsertJob |-> UpsertJob,
     DeleteJob |-> DeleteJob, UpsertSchedule |-> UpsertSchedule,
     DeleteSchedule |-> DeleteSchedule, UpsertOperator |-> UpsertOperator,
     DeleteOperator |-> DeleteOperator, EnrolRequest |-> EnrolRequest,
     EnrolResponse |-> EnrolResponse]

-----------------------------------------------------------------------------
Nested == {"message", "messages", "oneof"}

\* createBase...: the value of a field nobody set.
DefaultOf(d) ==
    CASE d.kind = "string" -> ""
      [] d.kind = "bool" -> FALSE
      [] d.kind \in {"int32", "int64"} -> 0
      [] OTHER -> <<>>

\* The fields, and the cases of a oneof, that an end with this view knows.
Known(t, view) == {f \in DOMAIN Schema[t] : <<t, f>> \notin view}
KnownCases(t, d, view) == {c \in DOMAIN d.cases : <<t, c>> \notin view}

CreateBase(t, view) == [f \in Known(t, view) |-> DefaultOf(Schema[t][f])]

LastField == Max({Schema[t][f].no : <<t, f>> \in UNION {{t} \X DOMAIN Schema[t] : t \in DOMAIN Schema}})

Tag(no, kind) == no * 8 + (IF kind \in {"bool", "int32", "int64"} THEN 0 ELSE 2)

RECURSIVE Encode(_, _, _)
\* The tokens of one field: nothing for a default, one per element otherwise.
EncodeField(d, v, view) ==
    CASE d.kind \in {"string", "bool", "int32", "int64", "bytes"} ->
            IF v = DefaultOf(d) THEN <<>> ELSE <<[tag |-> Tag(d.no, d.kind), val |-> v]>>
      [] d.kind = "strings" ->
            [i \in DOMAIN v |-> [tag |-> Tag(d.no, d.kind), val |-> v[i]]]
      [] d.kind \in {"message", "messages"} ->
            [i \in DOMAIN v |-> [tag |-> Tag(d.no, d.kind), val |-> Encode(d.of, v[i], view)]]
      [] d.kind = "oneof" ->
            [i \in DOMAIN v |-> [tag |-> Tag(d.cases[v[i].case][1], d.kind),
                                 val |-> Encode(d.cases[v[i].case][2], v[i].val, view)]]
\* The fields in the order of their numbers.
Encode(t, m, view) ==
    LET fs(n) == {f \in Known(t, view) : Schema[t][f].no = n}
        f(n)  == CHOOSE x \in fs(n) : TRUE
    IN FlattenSeq([n \in 1..LastField |->
            IF fs(n) = {} THEN <<>> ELSE EncodeField(Schema[t][f(n)], m[f(n)], view)])

\* The cases of field f of message t that a tag selects; {} for a plain field.
CasesFor(t, f, tag, view) ==
    LET d == Schema[t][f]
    IN IF d.kind # "oneof" THEN {}
       ELSE {c \in KnownCases(t, d, view) : Tag(d.cases[c][1], d.kind) = tag}
\* The field a tag selects, when the reader knows its number and wire type.
FieldsFor(t, tag, view) ==
    {f \in Known(t, view) : LET d == Schema[t][f] IN
        IF d.kind = "oneof" THEN CasesFor(t, f, tag, view) # {} ELSE Tag(d.no, d.kind) = tag}

RECURSIVE Decode(_, _, _)
\* A slip: an element of a repeated message replaces the ones before it.
ReadTokenReplacing(t, m, tok, view) ==
    LET fs == FieldsFor(t, tok.tag, view)
        f  == CHOOSE x \in fs : TRUE
        d  == Schema[t][f]
    IN IF fs = {} THEN m
       ELSE [m EXCEPT ![f] = CASE d.kind = "strings" -> <<tok.val>>
                               [] d.kind \in {"message", "messages"} -> <<Decode(d.of, tok.val, view)>>
                               [] d.kind = "oneof" -> LET c == CHOOSE x \in CasesFor(t, f, tok.tag, view) : TRUE
                                                      IN <<[case |-> c, val |-> Decode(d.cases[c][2], tok.val, view)]>>
                               [] OTHER -> tok.val]
\* One turn of the decode loop; a tag the reader does not know is skipped.
ReadToken(t, m, tok, view) ==
    LET fs == FieldsFor(t, tok.tag, view)
        f  == CHOOSE x \in fs : TRUE
        d  == Schema[t][f]
        c  == CHOOSE x \in CasesFor(t, f, tok.tag, view) : TRUE
    IN CASE fs = {} -> m
         [] fs # {} /\ d.kind = "strings" -> [m EXCEPT ![f] = Append(@, tok.val)]
         [] fs # {} /\ d.kind = "messages" -> [m EXCEPT ![f] = Append(@, Decode(d.of, tok.val, view))]
         [] fs # {} /\ d.kind = "message" -> [m EXCEPT ![f] = <<Decode(d.of, tok.val, view)>>]
         [] fs # {} /\ d.kind = "oneof" ->
                [m EXCEPT ![f] = <<[case |-> c, val |-> Decode(d.cases[c][2], tok.val, view)]>>]
         [] OTHER -> [m EXCEPT ![f] = tok.val]
Decode(t, toks, view) ==
    FoldLeft(LAMBDA m, tok : ReadToken(t, m, tok, view), CreateBase(t, view), toks)

RECURSIVE Throws(_, _, _)
\* longToNumber throws on an int64 beyond the safe integers, wherever it is.
Throws(t, toks, view) ==
    \E i \in DOMAIN toks : \E f \in FieldsFor(t, toks[i].tag, view) :
        LET d == Schema[t][f]
        IN \/ d.kind = "int64" /\ toks[i].val > MaxSafe
           \/ d.kind \in {"message", "messages"} /\ Throws(d.of, toks[i].val, view)
           \/ d.kind = "oneof" /\ \E c \in CasesFor(t, f, toks[i].tag, view) :
                    Throws(d.cases[c][2], toks[i].val, view)

RECURSIVE ToJSON(_, _)
\* The JSON form leaves out every default; a timestamp becomes one instant.
ToJSONField(d, v) ==
    CASE d.kind \in {"message", "messages"} ->
            [i \in DOMAIN v |-> IF d.of = "Timestamp"
                                THEN v[i].seconds * 1000 + v[i].nanos \div 1000000
                                ELSE ToJSON(d.of, v[i])]
      [] d.kind = "oneof" ->
            [i \in DOMAIN v |-> [case |-> v[i].case, val |-> ToJSON(d.cases[v[i].case][2], v[i].val)]]
      [] OTHER -> v
ToJSON(t, m) ==
    [f \in {g \in DOMAIN m : m[g] # DefaultOf(Schema[t][g])} |-> ToJSONField(Schema[t][f], m[f])]

RECURSIVE FromJSON(_, _)
\* toTimestamp of timestamp.ts, and of the generated module for instants after 1970.
ToTimestamp(ms) == [seconds |-> ms \div 1000, nanos |-> (ms % 1000) * 1000000]
FromJSONField(d, v) ==
    CASE d.kind \in {"message", "messages"} ->
            [i \in DOMAIN v |-> IF d.of = "Timestamp" THEN ToTimestamp(v[i]) ELSE FromJSON(d.of, v[i])]
      [] d.kind = "oneof" ->
            [i \in DOMAIN v |-> [case |-> v[i].case, val |-> FromJSON(d.cases[v[i].case][2], v[i].val)]]
      [] OTHER -> v
FromJSON(t, o) ==
    [f \in DOMAIN Schema[t] |->
        IF f \in DOMAIN o THEN FromJSONField(Schema[t][f], o[f]) ELSE DefaultOf(Schema[t][f])]

-----------------------------------------------------------------------------
\* commandKind, commandPayloadHash and commandSigningBytes: the payload counts
\* with every member of the object it is, defaults included.
CommandKind(c) == IF c.payload = <<>> THEN "unknown" ELSE c.payload[1].case
\* A slip: the signature field is part of what is signed.
SigningBytesWhole(c) ==
    <<c.id, CommandKind(c), IF c.payload = <<>> THEN <<>> ELSE c.payload[1].val,
      c.signature, c.instanceName>>
\* A slip: the kind of the command is signed and its payload is not.
SigningBytesOfKind(c) == <<c.id, CommandKind(c), c.instanceName>>
CommandSigningBytes(c) ==
    <<c.id, CommandKind(c), IF c.payload = <<>> THEN <<>> ELSE c.payload[1].val,
      IF c.issuedAt = <<>> THEN <<0, 0>> ELSE <<c.issuedAt[1].seconds, c.issuedAt[1].nanos>>,
      c.instanceName>>
VerifyCommandSignature(c, signed) == c.signature # <<>> /\ CommandSigningBytes(c) = signed

-----------------------------------------------------------------------------
(* One message on its way: the sender holds an object, the stub encodes it, *)
(* the other end's stub decodes it, and the worker judges a command.        *)

VARIABLES
    stage,   \* "idle", "built", "sent", "received" or "judged"
    type,    \* the message
    views,   \* what the sender, and the reader, do not know of the schema
    via,     \* "wire" or "json"
    sent,    \* the object at the sender
    signed,  \* what the signature of a command covers
    wire,    \* the bytes, or the JSON text
    got,     \* the object at the reader
    verdict  \* the answer of the reader

vars == <<stage, type, views, via, sent, signed, wire, got, verdict>>

Init ==
    /\ stage = "idle" /\ type = "" /\ views = <<{}, {}>> /\ via = "wire"
    /\ sent = <<>> /\ signed = <<>> /\ wire = <<>> /\ got = <<>> /\ verdict = "none"

RECURSIVE Full(_)
FullOf(d) ==
    CASE d.kind = "string" -> "s"
      [] d.kind = "bool" -> TRUE
      [] d.kind \in {"int32", "int64"} -> 1
      [] d.kind = "bytes" -> <<1>>
      [] d.kind = "strings" -> <<"", "s">>
      [] d.kind = "message" -> <<Full(d.of)>>
      [] d.kind = "messages" -> <<Full(d.of), CreateBase(d.of, {})>>
      [] d.kind = "oneof" ->
            LET c == CHOOSE x \in DOMAIN d.cases : TRUE
            IN <<[case |-> c, val |-> Full(d.cases[c][2])]>>
\* A message with every field set.
Full(t) ==
    IF t = "Timestamp" THEN ToTimestamp(Max(Dates))
    ELSE [f \in DOMAIN Schema[t] |-> FullOf(Schema[t][f])]

Samples(t) ==
    IF t = "Timestamp" THEN {ToTimestamp(ms) : ms \in Dates} ELSE {CreateBase(t, {}), Full(t)}
Values(d) ==
    {DefaultOf(d), FullOf(d)} \cup
        CASE d.kind = "int64" -> {MaxSafe, MaxSafe + 1}
          [] d.kind = "message" -> {<<m>> : m \in Samples(d.of)}
          [] d.kind = "oneof" -> {<<[case |-> c, val |-> m]>> : <<c, m>> \in
                UNION {{c} \X Samples(d.cases[c][2]) : c \in DOMAIN d.cases}}
          [] OTHER -> {}
\* The empty and the full message with any two of their fields set to anything,
\* and the same with one field.
FieldValues(t) == UNION {{f} \X Values(Schema[t][f]) : f \in DOMAIN Schema[t]}
Corners(t) ==
    {[base EXCEPT ![x[1]] = x[2]] : base \in {CreateBase(t, {}), Full(t)}, x \in FieldValues(t)}
Messages(t) ==
    {[base EXCEPT ![x[1]] = x[2]] : base \in Corners(t), x \in FieldValues(t)}

\* What a version may lack of a message: a field of it or of a message in it,
\* or a case of a oneof. The header of a command has always been there.
Lacking(t) ==
    LET children(x) == UNION {
            LET d == Schema[x][f] IN
                CASE d.kind \in {"message", "messages"} -> {d.of}
                  [] d.kind = "oneof" -> {d.cases[c][2] : c \in DOMAIN d.cases}
                  [] OTHER -> {} : f \in DOMAIN Schema[x]}
        own(x) == IF x \in {"Command", "Timestamp"} THEN {} ELSE {x} \X DOMAIN Schema[x]
        cases(x) == UNION {{x} \X DOMAIN Schema[x][f].cases :
            f \in {g \in DOMAIN Schema[x] : Schema[x][g].kind = "oneof"}}
    IN own(t) \cup cases(t) \cup UNION {own(x) : x \in children(t)}

RECURSIVE Shared(_, _, _)
\* A message as an end with this view can hold it: what it does not know is
\* gone, what it alone knows is unset.
SharedField(t, d, v, view) ==
    CASE d.kind \in {"message", "messages"} -> [i \in DOMAIN v |-> Shared(d.of, v[i], view)]
      [] d.kind = "oneof" ->
            IF v = <<>> \/ v[1].case \notin KnownCases(t, d, view) THEN <<>>
            ELSE <<[case |-> v[1].case, val |-> Shared(d.cases[v[1].case][2], v[1].val, view)]>>
      [] OTHER -> v
Shared(t, m, view) ==
    [f \in Known(t, view) |->
        IF f \in DOMAIN m THEN SharedField(t, Schema[t][f], m[f], view)
        ELSE DefaultOf(Schema[t][f])]

\* The sender fills in an object of its own version and signs a command.
Build(t, m, vs, how) ==
    /\ stage = "idle"
    /\ stage' = "built" /\ type' = t /\ views' = vs /\ via' = how
    /\ LET o == Shared(t, m, vs[1]) IN
         IF t = "Command"
         THEN /\ signed' = CommandSigningBytes([o EXCEPT !.signature = <<>>])
              /\ sent' = [o EXCEPT !.signature = <<1>>]
         ELSE signed' = <<>> /\ sent' = o
    /\ UNCHANGED <<wire, got, verdict>>

\* requestSerialize and responseSerialize of the two services.
Serialize ==
    /\ stage = "built"
    /\ stage' = "sent"
    /\ wire' = IF via = "wire" THEN Encode(type, sent, views[1]) ELSE ToJSON(type, sent)
    /\ UNCHANGED <<type, views, via, sent, signed, got, verdict>>

\* requestDeserialize and responseDeserialize: a throw ends the call.
Deserialize ==
    /\ stage = "sent"
    /\ stage' = "received"
    /\ IF via = "wire" /\ Throws(type, wire, views[2])
       THEN verdict' = "threw" /\ UNCHANGED got
       ELSE /\ got' = IF via = "wire" THEN Decode(type, wire, views[2]) ELSE FromJSON(type, wire)
            /\ verdict' = "read"
    /\ UNCHANGED <<type, views, via, sent, signed, wire>>

\* executeCommand up to the capability check: the signature comes first.
Judge ==
    /\ stage = "received" /\ type = "Command" /\ verdict = "read"
    /\ stage' = "judged"
    /\ verdict' = IF ~VerifyCommandSignature(got, signed) THEN "BadSignature"
                  ELSE IF CommandKind(got) = "unknown" THEN "UnknownCommand" ELSE "accepted"
    /\ UNCHANGED <<type, views, via, sent, signed, wire, got>>

SameVersion == \E t \in DOMAIN Schema, how \in {"wire", "json"} :
    \E m \in Messages(t) : Build(t, m, <<{}, {}>>, how)
\* One end is a version ahead of the other.
OtherVersion == \E t \in DOMAIN Schema : \E m \in Corners(t), p \in Lacking(t) :
    \E vs \in {<<{p}, {}>>, <<{}, {p}>>} : Build(t, m, vs, "wire")

Next == SameVersion \/ OtherVersion \/ Serialize \/ Deserialize \/ Judge

Spec == Init /\ [][Next]_vars

-----------------------------------------------------------------------------
\* What the reader holds is what the sender held, up to what one of the two
\* versions does not know: no default is mistaken for an absent message, no
\* element of a list is lost, an unknown field or case is passed over and a
\* new field reads as unset. Only an int64 no number can hold refuses a message.
Delivered ==
    /\ verdict = "read" /\ stage = "received" => got = Shared(type, sent, views[2])
    /\ verdict = "threw" => \E f \in {"instanceId", "clockSkewMs", "seconds"} :
            f \in DOMAIN sent /\ sent[f] > MaxSafe

\* A command the worker accepts carries every member the control plane signed:
\* a worker that lacks a field of the payload never acts on the rest of it.
SignedAsSent ==
    verdict = "accepted" =>
        /\ sent.payload # <<>> /\ got.payload[1] = sent.payload[1]
        /\ got.id = sent.id /\ got.instanceName = sent.instanceName

\* Between equal versions no command is refused for its signature, whichever of
\* its fields are unset when it is built.
SameVersionVerifies ==
    stage = "judged" /\ views[1] = views[2] => verdict # "BadSignature"

\* command-handler.ts and docs/migration.md: a command this worker's version does
\* not implement is refused as UnknownCommand.  It is refused as BadSignature.
UnknownIsNamed ==
    stage = "judged" /\ sent.payload # <<>> /\ <<"Command", sent.payload[1].case>> \in views[2]
        => verdict = "UnknownCommand"

=============================================================================
