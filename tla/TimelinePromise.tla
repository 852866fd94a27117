-------------------------- MODULE TimelinePromise --------------------------
(***************************************************************************)
(* What an operator may rely on in the timeline of a job, in terms of no   *)
(* poll, snapshot, message, session or transaction.                        *)
(*                                                                         *)
(* A version is only ever added, and only when the definition differs from *)
(* the last one.  It is put down to a command only if that command changed *)
(* this job, and a command changes one job once.  Any other change after   *)
(* the first version raises the drift flag, which nothing takes down but   *)
(* an acknowledgement or a newer version.  A job is shown as deleted only  *)
(* if it was absent from the host at some time.                            *)
(***************************************************************************)
EXTENDS Naturals, Sequences

CONSTANTS Jobs, Commands, Versions

VARIABLES
    changes,   \* which command changed which job of the host
    absent,    \* jobs that were absent from the host at some time
    timeline,  \* the versions of each job
    drift,     \* which jobs are flagged
    deleted    \* which jobs are shown as deleted

host == <<changes, absent>>
vars == <<host, timeline, drift, deleted>>

Init ==
    /\ changes = {} /\ absent \in SUBSET Jobs
    /\ timeline = [j \in Jobs |-> <<>>]
    /\ drift = [j \in Jobs |-> FALSE] /\ deleted = [j \in Jobs |-> FALSE]

Vanish(j) ==
    /\ absent' = absent \cup {j}
    /\ UNCHANGED <<changes, timeline, drift, deleted>>

\* A command changes a job, or deletes it.
Accept(c, j) ==
    /\ \A x \in changes : x[1] # c
    /\ changes' = changes \cup {<<c, j>>}
    /\ absent' \in {absent, absent \cup {j}}
    /\ UNCHANGED <<timeline, drift, deleted>>

Extend(j, v) ==
    /\ v.origin = "initial" <=> timeline[j] = <<>>
    /\ timeline[j] # <<>> => v.def # timeline[j][Len(timeline[j])].def
    /\ v.origin = "remote" => <<v.cmd, j>> \in changes
    /\ timeline' = [timeline EXCEPT ![j] = Append(@, v)]
    /\ drift' = [drift EXCEPT ![j] = v.origin = "local"]
    /\ deleted' = [deleted EXCEPT ![j] = FALSE]
    /\ UNCHANGED host

\* The definition it had: it is on the host (again).
Confirm(j) ==
    /\ deleted' = [deleted EXCEPT ![j] = FALSE]
    /\ UNCHANGED <<host, timeline, drift>>

MarkDeleted(S) ==
    /\ deleted' = [j \in Jobs |-> deleted[j] \/ j \in S]
    /\ UNCHANGED <<host, timeline, drift>>

Acknowledge(j) ==
    /\ drift' = [drift EXCEPT ![j] = FALSE]
    /\ UNCHANGED <<host, timeline, deleted>>

Next ==
    \/ \E j \in Jobs :
         \/ Vanish(j) \/ Confirm(j) \/ Acknowledge(j)
         \/ \E c \in Commands : Accept(c, j)
         \/ \E v \in Versions : Extend(j, v)
    \/ \E S \in SUBSET absent : MarkDeleted(S)

Spec == Init /\ [][Next]_vars
=============================================================================
