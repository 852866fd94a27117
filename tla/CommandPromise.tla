--------------------------- MODULE CommandPromise ---------------------------
(***************************************************************************)
(* What the command pipeline promises about msdb, in terms of no message,  *)
(* row state, session or clock: somebody issues a change; if it needs a    *)
(* second person, somebody else approves it; then it is applied, once, and *)
(* once more only for each time the outcome of an application was lost     *)
(* before the worker had recorded it.                                      *)
(*                                                                         *)
(* That a rejected or expired command is never applied is not part of it:  *)
(* the code does not keep that (see TerminalIsFinal in CommandPipeline).    *)
(***************************************************************************)
EXTENDS Naturals

CONSTANTS Commands, Users, None

VARIABLES
    issuer,    \* who issued each command, or None
    gated,     \* whether it needs a second person
    approver,  \* the second person, or None
    applied,   \* how often it has changed msdb
    lost       \* how many of those outcomes nobody knows of

vars == <<issuer, gated, approver, applied, lost>>

Init ==
    /\ issuer = [c \in Commands |-> None] /\ gated = [c \in Commands |-> FALSE]
    /\ approver = [c \in Commands |-> None]
    /\ applied = [c \in Commands |-> 0] /\ lost = [c \in Commands |-> 0]

Issue(c, u, g) ==
    /\ issuer[c] = None
    /\ issuer' = [issuer EXCEPT ![c] = u] /\ gated' = [gated EXCEPT ![c] = g]
    /\ UNCHANGED <<approver, applied, lost>>

\* Approving again, or by another, is no harm.
Approve(c, u) ==
    /\ issuer[c] \notin {None, u}
    /\ approver' = [approver EXCEPT ![c] = u]
    /\ UNCHANGED <<issuer, gated, applied, lost>>

Apply(c) ==
    /\ issuer[c] # None
    /\ gated[c] => approver[c] \notin {None, issuer[c]}
    /\ applied[c] <= lost[c]
    /\ applied' = [applied EXCEPT ![c] = @ + 1]
    /\ UNCHANGED <<issuer, gated, approver, lost>>

Lose(c) ==
    /\ lost[c] < applied[c]
    /\ lost' = [lost EXCEPT ![c] = @ + 1]
    /\ UNCHANGED <<issuer, gated, approver, applied>>

Next ==
    \E c \in Commands :
        \/ \E u \in Users : (\E g \in BOOLEAN : Issue(c, u, g)) \/ Approve(c, u)
        \/ Apply(c) \/ Lose(c)

Spec == Init /\ [][Next]_vars
=============================================================================
