---------------------------- MODULE AlertPromise ----------------------------
(***************************************************************************)
(* What an operator may rely on in the list of recent alerts, in terms of  *)
(* no detector, rule, window, sweep, attempt or crash.                     *)
(*                                                                         *)
(* The record of an alert goes one way: it waits, and then it is sent,     *)
(* given up or, from the start, suppressed, and it stays so for as long as *)
(* its channel exists.  Only what is known and not settled arrives; what   *)
(* is unsure may arrive again.                                             *)
(***************************************************************************)
CONSTANTS Events, Channels,
          Alike   \* pairs of events about the same thing

VARIABLES
    known,    \* the events that are recorded
    record,   \* what is said of each alert
    arrived,  \* the alerts the channels have shown ...
    again,    \* ... and those they have shown more than once
    unsure    \* alerts that arrived, and nobody may know

Alerts == Events \X Channels
vars == <<known, record, arrived, again, unsure>>

Init ==
    /\ known = {} /\ record = [a \in Alerts |-> "none"]
    /\ arrived = {} /\ again = {} /\ unsure = {}

Learn(e) ==
    /\ known' = known \cup {e}
    /\ UNCHANGED <<record, arrived, again, unsure>>

Becomes(a, old, new) ==
    /\ record[a] = old
    /\ record' = [record EXCEPT ![a] = new]
    /\ UNCHANGED <<known, arrived, again>>

Queue(a) == a[1] \in known /\ Becomes(a, "none", "pending") /\ UNCHANGED unsure

\* An alert about the same thing has arrived in the channel.
Suppress(a) ==
    /\ a[1] \in known /\ Becomes(a, "none", "suppressed") /\ UNCHANGED unsure
    /\ \E g \in arrived : g[2] = a[2] /\ <<g[1], a[1]>> \in Alike

\* The channel shows an alert; it may have been removed in the meantime.
Arrive(a) ==
    /\ a[1] \in known /\ record[a] \in {"pending", "dropped"}
    /\ a \in arrived => a \in unsure
    /\ arrived' = arrived \cup {a}
    /\ again' = IF a \in arrived THEN again \cup {a} ELSE again
    /\ unsure' \in {unsure, unsure \cup {a}}
    /\ UNCHANGED <<known, record>>

Doubt(S) ==
    /\ unsure' = unsure \cup S
    /\ UNCHANGED <<known, record, arrived, again>>

Settle(a) == a \in arrived /\ Becomes(a, "pending", "sent") /\ UNCHANGED unsure

GiveUp(a) ==
    /\ Becomes(a, "pending", "failed")
    /\ unsure' \in {unsure, unsure \cup ({a} \cap arrived)}
    /\ a \in arrived => a \in unsure'

\* The channel is removed, and what is said of its alerts with it.
Forget(c) ==
    /\ record' = [a \in Alerts |-> IF a[2] = c THEN "dropped" ELSE record[a]]
    /\ UNCHANGED <<known, arrived, again, unsure>>

Next ==
    \/ \E e \in Events : Learn(e)
    \/ \E a \in Alerts : Queue(a) \/ Suppress(a) \/ Arrive(a) \/ Settle(a) \/ GiveUp(a)
    \/ \E S \in SUBSET arrived : Doubt(S)
    \/ \E c \in Channels : Forget(c)

Spec == Init /\ [][Next]_vars
=============================================================================
