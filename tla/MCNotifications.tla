-------------------------- MODULE MCNotifications --------------------------
(* Instances of Notifications for TLC: one instance, one job with a row and  *)
(* one whose definition is gone.                                             *)
EXTENDS Notifications, TLC

CONSTANTS j1, j2, c1, c2

MCHome(j) == "i1"
MCJobOf(r) == j1
MCForms ==
    {[kinds |-> {"job.failed", "job.recovered"}, insts |-> {}, jobs |-> {}, chans |-> {c1}, window |-> 1],
     [kinds |-> {"command.failed"}, insts |-> {"i1"}, jobs |-> {j1}, chans |-> {c1}, window |-> 0]}
MCOthers == {[kind |-> "command.failed", id |-> 1, job |-> j1]}

=============================================================================
