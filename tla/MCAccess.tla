------------------------------ MODULE MCAccess ------------------------------
(* An instance of Access for TLC: the bootstrap administrator and one other  *)
(* person, a group, two app roles, one environment typed in two ways.        *)
EXTENDS Access

CONSTANTS s1, s2, root, ann, group, oncall, reader

MCAppRoleMap(m) == CASE m = oncall -> "Operator" [] m = reader -> "Viewer" [] OTHER -> None
MCClaims == {{}, {oncall}, {reader, group}}
MCNormal(t) == CASE t \in {"Prod", "prod"} -> "prod" [] OTHER -> None
\* One browser works on the instance, the other on users, grants and the tag.
MCAsks(r) ==
    IF r = s1 THEN {[kind |-> "stream", permission |-> "instance.read"], [kind |-> "instance", permission |-> "job.run"]} ELSE
    {[kind |-> "role", permission |-> "user.admin", target |-> ann, role |-> "Admin"],
     [kind |-> "create", permission |-> "user.admin", target |-> ann, role |-> "Viewer"],
     [kind |-> "disabled", permission |-> "user.admin", target |-> ann, to |-> TRUE],
     [kind |-> "disabled", permission |-> "user.admin", target |-> ann, to |-> FALSE],
     [kind |-> "grant", permission |-> "user.admin", subject |-> ann, tag |-> "*", role |-> "Admin"],
     [kind |-> "grant", permission |-> "user.admin", subject |-> group, tag |-> "Prod", role |-> "Operator"],
     [kind |-> "ungrant", permission |-> "user.admin", id |-> 1],
     [kind |-> "retag", permission |-> "worker.admin", tag |-> "Prod"]}

=============================================================================
