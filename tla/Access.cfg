\* Two people, two requests and two sign-ins at a time, three changes by administrators, two changes in Entra.
CONSTANTS
    s1 = s1
    s2 = s2
    root = root
    ann = ann
    group = group
    oncall = oncall
    reader = reader
    None = None
    Users = {root, ann}
    Bootstrap = root
    InEntra = {ann}
    Memberships = {group, oncall, reader}
    AppRoleMap <- MCAppRoleMap
    DefaultRole = None
    Claims <- MCClaims
    RawTags = {"Prod", "prod", " "}
    Normal <- MCNormal
    Asks <- MCAsks
    Slots = {s1, s2}
    Flows = {f1, f2}
    MaxSubscribers = 1
    MaxSessions = 2
    MaxChanges = 3
    MaxClaims = 2
SPECIFICATION FairSpec
CHECK_DEADLOCK FALSE
INVARIANTS ActsOnRightsHeld  SignInSticks
PROPERTY RevokedStreamEnds
