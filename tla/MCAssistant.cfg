\* Two people, two requests in flight, one turn.
SPECIFICATION LiveSpec
CONSTANTS
    Users = {"owner", "ana"}
    Owner = "owner"
    Invites = {"i1"}
    Slots = {"r1", "r2"}
    MaxRequests = 4
    Elsewhere = {"ana"}
    Turns = {"t1"}
    Actions = {"a1"}
    maxToolRounds = 1
    MaxUses = 1
INVARIANT RolesComeFromTheOwner OnlyApprovedActionsRun
PROPERTY TurnEnds
