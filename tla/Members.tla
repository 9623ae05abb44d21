------------------------------ MODULE Members -------------------------------
(* Membership of one project (internal/projects/members.go, invites.go and     *)
(* the handlers of internal/api/members.go): one role row per user, an anchor  *)
(* owner (projects.owner_id) who needs no row, invites for e-mails without an  *)
(* account. A handler checks the caller first and writes later, so every       *)
(* request is two steps and other requests run between them.                   *)
EXTENDS Naturals, FiniteSets

CONSTANTS
    Users,      \* people, each with one e-mail
    Owner,      \* the project's owner_id
    Invites,    \* invite tokens
    Slots,      \* requests in flight at once
    MaxRequests \* bound: requests in all

ASSUME OwnerIsAUser == Owner \in Users /\ MaxRequests \in Nat

VARIABLES
    account,    \* the users registered so far
    row,        \* row[u]: u's project_members row, "none" without one
    invite,     \* invite[i]: [user, role, state]
    call,       \* call[s]: the request in flight in slot s
    begun,      \* how many requests there were (bound)
    ordered     \* ordered[u]: the roles an owner has asked u to have (history)

memberVars == <<account, row, invite, call, begun, ordered>>

GivenRoles == {"editor", "viewer"}
Roles == GivenRoles \cup {"owner"}

\* roleRank; anything else, "none" included, ranks lowest.
Rank(role) == CASE role = "owner"  -> 3
                [] role = "editor" -> 2
                [] role = "viewer" -> 1
                [] OTHER           -> 0

RoleAtLeast(have, min) == Rank(have) >= Rank(min)

\* A row wins over the fallback: the anchor is owner only while it has no row
\* or an owner row.
MemberRole(u) ==
    IF row[u] = "none" /\ u = Owner THEN "owner" ELSE row[u]

NoCall == [op |-> "none"]

MembersInit ==
    /\ account = {Owner}
    /\ row = [u \in Users |-> IF u = Owner THEN "owner" ELSE "none"]
    /\ invite = [i \in Invites |-> [state |-> "unused"]]
    /\ call = [s \in Slots |-> NoCall]
    /\ begun = 0
    /\ ordered = [u \in Users |-> IF u = Owner THEN {"owner"} ELSE {}]

Begin(s, request) ==
    /\ call[s] = NoCall /\ begun < MaxRequests
    /\ call' = [call EXCEPT ![s] = request]
    /\ begun' = begun + 1
End(s) == call' = [call EXCEPT ![s] = NoCall] /\ UNCHANGED begun

\* CreateUser: registering is open to anyone with an e-mail.
Register(u) ==
    /\ u \notin account
    /\ account' = account \cup {u}
    /\ UNCHANGED <<row, invite, call, begun, ordered>>

-----------------------------------------------------------------------------
\* inviteMember up to its writes: the caller is owner, the role is editor or
\* viewer, and the e-mail's account was looked up.
InviteCheck(s, by, u, role) ==
    /\ RoleAtLeast(MemberRole(by), "owner")
    /\ Begin(s, [op |-> IF u \in account THEN "add" ELSE "invite", user |-> u, role |-> role])
    /\ ordered' = [ordered EXCEPT ![u] = @ \cup {role}]
    /\ UNCHANGED <<account, row, invite>>

\* updateMemberRole up to its write; the anchor's own row is protected here.
SetRoleCheck(s, by, u, role) ==
    /\ RoleAtLeast(MemberRole(by), "owner")
    /\ u # Owner
    /\ Begin(s, [op |-> "add", user |-> u, role |-> role])
    /\ ordered' = [ordered EXCEPT ![u] = @ \cup {role}]
    /\ UNCHANGED <<account, row, invite>>

\* removeMember up to its write.
RemoveCheck(s, by, u) ==
    /\ RoleAtLeast(MemberRole(by), "owner")
    /\ u # Owner
    /\ Begin(s, [op |-> "remove", user |-> u])
    /\ UNCHANGED <<account, row, invite, ordered>>

\* Faulty variant: acceptInvite honours the link for any session.
AcceptCheck_AnySession(s, u, i) ==
    /\ u \in account
    /\ invite[i].state = "pending"
    /\ Begin(s, [op |-> "accept", user |-> u, token |-> i, role |-> invite[i].role])
    /\ UNCHANGED <<account, row, invite, ordered>>

\* acceptInvite and the read AcceptInvite makes before its transaction: the
\* session's e-mail is the invite's, and the invite is still pending.
AcceptCheck(s, u, i) ==
    /\ u \in account
    /\ invite[i].state = "pending"
    /\ invite[i].user = u
    /\ Begin(s, [op |-> "accept", user |-> u, token |-> i, role |-> invite[i].role])
    /\ UNCHANGED <<account, row, invite, ordered>>

\* AddMember: insert the row or overwrite its role.
AddMember(s) ==
    /\ call[s].op = "add"
    /\ row' = [row EXCEPT ![call[s].user] = call[s].role]
    /\ End(s)
    /\ UNCHANGED <<account, invite, ordered>>

CreateInvite(s) ==
    /\ call[s].op = "invite"
    /\ \E i \in Invites :
        /\ invite[i].state = "unused"
        /\ invite' = [invite EXCEPT ![i] =
               [state |-> "pending", user |-> call[s].user, role |-> call[s].role]]
    /\ End(s)
    /\ UNCHANGED <<account, row, ordered>>

RemoveMember(s) ==
    /\ call[s].op = "remove"
    /\ row' = [row EXCEPT ![call[s].user] = "none"]
    /\ End(s)
    /\ UNCHANGED <<account, invite, ordered>>

\* AcceptInvite's transaction does not look at accepted_at again.
AcceptInvite(s) ==
    /\ call[s].op = "accept"
    /\ row' = [row EXCEPT ![call[s].user] = call[s].role]
    /\ invite' = [invite EXCEPT ![call[s].token].state = "accepted"]
    /\ End(s)
    /\ UNCHANGED <<account, ordered>>

\* A request whose write failed, or that ran out of invite tokens here, replies
\* with an error.
GiveUp(s) ==
    /\ call[s].op \in {"add", "invite", "remove", "accept"}
    /\ End(s)
    /\ UNCHANGED <<account, row, invite, ordered>>

MembersNext ==
    \/ \E u \in Users : Register(u)
    \/ \E s \in Slots, by \in Users, u \in Users, role \in GivenRoles :
        \/ InviteCheck(s, by, u, role)
        \/ SetRoleCheck(s, by, u, role)
    \/ \E s \in Slots, by \in Users, u \in Users : RemoveCheck(s, by, u)
    \/ \E s \in Slots, u \in Users, i \in Invites : AcceptCheck(s, u, i)
    \/ \E s \in Slots :
        AddMember(s) \/ CreateInvite(s) \/ RemoveMember(s) \/ AcceptInvite(s) \/ GiveUp(s)

-----------------------------------------------------------------------------
(* Nobody holds a role that an owner did not ask for them: whatever requests   *)
(* overlap, a row's role was written by an owner's order for that user, or by  *)
(* an invite addressed to that user (acceptInvite's e-mail match).             *)
RolesComeFromTheOwner ==
    \A u \in Users : row[u] # "none" => row[u] \in ordered[u]
=============================================================================
