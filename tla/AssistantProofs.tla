-------------------------- MODULE AssistantProofs ---------------------------
(* Proofs about Members and Assistant: a role is held only if an owner asked   *)
(* for it (MInv), and a tool runs only if the first answer to its proposal     *)
(* approved it (BInv), whatever requests, timeouts and restarts cross.         *)
EXTENDS Assistant, Integers, TLAPS

-----------------------------------------------------------------------------
(* Who asked for which role. *)

MemberCalls ==
    [op : {"add", "invite"}, user : Users, role : Roles]
    \cup [op : {"remove"}, user : Users]
    \cup [op : {"accept"}, user : Users, token : Invites, role : Roles]
Answers == [op : {"resolve"}, action : Actions, approved : BOOLEAN, rank : 0..3]
Calls == {NoCall} \cup MemberCalls \cup Answers

\* Memberships are as the store keeps them.
MType ==
    /\ account \subseteq Users
    /\ row \in [Users -> Roles \cup {"none"}]
    /\ ordered \in [Users -> SUBSET Roles]
    /\ invite \in [Invites -> [state : {"unused"}]
                              \cup [state : {"pending", "accepted"}, user : Users, role : Roles]]
    /\ call \in [Slots -> Calls]

\* What a request is about to write was asked for before the request began.
CallsAsked ==
    \A s \in Slots :
        /\ call[s].op \in {"add", "invite", "accept"} => call[s].role \in ordered[call[s].user]
        /\ call[s].op = "accept" => invite[call[s].token].state # "unused"

\* So was the role an open invite carries.
InvitesAsked ==
    \A i \in Invites : invite[i].state = "pending" => invite[i].role \in ordered[invite[i].user]

MInv ==
    /\ MType
    /\ CallsAsked
    /\ InvitesAsked
    /\ RolesComeFromTheOwner
    /\ "owner" \in ordered[Owner]

\* The requests in flight, after one began or ended.
LEMMA BeginTypes ==
    ASSUME call \in [Slots -> Calls], NEW s \in Slots, NEW request \in Calls, Begin(s, request)
    PROVE  /\ call' \in [Slots -> Calls]
           /\ call'[s] = request
           /\ \A q \in Slots : q # s => call'[q] = call[q]
    BY DEF Begin

LEMMA EndTypes ==
    ASSUME call \in [Slots -> Calls], NEW s \in Slots, End(s)
    PROVE  /\ call' \in [Slots -> Calls]
           /\ call'[s] = NoCall
           /\ \A q \in Slots : q # s => call'[q] = call[q]
    BY DEF End, Calls

\* The fields of a request, by its kind.
LEMMA CallFields ==
    ASSUME NEW c \in Calls
    PROVE  /\ c.op \in {"none", "add", "invite", "remove", "accept", "resolve"}
           /\ c.op \in {"add", "invite"} => c.user \in Users /\ c.role \in Roles
           /\ c.op = "remove" => c.user \in Users
           /\ c.op = "accept" => c.user \in Users /\ c.role \in Roles /\ c.token \in Invites
           /\ c.op = "resolve" => c.action \in Actions /\ c.approved \in BOOLEAN /\ c.rank \in 0..3
    <1>1. CASE c = NoCall
        BY <1>1 DEF NoCall
    <1>2. CASE c \in MemberCalls
        BY <1>2 DEF MemberCalls
    <1>3. CASE c \in Answers
        BY <1>3 DEF Answers
    <1> QED  BY <1>1, <1>2, <1>3 DEF Calls

LEMMA MInvInit == MembersInit => MInv
    <1> SUFFICES ASSUME MembersInit PROVE MInv
        OBVIOUS
    <1>1. MType
        BY OwnerIsAUser DEF MembersInit, MType, Roles, GivenRoles, Calls
    <1>2. CallsAsked /\ InvitesAsked
        BY DEF MembersInit, CallsAsked, InvitesAsked, NoCall
    <1>3. RolesComeFromTheOwner /\ "owner" \in ordered[Owner]
        BY OwnerIsAUser DEF MembersInit, RolesComeFromTheOwner
    <1> QED  BY <1>1, <1>2, <1>3 DEF MInv

\* A check that asks for a role: the request it begins carries that role.
LEMMA AskedBegins ==
    ASSUME MInv, NEW s \in Slots, NEW u \in Users, NEW role \in Roles, NEW request \in Calls,
           Begin(s, request), request.op \in {"add", "invite"},
           request.user = u, request.role = role,
           ordered' = [ordered EXCEPT ![u] = @ \cup {role}],
           UNCHANGED <<account, row, invite>>
    PROVE  MInv'
    <1> USE DEF MInv
    <1>1. /\ call' \in [Slots -> Calls] /\ call'[s] = request
          /\ \A q \in Slots : q # s => call'[q] = call[q]
        BY BeginTypes DEF MType
    <1>2. /\ ordered' \in [Users -> SUBSET Roles]
          /\ \A v \in Users : ordered[v] \subseteq ordered'[v]
          /\ role \in ordered'[u]
        BY DEF MType
    <1>3. MType'
        BY <1>1, <1>2 DEF MType
    <1>4. CallsAsked'
        <2> SUFFICES ASSUME NEW q \in Slots
            PROVE /\ call'[q].op \in {"add", "invite", "accept"}
                       => call'[q].role \in ordered'[call'[q].user]
                  /\ call'[q].op = "accept" => invite'[call'[q].token].state # "unused"
            BY DEF CallsAsked
        <2>1. call[q] \in Calls
            BY DEF MType
        <2>2. /\ call[q].op \in {"add", "invite", "accept"} => call[q].user \in Users
            BY <2>1, CallFields
        <2> QED  BY <1>1, <1>2, <2>2 DEF CallsAsked
    <1>5. InvitesAsked'
        <2> SUFFICES ASSUME NEW i \in Invites, invite[i].state = "pending"
            PROVE  invite[i].role \in ordered'[invite[i].user]
            BY DEF InvitesAsked
        <2>1. invite[i].user \in Users
            BY DEF MType
        <2> QED  BY <1>2, <2>1 DEF InvitesAsked
    <1>6. RolesComeFromTheOwner' /\ ("owner" \in ordered[Owner])'
        BY <1>2, OwnerIsAUser DEF RolesComeFromTheOwner
    <1> QED  BY <1>3, <1>4, <1>5, <1>6

\* A request that begins without a new order.
LEMMA OtherBegins ==
    ASSUME MInv, NEW s \in Slots, NEW request \in Calls, Begin(s, request),
           \/ request.op \in {"remove", "resolve"}
           \/ /\ request.op = "accept"
              /\ request.role \in ordered[request.user]
              /\ invite[request.token].state # "unused",
           UNCHANGED <<account, row, invite, ordered>>
    PROVE  MInv'
    <1> USE DEF MInv
    <1>1. /\ call' \in [Slots -> Calls] /\ call'[s] = request
          /\ \A q \in Slots : q # s => call'[q] = call[q]
        BY BeginTypes DEF MType
    <1>2. MType'
        BY <1>1 DEF MType
    <1>3. CallsAsked'
        BY <1>1 DEF CallsAsked
    <1>4. InvitesAsked' /\ RolesComeFromTheOwner' /\ ("owner" \in ordered[Owner])'
        BY DEF InvitesAsked, RolesComeFromTheOwner
    <1> QED  BY <1>2, <1>3, <1>4

\* A request that ends, whatever else it leaves as it was.
LEMMA CallEnds ==
    ASSUME MInv, NEW s \in Slots, End(s), UNCHANGED ordered,
           \A i \in Invites : invite[i].state # "unused" => invite'[i].state # "unused"
    PROVE  call' \in [Slots -> Calls] /\ CallsAsked'
    <1>1. /\ call' \in [Slots -> Calls] /\ call'[s] = NoCall
          /\ \A q \in Slots : q # s => call'[q] = call[q]
        BY EndTypes DEF MInv, MType
    <1>2. ASSUME NEW q \in Slots
          PROVE  /\ call'[q].op \in {"add", "invite", "accept"}
                       => call'[q].role \in ordered'[call'[q].user]
                 /\ call'[q].op = "accept" => invite'[call'[q].token].state # "unused"
        <2>1. call[q] \in Calls
            BY DEF MInv, MType
        <2>2. call[q].op = "accept" => call[q].token \in Invites
            BY <2>1, CallFields
        <2> QED  BY <1>1, <2>2 DEF MInv, CallsAsked, NoCall
    <1> QED  BY <1>1, <1>2 DEF CallsAsked

LEMMA MInvMembers == MInv /\ MembersNext => MInv'
    <1> SUFFICES ASSUME MInv, MembersNext PROVE MInv'
        OBVIOUS
    <1> USE DEF MInv
    <1>1. ASSUME NEW u \in Users, Register(u) PROVE MInv'
        BY <1>1 DEF Register, MType, CallsAsked, InvitesAsked, RolesComeFromTheOwner
    <1>2. ASSUME NEW s \in Slots, NEW by \in Users, NEW u \in Users, NEW role \in GivenRoles,
                 InviteCheck(s, by, u, role) \/ SetRoleCheck(s, by, u, role)
          PROVE  MInv'
        <2>1. PICK op \in {"add", "invite"} :
                Begin(s, [op |-> op, user |-> u, role |-> role])
            BY <1>2 DEF InviteCheck, SetRoleCheck
        <2>2. role \in Roles
            BY DEF Roles
        <2>3. [op |-> op, user |-> u, role |-> role] \in Calls
            BY <2>2 DEF Calls, MemberCalls
        <2> QED  BY <1>2, <2>1, <2>2, <2>3, AskedBegins DEF InviteCheck, SetRoleCheck
    <1>3. ASSUME NEW s \in Slots, NEW by \in Users, NEW u \in Users, RemoveCheck(s, by, u)
          PROVE  MInv'
        <2>1. [op |-> "remove", user |-> u] \in Calls
            BY DEF Calls, MemberCalls
        <2> QED  BY <1>3, <2>1, OtherBegins DEF RemoveCheck
    <1>4. ASSUME NEW s \in Slots, NEW u \in Users, NEW i \in Invites, AcceptCheck(s, u, i)
          PROVE  MInv'
        <2>1. invite[i].role \in Roles /\ invite[i].role \in ordered[u]
            BY <1>4 DEF AcceptCheck, MType, InvitesAsked
        <2>2. [op |-> "accept", user |-> u, token |-> i, role |-> invite[i].role] \in Calls
            BY <2>1 DEF Calls, MemberCalls
        <2> QED  BY <1>4, <2>1, <2>2, OtherBegins DEF AcceptCheck
    <1>5. ASSUME NEW s \in Slots, AddMember(s) PROVE MInv'
        <2>1. call[s].user \in Users /\ call[s].role \in Roles
            BY <1>5, CallFields DEF AddMember, MType
        <2>2. call[s].role \in ordered[call[s].user]
            BY <1>5 DEF AddMember, CallsAsked
        <2>3. call' \in [Slots -> Calls] /\ CallsAsked'
            BY <1>5, CallEnds DEF AddMember
        <2>4. MType' /\ InvitesAsked'
            BY <1>5, <2>1, <2>3 DEF AddMember, MType, InvitesAsked
        <2>5. RolesComeFromTheOwner' /\ ("owner" \in ordered[Owner])'
            BY <1>5, <2>1, <2>2 DEF AddMember, RolesComeFromTheOwner, MType
        <2> QED  BY <2>3, <2>4, <2>5
    <1>6. ASSUME NEW s \in Slots, CreateInvite(s) PROVE MInv'
        <2>1. call[s].user \in Users /\ call[s].role \in Roles
            BY <1>6, CallFields DEF CreateInvite, MType
        <2>2. call[s].role \in ordered[call[s].user]
            BY <1>6 DEF CreateInvite, CallsAsked
        <2>3. PICK i \in Invites :
                /\ invite[i].state = "unused"
                /\ invite' = [invite EXCEPT ![i] =
                     [state |-> "pending", user |-> call[s].user, role |-> call[s].role]]
            BY <1>6 DEF CreateInvite
        <2>4. /\ invite'[i] = [state |-> "pending", user |-> call[s].user, role |-> call[s].role]
              /\ \A j \in Invites : j # i => invite'[j] = invite[j]
              /\ invite' \in [Invites -> [state : {"unused"}]
                     \cup [state : {"pending", "accepted"}, user : Users, role : Roles]]
            BY <2>1, <2>3 DEF MType
        <2>5. call' \in [Slots -> Calls] /\ CallsAsked'
            <3>1. \A j \in Invites : invite[j].state # "unused" => invite'[j].state # "unused"
                BY <2>3, <2>4
            <3> QED  BY <1>6, <3>1, CallEnds DEF CreateInvite
        <2>6. MType'
            BY <1>6, <2>4, <2>5 DEF CreateInvite, MType
        <2>7. InvitesAsked'
            BY <1>6, <2>2, <2>4 DEF CreateInvite, InvitesAsked
        <2>8. RolesComeFromTheOwner' /\ ("owner" \in ordered[Owner])'
            BY <1>6 DEF CreateInvite, RolesComeFromTheOwner
        <2> QED  BY <2>5, <2>6, <2>7, <2>8
    <1>7. ASSUME NEW s \in Slots, RemoveMember(s) PROVE MInv'
        <2>1. call[s].user \in Users
            BY <1>7, CallFields DEF RemoveMember, MType
        <2>2. call' \in [Slots -> Calls] /\ CallsAsked'
            BY <1>7, CallEnds DEF RemoveMember
        <2>3. MType' /\ InvitesAsked'
            BY <1>7, <2>1, <2>2 DEF RemoveMember, MType, InvitesAsked
        <2>4. RolesComeFromTheOwner' /\ ("owner" \in ordered[Owner])'
            BY <1>7, <2>1 DEF RemoveMember, RolesComeFromTheOwner, MType
        <2> QED  BY <2>2, <2>3, <2>4
    <1>8. ASSUME NEW s \in Slots, AcceptInvite(s) PROVE MInv'
        <2>1. call[s].user \in Users /\ call[s].role \in Roles /\ call[s].token \in Invites
            BY <1>8, CallFields DEF AcceptInvite, MType
        <2>2. /\ call[s].role \in ordered[call[s].user]
              /\ invite[call[s].token].state # "unused"
            BY <1>8 DEF AcceptInvite, CallsAsked
        <2>3. PICK i \in Invites : i = call[s].token
            BY <2>1
        <2>4. invite[i] \in [state : {"pending", "accepted"}, user : Users, role : Roles]
            BY <2>2, <2>3 DEF MType
        <2>5. invite' = [invite EXCEPT ![i].state = "accepted"]
            BY <1>8, <2>3 DEF AcceptInvite
        <2>6. /\ invite'[i] = [invite[i] EXCEPT !.state = "accepted"]
              /\ \A j \in Invites : j # i => invite'[j] = invite[j]
            BY <2>5 DEF MType
        <2>7. invite'[i] \in [state : {"pending", "accepted"}, user : Users, role : Roles]
              /\ invite'[i].state = "accepted"
            BY <2>4, <2>6
        <2>8. invite' \in [Invites -> [state : {"unused"}]
                     \cup [state : {"pending", "accepted"}, user : Users, role : Roles]]
            BY <2>5, <2>6, <2>7 DEF MType
        <2>9. call' \in [Slots -> Calls] /\ CallsAsked'
            <3>1. \A j \in Invites : invite[j].state # "unused" => invite'[j].state # "unused"
                BY <2>6, <2>7
            <3> QED  BY <1>8, <3>1, CallEnds DEF AcceptInvite
        <2>10. MType'
            BY <1>8, <2>1, <2>8, <2>9 DEF AcceptInvite, MType
        <2>11. InvitesAsked'
            BY <1>8, <2>6, <2>7 DEF AcceptInvite, InvitesAsked
        <2>12. RolesComeFromTheOwner' /\ ("owner" \in ordered[Owner])'
            BY <1>8, <2>1, <2>2 DEF AcceptInvite, RolesComeFromTheOwner, MType
        <2> QED  BY <2>9, <2>10, <2>11, <2>12
    <1>9. ASSUME NEW s \in Slots, GiveUp(s) PROVE MInv'
        <2>1. call' \in [Slots -> Calls] /\ CallsAsked'
            BY <1>9, CallEnds DEF GiveUp
        <2> QED  BY <1>9, <2>1 DEF GiveUp, MType, InvitesAsked, RolesComeFromTheOwner
    <1> QED
        BY <1>1, <1>2, <1>3, <1>4, <1>5, <1>6, <1>7, <1>8, <1>9 DEF MembersNext

-----------------------------------------------------------------------------
(* The brain's own steps, as far as the members see them. *)

LEMMA MInvBrain == MInv /\ BrainNext => MInv'
    <1> SUFFICES ASSUME MInv, BrainNext PROVE MInv'
        OBVIOUS
    <1>1. CASE UNCHANGED memberVars
        BY <1>1 DEF memberVars, MInv, MType, CallsAsked, InvitesAsked, RolesComeFromTheOwner
    <1>2. ASSUME NEW s \in Slots, NEW u \in Users, NEW a \in Actions, NEW approved \in BOOLEAN,
                 ResolveCheck(s, u, a, approved)
          PROVE  MInv'
        <2>1. MemberRole(u) \in Roles \cup {"none"}
            BY DEF MemberRole, MInv, MType, Roles
        <2>2. Rank(MemberRole(u)) \in 0..3
            BY <2>1 DEF Rank, Roles, GivenRoles
        <2>3. [op |-> "resolve", action |-> a, approved |-> approved,
                rank |-> Rank(MemberRole(u))] \in Calls
            BY <2>2 DEF Calls, Answers
        <2> QED  BY <1>2, <2>3, OtherBegins DEF ResolveCheck
    <1>3. ASSUME NEW s \in Slots, SendAnswer(s) PROVE MInv'
        <2>1. call' \in [Slots -> Calls] /\ CallsAsked'
            BY <1>3, CallEnds DEF SendAnswer
        <2> QED
            BY <1>3, <2>1 DEF SendAnswer, MInv, MType, InvitesAsked, RolesComeFromTheOwner
    <1>4. CASE Restart
        <2>1. call' \in [Slots -> Calls] /\ \A s \in Slots : call'[s] = NoCall
            BY <1>4 DEF Restart, Calls
        <2>2. CallsAsked'
            BY <2>1 DEF CallsAsked, NoCall
        <2>3. MType' /\ InvitesAsked' /\ ("owner" \in ordered[Owner])'
            BY <1>4, <2>1, OwnerIsAUser DEF Restart, MInv, MType, InvitesAsked, Roles
        <2>4. RolesComeFromTheOwner'
            BY <1>4, OwnerIsAUser DEF Restart, MInv, MType, RolesComeFromTheOwner
        <2> QED  BY <2>2, <2>3, <2>4 DEF MInv
    <1>5. ASSUME NEW t \in Turns,
                 \/ \E u \in Users : Send(t, u)
                 \/ Expire(t) \/ Stream(t) \/ UseTool(t)
                 \/ \E a \in Actions, min \in ToolRoles : Propose(t, a, min)
                 \/ TakeAnswer(t) \/ StopWaiting(t) \/ RunTool(t)
          PROVE  UNCHANGED memberVars
        BY <1>5 DEF Send, Expire, Stream, UseTool, Propose, TakeAnswer, StopWaiting, RunTool,
                    Decide
    <1> QED  BY <1>1, <1>2, <1>3, <1>4, <1>5 DEF BrainNext

LEMMA MInvNext == MInv /\ [Next]_vars => MInv'
    <1>1. MInv /\ UNCHANGED memberVars => MInv'
        BY DEF memberVars, MInv, MType, CallsAsked, InvitesAsked, RolesComeFromTheOwner
    <1> QED  BY <1>1, MInvMembers, MInvBrain DEF Next, vars

LEMMA MInvHolds == Spec => []MInv
    <1>1. Init => MInv
        BY MInvInit DEF Init
    <1> QED  BY <1>1, MInvNext, PTL DEF Spec

(* Whatever requests overlap, the role a user holds is one that an owner asked *)
(* for that user, or that an invite to that user's e-mail carries.             *)
THEOREM RolesAreOrdered == Spec => []RolesComeFromTheOwner
    <1>1. MInv => RolesComeFromTheOwner
        BY DEF MInv
    <1> QED  BY <1>1, MInvHolds, PTL

-----------------------------------------------------------------------------
(* What a turn may run. *)

TurnRecords ==
    [at : {"stream", "tools", "wait", "run", "done"}, role : Roles, rounds : Int, uses : Int,
     action : Actions \cup {"none"}, expired : BOOLEAN]
TurnTypes == {NotSent, [at |-> "lost"]} \cup TurnRecords

Waits(t) == turn[t].at \in {"wait", "run"}

\* What the history keeps of the answers to an action.
FirstAnswers == {NoAnswer} \cup [sent : {TRUE}, approved : BOOLEAN, rank : 0..3]

BType ==
    /\ turn \in [Turns -> TurnTypes]
    /\ status \in [Actions -> {"none", "pending", "approved", "rejected"}]
    /\ pending \subseteq Actions
    /\ chan \in [Actions -> {<<>>, <<TRUE>>, <<FALSE>>}]
    /\ first \in [Actions -> FirstAnswers]
    /\ ran \subseteq Actions

LEMMA FirstFields ==
    ASSUME NEW f \in FirstAnswers
    PROVE  f.approved \in BOOLEAN /\ (f.approved => f.sent)
    <1>1. CASE f = NoAnswer
        BY <1>1 DEF NoAnswer
    <1>2. CASE f \in [sent : {TRUE}, approved : BOOLEAN, rank : 0..3]
        BY <1>2
    <1> QED  BY <1>1, <1>2 DEF FirstAnswers

\* An action is proposed once, by one turn.
OneTurn ==
    /\ \A t \in Turns : Waits(t) => turn[t].action \in Actions /\ status[turn[t].action] # "none"
    /\ \A t, q \in Turns : Waits(t) /\ Waits(q) /\ turn[t].action = turn[q].action => t = q

\* Before its proposal an action has no answer, and nobody looked its channel up.
Unproposed ==
    \A a \in Actions : status[a] = "none" =>
        /\ a \notin pending /\ a \notin ran
        /\ chan[a] = <<>> /\ first[a] = NoAnswer
        /\ \A s \in Slots : call[s].op = "resolve" => call[s].action # a

\* A turn that waits finds the first answer in the channel, or none was sent.
FirstAnswer ==
    \A t \in Turns : turn[t].at = "wait" =>
        LET a == turn[t].action IN
        /\ status[a] # "rejected" /\ a \notin ran
        /\ \/ chan[a] = <<>> /\ first[a] = NoAnswer
           \/ chan[a] = <<first[a].approved>> /\ first[a].sent

\* A turn that runs its tool was allowed to by the first answer.
FirstApproved ==
    \A t \in Turns : turn[t].at = "run" =>
        LET a == turn[t].action IN
        /\ status[a] # "rejected" /\ a \notin ran
        /\ first[a].approved /\ first[a].sent

BInv ==
    /\ MInv
    /\ BType
    /\ OneTurn
    /\ Unproposed
    /\ FirstAnswer
    /\ FirstApproved
    /\ OnlyApprovedActionsRun

\* A turn's record, once it was sent and while it is not lost.
LEMMA TurnFields ==
    ASSUME BType, NEW t \in Turns, turn[t].at \notin {"unsent", "lost"}
    PROVE  turn[t] \in TurnRecords
    <1>1. turn[t] \in TurnTypes
        BY DEF BType
    <1>2. turn[t] # NotSent /\ turn[t] # [at |-> "lost"]
        BY DEF NotSent
    <1> QED  BY <1>1, <1>2 DEF TurnTypes

LEMMA GoesTypes ==
    ASSUME BType, NEW t \in Turns, turn[t].at \notin {"unsent", "lost"},
           NEW at \in {"stream", "tools", "wait", "run", "done"}, Goes(t, at)
    PROVE  /\ turn' \in [Turns -> TurnTypes]
           /\ turn'[t].at = at /\ turn'[t].action = turn[t].action
           /\ \A q \in Turns : q # t => turn'[q] = turn[q]
    <1>1. turn[t] \in TurnRecords
        BY TurnFields
    <1>2. /\ turn'[t] = [turn[t] EXCEPT !.at = at]
          /\ \A q \in Turns : q # t => turn'[q] = turn[q]
        BY DEF Goes, BType
    <1>3. turn'[t] \in TurnRecords /\ turn'[t].at = at /\ turn'[t].action = turn[t].action
        BY <1>1, <1>2 DEF TurnRecords
    <1>4. turn' \in [Turns -> TurnTypes]
        BY <1>3 DEF Goes, BType, TurnTypes
    <1> QED  BY <1>2, <1>3, <1>4

LEMMA NextUseTypes ==
    ASSUME BType, NEW t \in Turns, turn[t].at \notin {"unsent", "lost"}, NextUse(t)
    PROVE  /\ turn' \in [Turns -> TurnTypes]
           /\ turn'[t].at \in {"stream", "tools"}
           /\ \A q \in Turns : q # t => turn'[q] = turn[q]
    <1>1. turn[t] \in TurnRecords
        BY TurnFields
    <1>2. /\ turn'[t] = [turn[t] EXCEPT !.uses = @ - 1, !.action = "none",
                           !.at = IF turn[t].uses = 1 THEN "stream" ELSE "tools"]
          /\ \A q \in Turns : q # t => turn'[q] = turn[q]
        BY DEF NextUse, BType
    <1>3. PICK at \in {"stream", "tools"}, n \in Int :
            turn'[t] = [turn[t] EXCEPT !.uses = n, !.action = "none", !.at = at]
        <2>1. turn[t].uses - 1 \in Int
            BY <1>1 DEF TurnRecords
        <2> QED  BY <1>2, <2>1
    <1>5. turn'[t] \in TurnRecords /\ turn'[t].at \in {"stream", "tools"}
        BY <1>1, <1>3 DEF TurnRecords
    <1>4. turn' \in [Turns -> TurnTypes]
        BY <1>5 DEF NextUse, BType, TurnTypes
    <1> QED  BY <1>2, <1>4, <1>5

\* A step of a turn that neither waits nor runs after it, and touches no answer.
LEMMA TurnMovesOn ==
    ASSUME BInv, MInv', NEW t \in Turns,
           turn' \in [Turns -> TurnTypes],
           turn'[t].at \notin {"wait", "run"},
           \A q \in Turns : q # t => turn'[q] = turn[q],
           UNCHANGED <<status, chan, first, ran, call>>, pending' \subseteq pending
    PROVE  BInv'
    <1> USE DEF BInv
    <1>1. BType'
        BY DEF BType
    <1>2. \A q \in Turns : Waits(q)' => q # t /\ Waits(q) /\ turn'[q] = turn[q]
        BY DEF Waits
    <1>3. OneTurn'
        BY <1>2 DEF OneTurn
    <1>4. Unproposed'
        BY DEF Unproposed
    <1>5. FirstAnswer' /\ FirstApproved'
        BY DEF FirstAnswer, FirstApproved
    <1>6. OnlyApprovedActionsRun'
        BY DEF OnlyApprovedActionsRun
    <1> QED  BY <1>1, <1>3, <1>4, <1>5, <1>6

\* The members' requests do not touch the brain.
LEMMA BInvMembers ==
    ASSUME BInv, MInv', MembersNext, UNCHANGED brainVars
    PROVE  BInv'
    <1> USE DEF BInv
    <1>1. ASSUME NEW s \in Slots, call'[s].op = "resolve"
          PROVE  call[s] = call'[s]
        <2> DEFINE K == call' = call
        <2>1. CASE K
            BY <2>1
        <2>2. ASSUME NEW q \in Slots, NEW request \in Calls, Begin(q, request),
                     request.op # "resolve"
              PROVE  call[s] = call'[s]
            BY <1>1, <2>2, BeginTypes DEF MInv, MType
        <2>3. ASSUME NEW q \in Slots, End(q)
              PROVE  call[s] = call'[s]
            BY <1>1, <2>3, EndTypes DEF MInv, MType, NoCall
        <2>4. ASSUME NEW q \in Slots, NEW u \in Users, NEW by \in Users, NEW role \in GivenRoles,
                     InviteCheck(q, by, u, role) \/ SetRoleCheck(q, by, u, role)
              PROVE  call[s] = call'[s]
            <3>1. PICK op \in {"add", "invite"} :
                    Begin(q, [op |-> op, user |-> u, role |-> role])
                BY <2>4 DEF InviteCheck, SetRoleCheck
            <3>2. [op |-> op, user |-> u, role |-> role] \in Calls
                BY DEF Calls, MemberCalls, Roles
            <3> QED  BY <2>2, <3>1, <3>2
        <2>5. ASSUME NEW q \in Slots, NEW u \in Users, NEW by \in Users, RemoveCheck(q, by, u)
              PROVE  call[s] = call'[s]
            <3>1. [op |-> "remove", user |-> u] \in Calls
                BY DEF Calls, MemberCalls
            <3> QED  BY <2>2, <2>5, <3>1 DEF RemoveCheck
        <2>6. ASSUME NEW q \in Slots, NEW u \in Users, NEW i \in Invites, AcceptCheck(q, u, i)
              PROVE  call[s] = call'[s]
            <3>1. invite[i].role \in Roles
                BY <2>6 DEF AcceptCheck, MInv, MType
            <3>2. [op |-> "accept", user |-> u, token |-> i, role |-> invite[i].role] \in Calls
                BY <3>1 DEF Calls, MemberCalls
            <3> QED  BY <2>2, <2>6, <3>2 DEF AcceptCheck
        <2> QED
            BY <2>1, <2>3, <2>4, <2>5, <2>6
            DEF MembersNext, Register, AddMember, CreateInvite, RemoveMember, AcceptInvite, GiveUp
    <1>2. BType' /\ OneTurn' /\ FirstAnswer' /\ FirstApproved' /\ OnlyApprovedActionsRun'
        BY DEF brainVars, BType, OneTurn, Waits, FirstAnswer, FirstApproved, OnlyApprovedActionsRun
    <1>3. Unproposed'
        BY <1>1 DEF brainVars, Unproposed
    <1> QED  BY <1>2, <1>3

\* The turn has its answer, or stopped waiting for one.
LEMMA BInvDecide ==
    ASSUME BInv, MInv', NEW t \in Turns, NEW approved \in BOOLEAN,
           turn[t].at = "wait", Decide(t, turn[t].action, approved),
           approved => first[turn[t].action].approved /\ first[turn[t].action].sent,
           chan' \in [Actions -> {<<>>, <<TRUE>>, <<FALSE>>}],
           \A b \in Actions : b # turn[t].action => chan'[b] = chan[b]
    PROVE  BInv'
    <1> USE DEF BInv
    <1> DEFINE a == turn[t].action
    <1>1. a \in Actions /\ status[a] \notin {"none", "rejected"} /\ a \notin ran
        BY DEF OneTurn, Waits, FirstAnswer
    <1>2. /\ status' \in [Actions -> {"none", "pending", "approved", "rejected"}]
          /\ status'[a] # "none"
          /\ approved => status'[a] # "rejected"
          /\ \A b \in Actions : b # a => status'[b] = status[b]
        BY <1>1 DEF Decide, SetActionStatus, BType
    <1>3. /\ turn' \in [Turns -> TurnTypes]
          /\ \A q \in Turns : q # t => turn'[q] = turn[q]
          /\ IF approved THEN turn'[t].at = "run" /\ turn'[t].action = a
                         ELSE turn'[t].at \in {"stream", "tools"}
        BY GoesTypes, NextUseTypes DEF Decide
    <1>4. UNCHANGED <<first, ran, call>> /\ pending' \subseteq pending
        BY DEF Decide, memberVars
    <1>5. \A q \in Turns : q # t /\ Waits(q) => turn[q].action # a /\ turn[q].action \in Actions
        BY DEF OneTurn, Waits
    <1>6. BType'
        BY <1>2, <1>3, <1>4 DEF BType
    <1>7. OneTurn'
        <2>1. \A q \in Turns : Waits(q)' => Waits(q) /\ turn'[q].action = turn[q].action
            BY <1>3 DEF Waits
        <2> QED  BY <1>1, <1>2, <2>1 DEF OneTurn
    <1>8. Unproposed'
        BY <1>1, <1>2, <1>4 DEF Unproposed
    <1>9. FirstAnswer'
        <2> SUFFICES ASSUME NEW q \in Turns, turn'[q].at = "wait"
            PROVE  LET b == turn'[q].action IN
                   /\ status'[b] # "rejected" /\ b \notin ran'
                   /\ \/ chan'[b] = <<>> /\ first'[b] = NoAnswer
                      \/ chan'[b] = <<first'[b].approved>> /\ first'[b].sent
            BY DEF FirstAnswer
        <2>1. q # t /\ turn'[q] = turn[q]
            BY <1>3
        <2> QED  BY <1>2, <1>4, <1>5, <2>1 DEF FirstAnswer, Waits
    <1>10. FirstApproved'
        <2> SUFFICES ASSUME NEW q \in Turns, turn'[q].at = "run"
            PROVE  LET b == turn'[q].action IN
                   /\ status'[b] # "rejected" /\ b \notin ran'
                   /\ first'[b].approved /\ first'[b].sent
            BY DEF FirstApproved
        <2>1. CASE q = t
            BY <1>1, <1>2, <1>3, <1>4, <2>1
        <2>2. CASE q # t
            BY <1>2, <1>3, <1>4, <1>5, <2>2 DEF FirstApproved, Waits
        <2> QED  BY <2>1, <2>2
    <1>11. OnlyApprovedActionsRun'
        BY <1>1, <1>2, <1>4 DEF OnlyApprovedActionsRun, BType
    <1> QED  BY <1>6, <1>7, <1>8, <1>9, <1>10, <1>11

LEMMA BInvTurns ==
    ASSUME BInv, MInv', NEW t \in Turns,
           \/ \E u \in Users : Send(t, u)
           \/ Expire(t) \/ Stream(t) \/ UseTool(t)
           \/ \E a \in Actions, min \in ToolRoles : Propose(t, a, min)
           \/ TakeAnswer(t) \/ StopWaiting(t) \/ RunTool(t)
    PROVE  BInv'
    <1> USE DEF BInv
    <1>1. ASSUME NEW u \in Users, Send(t, u) PROVE BInv'
        <2>1. MemberRole(u) \in Roles
            BY <1>1 DEF Send, MemberRole, MInv, MType, Roles
        <2>2. [at |-> "stream", role |-> MemberRole(u), rounds |-> 0, uses |-> 0,
                action |-> "none", expired |-> FALSE] \in TurnTypes
            BY <2>1 DEF TurnTypes, TurnRecords
        <2>3. turn' \in [Turns -> TurnTypes] /\ turn'[t].at = "stream"
              /\ \A q \in Turns : q # t => turn'[q] = turn[q]
            BY <1>1, <2>2 DEF Send, BType
        <2> QED  BY <1>1, <2>3, TurnMovesOn DEF Send, memberVars
    <1>2. CASE Expire(t)
        <2>1. turn[t].at \notin {"unsent", "done", "lost"}
            BY <1>2 DEF Expire, Live
        <2>2. turn[t] \in TurnRecords
            BY <2>1, TurnFields
        <2>3. /\ turn'[t] = [turn[t] EXCEPT !.expired = TRUE]
              /\ \A q \in Turns : q # t => turn'[q] = turn[q]
            BY <1>2 DEF Expire, BType
        <2>4. /\ turn'[t] \in TurnRecords
              /\ turn'[t].at = turn[t].at /\ turn'[t].action = turn[t].action
            BY <2>2, <2>3 DEF TurnRecords
        <2>5. turn' \in [Turns -> TurnTypes]
            BY <1>2, <2>4 DEF Expire, BType, TurnTypes
        <2>6. \A q \in Turns : turn'[q].at = turn[q].at
                               /\ (Waits(q) => turn'[q].action = turn[q].action)
            BY <2>3, <2>4
        <2>7. UNCHANGED <<status, pending, chan, first, ran, call>>
            BY <1>2 DEF Expire, memberVars
        <2>8. BType' /\ Unproposed' /\ OnlyApprovedActionsRun'
            BY <2>5, <2>7 DEF BType, Unproposed, OnlyApprovedActionsRun
        <2>9. OneTurn'
            BY <2>6, <2>7 DEF OneTurn, Waits
        <2>10. FirstAnswer' /\ FirstApproved'
            BY <2>6, <2>7 DEF FirstAnswer, FirstApproved, Waits
        <2> QED  BY <2>8, <2>9, <2>10
    <1>3. CASE Stream(t)
        <2>1. turn[t].at = "stream"
            BY <1>3 DEF Stream
        <2>2. turn[t] \in TurnRecords
            BY <2>1, TurnFields
        <2>3. CASE Goes(t, "done")
            <3>1. turn' \in [Turns -> TurnTypes] /\ turn'[t].at = "done"
                  /\ \A q \in Turns : q # t => turn'[q] = turn[q]
                BY <2>1, <2>3, GoesTypes
            <3> QED  BY <1>3, <3>1, TurnMovesOn DEF Stream, memberVars
        <2>4. CASE \E n \in 1..MaxUses :
                turn' = [turn EXCEPT ![t].at = "tools", ![t].uses = n, ![t].rounds = @ + 1]
            <3>1. PICK n \in 1..MaxUses :
                turn' = [turn EXCEPT ![t].at = "tools", ![t].uses = n, ![t].rounds = @ + 1]
                BY <2>4
            <3>2. /\ turn'[t] = [turn[t] EXCEPT !.at = "tools", !.uses = n, !.rounds = @ + 1]
                  /\ \A q \in Turns : q # t => turn'[q] = turn[q]
                BY <3>1 DEF BType
            <3>3. turn'[t] \in TurnRecords /\ turn'[t].at = "tools"
                <4>1. PICK k \in Int :
                        turn'[t] = [turn[t] EXCEPT !.at = "tools", !.uses = n, !.rounds = k]
                    <5>1. turn[t].rounds + 1 \in Int
                        BY <2>2 DEF TurnRecords
                    <5> QED  BY <3>2, <5>1
                <4>2. n \in Int
                    BY AssistantBounds
                <4> QED  BY <2>2, <4>1, <4>2 DEF TurnRecords
            <3>4. turn' \in [Turns -> TurnTypes]
                BY <3>1, <3>3 DEF BType, TurnTypes
            <3> QED  BY <1>3, <3>2, <3>3, <3>4, TurnMovesOn DEF Stream, memberVars
        <2> QED  BY <1>3, <2>3, <2>4 DEF Stream
    <1>4. CASE UseTool(t)
        <2>1. turn' \in [Turns -> TurnTypes] /\ turn'[t].at \in {"stream", "tools"}
              /\ \A q \in Turns : q # t => turn'[q] = turn[q]
            BY <1>4, NextUseTypes DEF UseTool
        <2> QED  BY <1>4, <2>1, TurnMovesOn DEF UseTool, memberVars
    <1>5. ASSUME NEW a \in Actions, NEW min \in ToolRoles, Propose(t, a, min) PROVE BInv'
        <2>1. turn[t].at = "tools" /\ status[a] = "none"
            BY <1>5 DEF Propose, CreateAction
        <2>2. turn[t] \in TurnRecords
            BY <2>1, TurnFields
        <2>3. /\ turn'[t] = [turn[t] EXCEPT !.at = "wait", !.action = a]
              /\ \A q \in Turns : q # t => turn'[q] = turn[q]
            BY <1>5 DEF Propose, BType
        <2>4. turn'[t] \in TurnRecords /\ turn'[t].at = "wait" /\ turn'[t].action = a
            BY <2>2, <2>3 DEF TurnRecords
        <2>5. turn' \in [Turns -> TurnTypes]
            BY <1>5, <2>4 DEF Propose, BType, TurnTypes
        <2>6. /\ status' \in [Actions -> {"none", "pending", "approved", "rejected"}]
              /\ status'[a] = "pending"
              /\ \A b \in Actions : b # a => status'[b] = status[b]
            BY <1>5 DEF Propose, CreateAction, BType
        <2>7. UNCHANGED <<chan, first, ran, call>> /\ pending' = pending \cup {a}
            BY <1>5 DEF Propose, memberVars
        <2>8. a \notin ran /\ chan[a] = <<>> /\ first[a] = NoAnswer
            BY <2>1 DEF Unproposed
        <2>9. \A q \in Turns : Waits(q) => turn[q].action # a /\ turn[q].action \in Actions
            BY <2>1 DEF OneTurn
        <2>10. BType'
            BY <2>5, <2>6, <2>7 DEF BType
        <2>11. Unproposed'
            BY <2>6, <2>7 DEF Unproposed
        <2>12. OnlyApprovedActionsRun'
            BY <2>6, <2>7, <2>8 DEF OnlyApprovedActionsRun, BType
        <2>13. \A q \in Turns : Waits(q)' => q = t \/ (Waits(q) /\ turn'[q] = turn[q])
            BY <2>3 DEF Waits
        <2>14. OneTurn'
            BY <2>4, <2>6, <2>9, <2>13 DEF OneTurn
        <2>15. FirstAnswer'
            <3> SUFFICES ASSUME NEW q \in Turns, turn'[q].at = "wait"
                PROVE  LET b == turn'[q].action IN
                       /\ status'[b] # "rejected" /\ b \notin ran'
                       /\ \/ chan'[b] = <<>> /\ first'[b] = NoAnswer
                          \/ chan'[b] = <<first'[b].approved>> /\ first'[b].sent
                BY DEF FirstAnswer
            <3>1. CASE q = t
                BY <2>4, <2>6, <2>7, <2>8, <3>1
            <3>2. CASE q # t
                BY <2>3, <2>6, <2>7, <2>9, <3>2 DEF FirstAnswer, Waits
            <3> QED  BY <3>1, <3>2
        <2>16. FirstApproved'
            <3> SUFFICES ASSUME NEW q \in Turns, turn'[q].at = "run"
                PROVE  LET b == turn'[q].action IN
                       /\ status'[b] # "rejected" /\ b \notin ran'
                       /\ first'[b].approved /\ first'[b].sent
                BY DEF FirstApproved
            <3>1. q # t /\ turn'[q] = turn[q]
                BY <2>3, <2>4
            <3> QED  BY <2>6, <2>7, <2>9, <3>1 DEF FirstApproved, Waits
        <2> QED  BY <2>10, <2>11, <2>12, <2>14, <2>15, <2>16
    <1>6. CASE TakeAnswer(t)
        <2>1. PICK a \in Actions : a = turn[t].action
            BY <1>6 DEF TakeAnswer, OneTurn, Waits
        <2>2. /\ turn[t].at = "wait" /\ chan[a] # <<>>
              /\ chan' = [chan EXCEPT ![a] = Tail(@)]
              /\ Decide(t, turn[t].action, Head(chan[a]))
            BY <1>6, <2>1 DEF TakeAnswer
        <2>3. chan[a] = <<first[a].approved>> /\ first[a].sent
            BY <2>1, <2>2 DEF FirstAnswer
        <2>4. Head(chan[a]) = first[a].approved /\ Tail(chan[a]) = <<>>
              /\ Head(chan[a]) \in BOOLEAN
            BY <2>1, <2>3, FirstFields DEF BType
        <2>5. chan' \in [Actions -> {<<>>, <<TRUE>>, <<FALSE>>}]
              /\ \A b \in Actions : b # a => chan'[b] = chan[b]
            BY <2>2, <2>4 DEF BType
        <2> QED  BY <2>1, <2>2, <2>3, <2>4, <2>5, BInvDecide
    <1>7. CASE StopWaiting(t)
        BY <1>7, BInvDecide DEF StopWaiting, BType
    <1>8. CASE RunTool(t)
        <2> DEFINE a == turn[t].action
        <2>1. turn[t].at = "run" /\ a \in Actions
            BY <1>8 DEF RunTool, OneTurn, Waits
        <2>2. turn' \in [Turns -> TurnTypes] /\ turn'[t].at \in {"stream", "tools"}
              /\ \A q \in Turns : q # t => turn'[q] = turn[q]
            BY <1>8, NextUseTypes DEF RunTool
        <2>3. /\ UNCHANGED <<status, chan, first, call>>
              /\ ran' = ran \cup {a} /\ pending' = pending \ {a}
            BY <1>8 DEF RunTool, memberVars
        <2>4. BType'
            BY <2>1, <2>2, <2>3 DEF BType
        <2>5. \A q \in Turns : Waits(q)' => q # t /\ Waits(q) /\ turn'[q] = turn[q]
            BY <2>2 DEF Waits
        <2>6. OneTurn'
            BY <2>3, <2>5 DEF OneTurn
        <2>7. Unproposed'
            BY <2>1, <2>3 DEF Unproposed, OneTurn, Waits
        <2>8. \A q \in Turns : Waits(q)' => turn[q].action # a
            BY <2>1, <2>5 DEF OneTurn, Waits
        <2>9. FirstAnswer'
            BY <2>3, <2>5, <2>8 DEF FirstAnswer, Waits
        <2>10. FirstApproved'
            BY <2>3, <2>5, <2>8 DEF FirstApproved, Waits
        <2>11. first[a].approved /\ first[a].sent /\ status[a] # "rejected"
            BY <2>1 DEF FirstApproved
        <2>12. OnlyApprovedActionsRun'
            BY <2>3, <2>11 DEF OnlyApprovedActionsRun
        <2> QED  BY <2>4, <2>6, <2>7, <2>9, <2>10, <2>12
    <1> QED  BY <1>1, <1>2, <1>3, <1>4, <1>5, <1>6, <1>7, <1>8

LEMMA BInvAnswers ==
    ASSUME BInv, MInv', NEW s \in Slots,
           \/ \E u \in Users, a \in Actions, approved \in BOOLEAN : ResolveCheck(s, u, a, approved)
           \/ SendAnswer(s)
    PROVE  BInv'
    <1> USE DEF BInv
    <1>1. ASSUME NEW u \in Users, NEW a \in Actions, NEW approved \in BOOLEAN,
                 ResolveCheck(s, u, a, approved)
          PROVE  BInv'
        <2>1. UNCHANGED brainVars /\ a \in pending
            BY <1>1 DEF ResolveCheck
        <2>2. BType' /\ OneTurn' /\ FirstAnswer' /\ FirstApproved' /\ OnlyApprovedActionsRun'
            BY <2>1
            DEF brainVars, BType, OneTurn, Waits, FirstAnswer, FirstApproved, OnlyApprovedActionsRun
        <2>3. /\ call'[s].action = a
              /\ \A q \in Slots : q # s => call'[q] = call[q]
            BY <1>1 DEF ResolveCheck, Begin, MInv, MType
        <2>4. Unproposed'
            BY <2>1, <2>3 DEF brainVars, Unproposed
        <2> QED  BY <2>2, <2>4
    <1>2. CASE SendAnswer(s)
        <2>1. call[s] \in Calls /\ call[s].op = "resolve"
            BY <1>2 DEF SendAnswer, MInv, MType
        <2>2. PICK a \in Actions, approved \in BOOLEAN, rank \in 0..3 :
                a = call[s].action /\ approved = call[s].approved /\ rank = call[s].rank
            BY <2>1, CallFields
        <2> DEFINE answer == [sent |-> TRUE, approved |-> approved, rank |-> rank]
        <2>3. /\ chan[a] = <<>>
              /\ chan' = [chan EXCEPT ![a] = <<approved>>]
              /\ first' = IF first[a].sent THEN first ELSE [first EXCEPT ![a] = answer]
            BY <1>2, <2>2 DEF SendAnswer
        <2>4. UNCHANGED <<turn, status, pending, ran>>
            BY <1>2 DEF SendAnswer
        <2>5. status[a] # "none"
            BY <2>1, <2>2 DEF Unproposed
        <2>6. /\ chan'[a] = <<approved>>
              /\ \A b \in Actions : b # a => chan'[b] = chan[b] /\ first'[b] = first[b]
              /\ chan' \in [Actions -> {<<>>, <<TRUE>>, <<FALSE>>}]
              /\ first' \in [Actions -> FirstAnswers]
            <3>1. <<approved>> \in {<<>>, <<TRUE>>, <<FALSE>>}
                OBVIOUS
            <3>2. chan'[a] = <<approved>> /\ \A b \in Actions : b # a => chan'[b] = chan[b]
                BY <2>3 DEF BType
            <3>3. chan' \in [Actions -> {<<>>, <<TRUE>>, <<FALSE>>}]
                BY <2>3, <3>1 DEF BType
            <3>4. answer \in FirstAnswers
                BY DEF FirstAnswers
            <3>5. first' \in [Actions -> FirstAnswers]
                BY <2>3, <3>4 DEF BType
            <3>6. \A b \in Actions : b # a => first'[b] = first[b]
                BY <2>3 DEF BType
            <3> QED  BY <3>2, <3>3, <3>5, <3>6
        <2>7. /\ first[a].sent => first'[a] = first[a]
              /\ ~first[a].sent => first'[a] = answer
            BY <2>3 DEF BType
        <2>8. BType'
            BY <2>4, <2>6 DEF BType
        <2>9. OneTurn'
            BY <2>4 DEF OneTurn, Waits
        <2>10. Unproposed'
            <3>1. call'[s] = NoCall /\ \A q \in Slots : q # s => call'[q] = call[q]
                BY <1>2, EndTypes DEF SendAnswer, MInv, MType
            <3> QED  BY <2>4, <2>5, <2>6, <3>1 DEF Unproposed, NoCall
        <2>11. FirstAnswer'
            <3> SUFFICES ASSUME NEW q \in Turns, turn[q].at = "wait"
                PROVE  LET b == turn[q].action IN
                       /\ status[b] # "rejected" /\ b \notin ran
                       /\ \/ chan'[b] = <<>> /\ first'[b] = NoAnswer
                          \/ chan'[b] = <<first'[b].approved>> /\ first'[b].sent
                BY <2>4 DEF FirstAnswer
            <3>1. PICK b \in Actions : b = turn[q].action
                BY DEF OneTurn, Waits
            <3>2. CASE b = a
                <4>1. /\ status[a] # "rejected" /\ a \notin ran
                      /\ \/ chan[a] = <<>> /\ first[a] = NoAnswer
                         \/ chan[a] = <<first[a].approved>>
                    BY <3>1, <3>2 DEF FirstAnswer
                <4>2. <<first[a].approved>> # <<>>
                    OBVIOUS
                <4>3. first[a] = NoAnswer
                    BY <2>3, <4>1, <4>2
                <4>4. first'[a] = answer
                    BY <2>7, <4>3 DEF NoAnswer
                <4>5. first'[a].approved = approved /\ first'[a].sent
                    BY <4>4
                <4> QED  BY <2>6, <3>1, <3>2, <4>1, <4>5
            <3>3. CASE b # a
                BY <2>6, <3>1, <3>3 DEF FirstAnswer
            <3> QED  BY <3>2, <3>3
        <2>12. ASSUME NEW b \in Actions, first[b].sent
               PROVE  first'[b] = first[b]
            BY <2>6, <2>7, <2>12
        <2>13. FirstApproved'
            BY <2>4, <2>12 DEF FirstApproved, OneTurn, Waits
        <2>14. OnlyApprovedActionsRun'
            <3>1. \A b \in Actions : first[b].approved => first[b].sent
                BY FirstFields DEF BType
            <3> QED  BY <2>4, <2>12, <3>1 DEF OnlyApprovedActionsRun, BType
        <2> QED  BY <2>8, <2>9, <2>10, <2>11, <2>13, <2>14
    <1> QED  BY <1>1, <1>2

LEMMA BInvRestart == ASSUME BInv, MInv', Restart PROVE BInv'
    <1> USE DEF BInv
    <1>1. \A t \in Turns : turn'[t] = IF Live(t) THEN [at |-> "lost"] ELSE turn[t]
        BY DEF Restart
    <1>2. \A t \in Turns : turn'[t].at \notin {"wait", "run"}
        BY <1>1 DEF Live
    <1>3. BType'
        BY DEF Restart, BType, TurnTypes
    <1>4. Unproposed'
        BY DEF Restart, Unproposed, NoCall, BType
    <1>5. OneTurn' /\ FirstAnswer' /\ FirstApproved'
        BY <1>2 DEF OneTurn, Waits, FirstAnswer, FirstApproved
    <1>6. OnlyApprovedActionsRun'
        BY DEF Restart, OnlyApprovedActionsRun
    <1> QED  BY <1>3, <1>4, <1>5, <1>6

LEMMA BInvInit == Init => BInv
    <1> SUFFICES ASSUME Init PROVE BInv
        OBVIOUS
    <1>1. MInv
        BY MInvInit DEF Init
    <1>2. BType
        BY DEF Init, BType, TurnTypes, FirstAnswers
    <1>3. OneTurn /\ FirstAnswer /\ FirstApproved
        BY DEF Init, OneTurn, FirstAnswer, FirstApproved, Waits, NotSent
    <1>4. Unproposed
        BY DEF Init, MembersInit, Unproposed, NoCall
    <1>5. OnlyApprovedActionsRun
        BY DEF Init, OnlyApprovedActionsRun
    <1> QED  BY <1>1, <1>2, <1>3, <1>4, <1>5 DEF BInv

LEMMA BInvNext == BInv /\ [Next]_vars => BInv'
    <1> SUFFICES ASSUME BInv, [Next]_vars PROVE BInv'
        OBVIOUS
    <1>1. MInv'
        BY MInvNext DEF BInv
    <1>2. CASE UNCHANGED vars
        BY <1>1, <1>2
        DEF vars, memberVars, brainVars, BInv, BType, OneTurn, Waits, Unproposed, FirstAnswer,
            FirstApproved, OnlyApprovedActionsRun
    <1>3. CASE MembersNext /\ UNCHANGED brainVars
        BY <1>1, <1>3, BInvMembers
    <1>4. CASE BrainNext
        BY <1>1, <1>4, BInvTurns, BInvAnswers, BInvRestart DEF BrainNext
    <1> QED  BY <1>2, <1>3, <1>4 DEF Next

(* A tool runs only when the first answer to its proposal approved it, and its *)
(* row never says rejected: no late or second answer, timeout, deadline or     *)
(* restart gets another one through, whoever the code lets answer.             *)
THEOREM ApprovalComesFirst == Spec => []OnlyApprovedActionsRun
    <1>1. BInv => OnlyApprovedActionsRun
        BY DEF BInv
    <1> QED  BY <1>1, BInvInit, BInvNext, PTL DEF Spec
=============================================================================
