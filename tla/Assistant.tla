----------------------------- MODULE Assistant ------------------------------
(* The brain's ask, propose, approve loop (internal/brain/brain.go, store.go,  *)
(* tools.go; internal/api/brain.go, and telegram.go for the same two requests  *)
(* from a chat) beside the project's members.  A member's message starts a     *)
(* turn that works with the role the sender had then.  A reversible tool runs  *)
(* at once; a mutating one is proposed, and the turn waits for one answer, the *)
(* approval timeout, or its own deadline.  Answers are requests too: they look *)
(* up the action's channel (capacity 1), then send into it.  An answer names a *)
(* project of the caller's choice, and its action is looked up in all of them. *)
EXTENDS Members, Sequences

CONSTANTS
    Elsewhere,      \* the users who are editor or owner of another project
    Turns,          \* turns the process may run
    Actions,        \* actions that may be proposed
    maxToolRounds,  \* rounds of one turn
    MaxUses         \* bound: tool calls in one round

ASSUME ElsewhereAssumption == Elsewhere \subseteq Users
ASSUME AssistantBounds == maxToolRounds \in Nat \ {0} /\ MaxUses \in Nat \ {0}

VARIABLES
    turn,       \* turn[t]: where the goroutine of Brain.run is
    status,     \* status[a]: the brain_actions row
    pending,    \* the actions that have a channel in Brain.pending
    chan,       \* chan[a]: the answers in the channel
    first,      \* first[a]: the first answer sent, and its sender's rank here (history)
    ran         \* the actions whose tool was run (history)

brainVars == <<turn, status, pending, chan, first, ran>>
vars == <<memberVars, brainVars>>

NotSent == [at |-> "unsent"]
NoAnswer == [sent |-> FALSE, approved |-> FALSE, rank |-> 0]

Init ==
    /\ MembersInit
    /\ turn = [t \in Turns |-> NotSent]
    /\ status = [a \in Actions |-> "none"]
    /\ pending = {}
    /\ chan = [a \in Actions |-> <<>>]
    /\ first = [a \in Actions |-> NoAnswer]
    /\ ran = {}

ToolRoles == {"viewer", "editor"}      \* the MinRole of the tools in toolDefs
Goes(t, at) == turn' = [turn EXCEPT ![t].at = at]
Live(t) == turn[t].at \notin {"unsent", "done", "lost"}

-----------------------------------------------------------------------------
(* The turn. *)

\* assistantSend, handleTelegramText: any member may send; the role goes along.
Send(t, u) ==
    /\ turn[t] = NotSent
    /\ MemberRole(u) # "none"
    /\ turn' = [turn EXCEPT ![t] = [at |-> "stream", role |-> MemberRole(u), rounds |-> 0,
                                    uses |-> 0, action |-> "none", expired |-> FALSE]]
    /\ UNCHANGED <<memberVars, status, pending, chan, first, ran>>

\* turnDeadline passes.
Expire(t) ==
    /\ Live(t) /\ ~turn[t].expired
    /\ turn' = [turn EXCEPT ![t].expired = TRUE]
    /\ UNCHANGED <<memberVars, status, pending, chan, first, ran>>

\* One round: the model asks for tools, or the turn is over (an answer without
\* tools, a failed or expired stream, or the rounds are used up).
Stream(t) ==
    /\ turn[t].at = "stream"
    /\ \/ /\ turn[t].rounds < maxToolRounds /\ ~turn[t].expired
          /\ \E n \in 1..MaxUses :
                turn' = [turn EXCEPT ![t].at = "tools", ![t].uses = n, ![t].rounds = @ + 1]
       \/ Goes(t, "done")
    /\ UNCHANGED <<memberVars, status, pending, chan, first, ran>>

\* The tool call is answered; after the last of its round the model is asked again.
NextUse(t) ==
    turn' = [turn EXCEPT ![t].uses = @ - 1, ![t].action = "none",
                         ![t].at = IF turn[t].uses = 1 THEN "stream" ELSE "tools"]

\* execTool for an unknown or disabled tool, one above the role, one that is
\* reversible, or a proposal that could not be stored.
UseTool(t) ==
    /\ turn[t].at = "tools"
    /\ NextUse(t)
    /\ UNCHANGED <<memberVars, status, pending, chan, first, ran>>

CreateAction(a) ==
    /\ status[a] = "none"
    /\ status' = [status EXCEPT ![a] = "pending"]

\* execTool for a mutating tool: the row, the channel, then the proposal.
Propose(t, a, min) ==
    /\ turn[t].at = "tools"
    /\ RoleAtLeast(turn[t].role, min)
    /\ CreateAction(a)
    /\ pending' = pending \cup {a}
    /\ turn' = [turn EXCEPT ![t].at = "wait", ![t].action = a]
    /\ UNCHANGED <<memberVars, chan, first, ran>>

\* The write may fail, and its caller goes on.
SetActionStatus(a, approved) ==
    status' \in {status, [status EXCEPT ![a] = IF approved THEN "approved" ELSE "rejected"]}

\* The select, and the status it leads to: the answer in the channel, or FALSE
\* after the approval timeout or the deadline, whichever was picked.
Decide(t, a, approved) ==
    /\ SetActionStatus(a, approved)
    /\ IF approved
       THEN Goes(t, "run") /\ UNCHANGED pending
       ELSE NextUse(t) /\ pending' = pending \ {a}
    /\ UNCHANGED <<memberVars, first, ran>>

TakeAnswer(t) ==
    LET a == turn[t].action IN
    /\ turn[t].at = "wait"
    /\ chan[a] # <<>>
    /\ chan' = [chan EXCEPT ![a] = Tail(@)]
    /\ Decide(t, a, Head(chan[a]))

\* Faulty variant: only an answer ends the wait.
StopWaiting_Never(t) == t \notin Turns /\ UNCHANGED vars

\* Faulty variant: a proposal that timed out goes ahead.
StopWaiting_GoesAhead(t) ==
    /\ turn[t].at = "wait"
    /\ Decide(t, turn[t].action, TRUE)
    /\ UNCHANGED chan

\* approvalTimeout needs no deadline to have passed.
StopWaiting(t) ==
    /\ turn[t].at = "wait"
    /\ Decide(t, turn[t].action, FALSE)
    /\ UNCHANGED chan

\* def.Run returns, and the deferred delete forgets the channel.
RunTool(t) ==
    /\ turn[t].at = "run"
    /\ ran' = ran \cup {turn[t].action}
    /\ pending' = pending \ {turn[t].action}
    /\ NextUse(t)
    /\ UNCHANGED <<memberVars, status, chan, first>>

-----------------------------------------------------------------------------
(* The answer. *)

\* assistantResolve, /approve and /reject up to the send: the caller is editor
\* or owner of the project in the URL, or of the chat, which need not be the
\* action's, and the action has a channel.
ResolveCheck(s, u, a, approved) ==
    /\ RoleAtLeast(MemberRole(u), "editor") \/ u \in Elsewhere
    /\ a \in pending
    /\ Begin(s, [op |-> "resolve", action |-> a, approved |-> approved, rank |-> Rank(MemberRole(u))])
    /\ UNCHANGED <<account, row, invite, ordered, brainVars>>

\* ch <- approved: waits while another answer sits in the channel.
SendAnswer(s) ==
    /\ call[s].op = "resolve"
    /\ LET a == call[s].action IN
        /\ chan[a] = <<>>
        /\ chan' = [chan EXCEPT ![a] = <<call[s].approved>>]
        /\ first' = IF first[a].sent THEN first
                    ELSE [first EXCEPT ![a] = [sent |-> TRUE, approved |-> call[s].approved,
                                               rank |-> call[s].rank]]
    /\ End(s)
    /\ UNCHANGED <<account, row, invite, ordered, turn, status, pending, ran>>

\* The control plane restarts: goroutines, channels and requests are gone, the
\* rows stay, and backfillOwnerMembers inserts the owner's row if it is missing.
Restart ==
    /\ turn' = [t \in Turns |-> IF Live(t) THEN [at |-> "lost"] ELSE turn[t]]
    /\ pending' = {}
    /\ chan' = [a \in Actions |-> <<>>]
    /\ call' = [s \in Slots |-> NoCall]
    /\ row' = [row EXCEPT ![Owner] = IF @ = "none" THEN "owner" ELSE @]
    /\ UNCHANGED <<account, invite, begun, ordered, status, first, ran>>

BrainNext ==
    \/ \E t \in Turns :
        \/ \E u \in Users : Send(t, u)
        \/ Expire(t) \/ Stream(t) \/ UseTool(t)
        \/ \E a \in Actions, min \in ToolRoles : Propose(t, a, min)
        \/ TakeAnswer(t) \/ StopWaiting(t) \/ RunTool(t)
    \/ \E s \in Slots, u \in Users, a \in Actions, approved \in BOOLEAN :
        ResolveCheck(s, u, a, approved)
    \/ \E s \in Slots : SendAnswer(s)
    \/ Restart

Next == (MembersNext /\ UNCHANGED brainVars) \/ BrainNext

Spec == Init /\ [][Next]_vars

\* The goroutine goes on, the timer of the select fires, and a tool returns.
\* Nobody has to answer.
Fairness ==
    \A t \in Turns : WF_vars(Stream(t)) /\ WF_vars(UseTool(t)) /\ WF_vars(StopWaiting(t))
                     /\ WF_vars(RunTool(t))

LiveSpec == Spec /\ Fairness

-----------------------------------------------------------------------------
TypeOK ==
    /\ account \subseteq Users /\ pending \subseteq Actions /\ ran \subseteq Actions
    /\ row \in [Users -> Roles \cup {"none"}]
    /\ status \in [Actions -> {"none", "pending", "approved", "rejected"}]
    /\ \A a \in Actions : Len(chan[a]) <= 1

(* "You NEVER write, delete, launch, or run outward-facing work without that   *)
(* explicit per-action approval": an action whose tool ran was approved by the *)
(* first answer it got, and is not shown as rejected -- whatever answers,      *)
(* timeouts, role changes and restarts cross.                                  *)
OnlyApprovedActionsRun ==
    \A a \in ran : first[a].approved /\ status[a] # "rejected"

(* api/brain.go: "a viewer may read the conversation but not resolve actions": *)
(* who approved was editor or owner of the action's project.  The code does    *)
(* not keep this for the users in Elsewhere.                                   *)
EditorsApprove == \A a \in ran : first[a].rank >= Rank("editor")

(* Every turn ends, with the message answered or the process restarted: no     *)
(* proposal nobody answers, no late or repeated answer keeps it waiting.       *)
TurnEnds == \A t \in Turns : []<>~Live(t)

=============================================================================
